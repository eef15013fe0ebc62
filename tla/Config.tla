------------------------------- MODULE Config --------------------------------
(* internal/config/config.go, and the checks the constructors of main make of    *)
(* what it loads.  Of a variable's text the code tells apart whether it is       *)
(* empty, all blanks, and a number.                                              *)

Required == {"POSTGRES_USER", "POSTGRES_PASSWORD", "POSTGRES_DB", "JWT_SECRET",
             "CIPHER_SECRET_KEY", "HMAC_SECRET_KEY", "MAIL_HOST", "MAIL_PORT",
             "MAIL_USER", "MAIL_PW", "GOOGLE_CLIENT_ID", "AWS_REGION", "AWS_IMAGE_BUCKET"}

Texts == {"empty", "blank", "word", "number"}

(* requiredEnv, and strconv.Atoi of MAIL_PORT.                                   *)
Accepts(v, text) ==
  /\ text # "empty"
  /\ v = "MAIL_PORT" => text = "number"

(* Load returns an error for the first variable it does not accept.              *)
Loads(env) == \A v \in Required : Accepts(v, env[v])

(* NewGoogleOAuth and NewJWTService refuse what is blank.                        *)
Constructs(env) == \A v \in {"GOOGLE_CLIENT_ID", "JWT_SECRET"} : env[v] # "blank"

(* The environments with at most one variable that is not as it should be.       *)
Good == [v \in Required |-> IF v = "MAIL_PORT" THEN "number" ELSE "word"]
Environments == {[Good EXCEPT ![v] = text] : v \in Required, text \in Texts}
==============================================================================
