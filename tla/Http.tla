-------------------------------- MODULE Http --------------------------------
(***************************************************************************)
(* How the HTTP server reads a request (lib/ca/ca-http.js).                *)
(***************************************************************************)
EXTENDS Integers

CONSTANT MaxEntity          \* ca_http_maxentity

OK == 200
CREATED == 201
ENOTFOUND == 404
ECONFLICT == 409
ETOOLARGE == 413
EUNSUPMEDIATYPE == 415
ESERVER == 500
ESRVUNAVAIL == 503

\* sendError.
Status(err) == CASE err = "ECA_INVAL" -> ECONFLICT
                 [] err \in {"ECA_NORESOURCE", "ECA_TIMEDOUT"} -> ESRVUNAVAIL
                 [] OTHER -> ESERVER

\* initRequest and decodeRequest: a request of [size, type, parses, version], the last
\* two saying that its JSON and its API version can be read.  OK means it is routed.
Decoded(r) ==
    IF r.size > MaxEntity THEN ETOOLARGE
    ELSE IF r.type = "multipart/form-data" THEN EUNSUPMEDIATYPE
    ELSE IF (r.type = "application/json" /\ ~r.parses) \/ ~r.version THEN Status("ECA_INVAL")
    ELSE OK
=============================================================================
