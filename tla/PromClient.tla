------------------------------ MODULE PromClient ------------------------------
(***************************************************************************)
(* One instant query of the customer's Prometheus (agent/prom): the token  *)
(* that authenticates it, the request with its single retry, and the       *)
(* decoding of the answer.  What the server and the network do to an       *)
(* attempt is a reply; a sample is a pod and a value in half units, so     *)
(* that the truncations of the code are seen.                              *)
(***************************************************************************)
EXTENDS Integers, FiniteSets

CONSTANTS Tokens,       \* what the token file may hold, TrimSpace applied
          Refresh,      \* TokenRefresh, one minute
          Codes,        \* the HTTP statuses other than 200 that a server answers
          Gone          \* the token file is missing or unreadable

Blank == ""
OK == 200

ClientConfigured ==
  /\ Blank \notin Tokens /\ Gone \notin Tokens \cup {Blank}
  /\ Refresh \in Nat \ {0}
  /\ Codes \subseteq Nat \ {OK}

ASSUME ClientAssumption == ClientConfigured

(* fileTokenAuth: the token, how long ago cachedAt was set, and cachedErr.   *)
NoToken == [cached |-> Blank, age |-> Refresh, err |-> FALSE]

(* Nothing was read from the file: ok when the token that is cached is used. *)
Kept(ok, a) == [ok |-> ok, fresh |-> FALSE, auth |-> a]

(* Mutant: the age of the cached token is not looked at.                     *)
TokenForever(a, file) ==
  IF a.cached # Blank THEN Kept(TRUE, a)
  ELSE IF a.err /\ a.age < Refresh THEN Kept(FALSE, a)
  ELSE IF file = Gone THEN Kept(FALSE, [a EXCEPT !.age = 0, !.err = TRUE])
  ELSE [ok |-> file # Blank, fresh |-> TRUE, auth |-> [cached |-> file, age |-> 0, err |-> FALSE]]

(* token: the cached token while it is young, a recent error again, and a    *)
(* new reading otherwise.  A reading that fails stamps cachedAt and leaves   *)
(* the old token cached; one that is blank is not an error to remember.      *)
token(a, file) ==
  IF a.age < Refresh /\ a.cached # Blank THEN Kept(TRUE, a)
  ELSE IF a.age < Refresh /\ a.err THEN Kept(FALSE, a)
  ELSE IF file = Gone THEN Kept(FALSE, [a EXCEPT !.age = 0, !.err = TRUE])
  ELSE [ok |-> file # Blank, fresh |-> TRUE, auth |-> [cached |-> file, age |-> 0, err |-> FALSE]]

-----------------------------------------------------------------------------
(* What becomes of an attempt: no connection, an answer other than 200, a    *)
(* body that breaks off, one that is not the JSON expected (the limit on its *)
(* size cuts it there too), an error told in the body, or samples; those in  *)
(* bad are not a pair of a time and a number.                                *)
Replies(pods) ==
  {[form |-> f] : f \in {"down", "cut", "junk", "error"}}
    \cup [form : {"http"}, code : Codes]
    \cup [form : {"vector"}, result : SUBSET pods, bad : SUBSET pods]

(* statusBucket; a status below 400 is a label of its own, here "other".     *)
statusBucket(code) ==
  CASE code = 401 -> "401" [] code = 403 -> "403" [] code = 404 -> "404" [] code = 429 -> "429"
    [] code >= 500 -> "5xx"
    [] code >= 400 /\ code < 500 /\ code \notin {401, 403, 404, 429} -> "4xx"
    [] code < 400 -> "other"

Failed(status) == [status |-> status, samples |-> {}, retry |-> FALSE]

(* parseInstant: a body that does not decode or does not say success is an   *)
(* error; an entry that is not a pair is skipped.                            *)
parseInstant(r) ==
  IF r.form \in {"junk", "error"} THEN Failed("decode_error")
  ELSE [status |-> "ok", samples |-> r.result \ r.bad, retry |-> FALSE]

(* doOnce, for a request that Apply could sign or not.                       *)
doOnce(signed, r) ==
  IF ~signed THEN Failed("auth_error")
  ELSE IF r.form = "down" THEN Failed("transport_error")
  ELSE IF r.form = "http"
    THEN [Failed(statusBucket(r.code)) EXCEPT !.retry = r.code >= 500]
  ELSE IF r.form = "cut" THEN Failed("read_error")
  ELSE parseInstant(r)

(* do: a 5xx is tried a second time, and the second answer is the result;    *)
(* tries are the tokens that Apply fetched.                                  *)
do(a, file, r1, r2) ==
  LET t1 == token(a, file)
      d1 == doOnce(t1.ok, r1)
      t2 == token(t1.auth, file)
      d2 == doOnce(t2.ok, r2)
  IN  IF d1.retry
        THEN [status |-> d2.status, samples |-> d2.samples, auth |-> t2.auth, tries |-> <<t1, t2>>]
        ELSE [status |-> d1.status, samples |-> d1.samples, auth |-> t1.auth, tries |-> <<t1>>]
=============================================================================
