-------------------------------- MODULE Sandbox --------------------------------
(***************************************************************************)
(* The unauthenticated analysis surface: what an upload is answered, and   *)
(* the two stores that keep shared analyses under the hash of the upload.  *)
(* An analysis is the release of the rules that made it: the same upload   *)
(* has the same findings until the rules change.                           *)
(***************************************************************************)
EXTENDS Integers

CONSTANTS Bodies,     \* uploads: how the read ends, whether it parses and has requests
          Hash,       \* Hash[b], which trailing white space does not change
          ShareTTL,   \* ShareTTL, 30 days
          None

ASSUME SandboxAssumption ==
  /\ Bodies \subseteq [id : STRING, read : {"ok", "big", "cut"}, yaml : BOOLEAN, requests : BOOLEAN]
  /\ DOMAIN Hash = Bodies
  /\ ShareTTL \in Nat \ {0}
  /\ None \notin [body : Nat, found : Nat, created : Nat, expires : Nat]

Hashes == {Hash[b] : b \in Bodies}

(* Estimate asks the pricer only about a workload with requests, so an       *)
(* unknown region is no error for a chart without.                           *)
EstimateFails(b, region) == b.requests /\ ~region

(* What Analyze answers before it stores.                                    *)
AnalyzeCode(b, region) ==
  CASE b.read = "big" -> 413
    [] b.read = "cut" -> 400
    [] b.read = "ok" /\ ~b.yaml -> 400
    [] b.read = "ok" /\ b.yaml /\ EstimateFails(b, region) -> 500
    [] OTHER -> 200

(* SharedAnalysis: the JSON answer, the findings the page is drawn from, and *)
(* the times.                                                                *)
Row(w) == [body |-> w.rel, found |-> w.rel, created |-> w.stamp, expires |-> w.stamp + ShareTTL]

MemPut(st, w) == [st EXCEPT ![w.hash] = Row(w)]

(* Mutant: the upsert replaces the JSON payload and not the findings.        *)
PgPutPayload(st, w) ==
  [st EXCEPT ![w.hash] = IF @ = None THEN Row(w)
                         ELSE [@ EXCEPT !.expires = Row(w).expires, !.body = w.rel]]

(* Put of PgStore: ON CONFLICT moves the expiry, and nothing else.           *)
PgPut(st, w) ==
  [st EXCEPT ![w.hash] = IF @ = None THEN Row(w) ELSE [@ EXCEPT !.expires = Row(w).expires]]

(* Mutant: a share is gone at its expiry, and not after it.                  *)
GetBefore(st, h, now) ==
  IF st[h] = None THEN 404 ELSE IF now >= st[h].expires THEN 410 ELSE 200

(* Get, the same in both stores, as the status that Share gives it; Postgres *)
(* may fail besides.                                                         *)
Get(st, h, now) ==
  IF st[h] = None THEN 404 ELSE IF now > st[h].expires THEN 410 ELSE 200
=============================================================================
