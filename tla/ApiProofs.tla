------------------------------- MODULE ApiProofs -------------------------------
(***************************************************************************)
(* Proofs for Api: for any uploads, tenants, deliveries, analyses in       *)
(* flight, restarts and failures of the stores, the sandbox, the sessions, *)
(* the ingest sinks and the preflight keep what they promise.              *)
(***************************************************************************)
EXTENDS Api, TLAPS

USE AccessAssumption, SandboxAssumption, ApiAssumption

-----------------------------------------------------------------------------
(* What each step leaves alone.                                              *)

(* The requests that write nothing but the answer.                           *)
Reading ==
  /\ proc = "up" /\ UNCHANGED <<now, procVars, mix, shareVars, issued, sinkVars, hooks>>
  /\ \/ reply'.route \notin {"whoami", "preflight"}
     \/ \E a, b \in issued \cup {Nobody} : Whoami(a, b)
     \/ \E r \in Callers, w \in Worlds, read \in Reads \cup {"chunked"}, url \in BOOLEAN :
          PreflightRequest(r, w, read, url)

(* The requests of one handler that does write.                              *)
Analyzing == \E c \in Clients, b \in Bodies : Analyze(c, b)
Storing == \E c \in Clients : Store(c)
Issuing == \E t \in Tenants \cup {Nobody}, read \in Reads : Issue(t, read)
Ingesting == \E r \in Callers, q \in Batches, prom, cur \in BOOLEAN : IngestRequest(r, q, prom, cur)
Delivering == \E e \in Events, body \in {"signed", "unsigned", "big", "cut"}, result \in Results :
                Webhook(e, body, result)
Booting == \E c \in mix.envs, n \in Releases : Boot(c, n)

(* An answer with a status alone comes from the route that gave it.          *)
LEMMA AnswerRoute ==
  ASSUME NEW route, NEW code, Answer(route, code)
  PROVE  reply'.route = route
  BY DEF Answer

(* The refusals of the limiter only answer.                                  *)
LEMMA LimitedReads ==
  ASSUME NEW route \in {"analyze", "share"}, Limited(route)
  PROVE  Reading
  BY DEF Limited, Request, Answer, Reading

(* A share is read, not written.                                             *)
LEMMA ShareReads ==
  ASSUME NEW h, NEW json, Share(h, json)
  PROVE  Reading
  <1>1. reply'.route = "share"
    BY DEF Share, Answer
  <1> QED
    BY <1>1 DEF Share, Request, Reading

(* Neither whoami nor the preflight writes.                                  *)
LEMMA WhoamiReads ==
  ASSUME NEW a \in issued \cup {Nobody}, NEW b \in issued \cup {Nobody}, Whoami(a, b)
  PROVE  Reading
  <1>1. proc = "up" /\ UNCHANGED <<now, procVars, mix, shareVars, issued, sinkVars, hooks>>
    BY DEF Whoami, Request
  <1> QED
    BY <1>1 DEF Reading

(* A preflight request changes nothing.                                      *)
LEMMA PreflightReads ==
  ASSUME NEW r \in Callers, NEW w \in Worlds, NEW read \in Reads \cup {"chunked"}, NEW url \in BOOLEAN,
         PreflightRequest(r, w, read, url)
  PROVE  Reading
  <1>1. proc = "up" /\ UNCHANGED <<now, procVars, mix, shareVars, issued, sinkVars, hooks>>
    BY DEF PreflightRequest, Request
  <1> QED
    BY <1>1 DEF Reading

(* The handlers that keep no state.                                          *)
LEMMA StatelessReads ==
  ASSUME NEW route \in Public \cup {"summary", "preview", "fixes", "health"}, NEW r, NEW q,
         Stateless(route, r, q)
  PROVE  Reading
  <1>1. proc = "up" /\ UNCHANGED <<now, procVars, mix, shareVars, issued, sinkVars, hooks>>
    BY DEF Stateless, Request
  <1>2. \E code : Answer(route, code)
    BY DEF Stateless
  <1>3. reply'.route = route
    BY <1>2, AnswerRoute
  <1> QED
    BY <1>1, <1>3 DEF Reading, Public

(* Every step is one of these.                                               *)
LEMMA Steps ==
  ASSUME [Next]_vars
  PROVE  \/ UNCHANGED vars \/ Booting \/ Stop \/ Tick \/ Reading
         \/ Analyzing \/ Storing \/ Issuing \/ Ingesting \/ Delivering
  <1>1. ASSUME NEW route \in {"analyze", "share"}, Limited(route) PROVE Reading
    BY <1>1, LimitedReads
  <1>2. ASSUME NEW h \in Hashes, NEW json \in BOOLEAN, Share(h, json) PROVE Reading
    BY <1>2, ShareReads
  <1>3. ASSUME NEW a \in issued \cup {Nobody}, NEW b \in issued \cup {Nobody}, Whoami(a, b)
        PROVE  Reading
    BY <1>3, WhoamiReads
  <1>4. ASSUME NEW r \in Callers, NEW w \in Worlds, NEW read \in Reads \cup {"chunked"}, NEW url \in BOOLEAN,
               PreflightRequest(r, w, read, url)
        PROVE  Reading
    BY <1>4, PreflightReads
  <1>5. ASSUME NEW route \in mix.routes \cap (Public \cup {"summary", "preview", "fixes", "health"}),
               NEW r \in Callers, NEW q \in Asks, Stateless(route, r, q)
        PROVE  Reading
    BY <1>5, StatelessReads
  <1> QED
    BY <1>1, <1>2, <1>3, <1>4, <1>5
       DEF Next, Booting, Analyzing, Storing, Issuing, Ingesting, Delivering

-----------------------------------------------------------------------------
(* Ingestion.                                                                *)

Counts == [prom : Nat, cur : Nat]
IngestInv == stored \in [Tenants -> Counts] /\ acks \in [Tenants -> Counts] /\ IngestAccounted

(* The first check that fails is one of them, or there is none.              *)
LEMMA FirstFailedIs ==
  ASSUME NEW t, NEW q, NEW prom, NEW cur
  PROVE  LET steps == ingestSteps(t, q, prom, cur)
             n     == FirstFailed(steps)
         IN  /\ Len(steps) = 8 /\ n \in 1..9
             /\ n = 9 \/ ~steps[n].ok
             /\ \A j \in 1..(n - 1) : steps[j].ok
  <1> DEFINE steps == ingestSteps(t, q, prom, cur)
             First(i) == (i = Len(steps) + 1 \/ ~steps[i].ok) /\ \A j \in 1..(i - 1) : steps[j].ok
  <1>1. Len(steps) = 8
    BY DEF ingestSteps
  <1> HIDE DEF steps
  <1>2. \E i \in 1..9 : First(i)
    <2>1. CASE \A j \in 1..8 : steps[j].ok
      <3>1. First(9)
        BY <1>1, <2>1
      <3> QED
        BY <3>1
    <2>2. CASE ~steps[1].ok
      BY <2>2
    <2>3. CASE steps[1].ok /\ ~steps[2].ok
      BY <2>3
    <2>4. CASE steps[1].ok /\ steps[2].ok /\ ~steps[3].ok
      BY <2>4
    <2>5. CASE (\A j \in 1..3 : steps[j].ok) /\ ~steps[4].ok
      BY <2>5
    <2>6. CASE (\A j \in 1..4 : steps[j].ok) /\ ~steps[5].ok
      BY <2>6
    <2>7. CASE (\A j \in 1..5 : steps[j].ok) /\ ~steps[6].ok
      BY <2>7
    <2>8. CASE (\A j \in 1..6 : steps[j].ok) /\ ~steps[7].ok
      BY <2>8
    <2>9. CASE (\A j \in 1..7 : steps[j].ok) /\ ~steps[8].ok
      BY <2>9
    <2> QED
      BY <2>1, <2>2, <2>3, <2>4, <2>5, <2>6, <2>7, <2>8, <2>9
  <1>3. FirstFailed(steps) \in 1..9 /\ First(FirstFailed(steps))
    BY <1>1, <1>2 DEF FirstFailed
  <1> QED
    BY <1>1, <1>3 DEF steps

(* A batch reaches the sink of the cost rows exactly when it has some and is *)
(* answered 200, and one answered 200 left its series in their sink.         *)
LEMMA IngestOutcome ==
  ASSUME NEW t, NEW q, NEW prom, NEW cur
  PROVE  LET out == IngestBatch(t, q, prom, cur)
         IN  /\ out.prom \in BOOLEAN /\ out.cur \in BOOLEAN
             /\ out.cur <=> (out.code = 200 /\ q.cur # Absent)
             /\ out.code = 200 => (out.prom <=> q.prom # Absent)
  <1> DEFINE steps == ingestSteps(t, q, prom, cur)
             n     == FirstFailed(steps)
             out   == IngestBatch(t, q, prom, cur)
  <1>1. Len(steps) = 8 /\ n \in 1..9
    BY FirstFailedIs
  <1>2. \A i \in 1..8 : steps[i].code # 200
    BY DEF ingestSteps
  <1>3. /\ out.code = StatusAt(steps, n, 200)
        /\ out.prom = (n > PromStored /\ q.prom # Absent)
        /\ out.cur = (n > CURStored /\ q.cur # Absent)
    BY DEF IngestBatch
  <1> HIDE DEF steps, n, out
  <1>4. out.code = 200 <=> n = 9
    BY <1>1, <1>2, <1>3 DEF StatusAt
  <1>5. (n > CURStored <=> n = 9) /\ (n = 9 => n > PromStored)
    BY <1>1 DEF CURStored, PromStored
  <1> QED
    BY <1>3, <1>4, <1>5 DEF out

(* Counting a batch of tenant t.                                             *)
LEMMA CountedIs ==
  ASSUME NEW f \in [Tenants -> Counts], NEW t, NEW p \in Nat, NEW c \in Nat
  PROVE  LET g == [f EXCEPT ![t] = [prom |-> @.prom + p, cur |-> @.cur + c]]
         IN  /\ g \in [Tenants -> Counts]
             /\ \A u \in Tenants : /\ g[u].cur = f[u].cur + IF u = t THEN c ELSE 0
                                   /\ g[u].prom = f[u].prom + IF u = t THEN p ELSE 0
  <1> DEFINE row == [prom |-> f[t].prom + p, cur |-> f[t].cur + c]
             g   == [f EXCEPT ![t] = row]
  <1>1. t \in Tenants => row \in Counts
    BY DEF Counts
  <1>2. row.prom = f[t].prom + p /\ row.cur = f[t].cur + c
    OBVIOUS
  <1>3. \A u \in Tenants : f[u].prom \in Nat /\ f[u].cur \in Nat
    BY DEF Counts
  <1> SUFFICES /\ g \in [Tenants -> Counts]
               /\ \A u \in Tenants : /\ g[u].cur = f[u].cur + IF u = t THEN c ELSE 0
                                     /\ g[u].prom = f[u].prom + IF u = t THEN p ELSE 0
    OBVIOUS
  <1> HIDE DEF row
  <1>4. g \in [Tenants -> Counts]
    BY <1>1
  <1>5. \A u \in Tenants : g[u] = IF u = t THEN row ELSE f[u]
    OBVIOUS
  <1> HIDE DEF g
  <1>6. ASSUME NEW u \in Tenants
        PROVE  /\ g[u].cur = f[u].cur + IF u = t THEN c ELSE 0
               /\ g[u].prom = f[u].prom + IF u = t THEN p ELSE 0
    <2>1. CASE u = t
      BY <1>2, <1>5, <2>1
    <2>2. CASE u # t
      BY <1>3, <1>5, <2>2
    <2> QED
      BY <2>1, <2>2
  <1> QED
    BY <1>4, <1>6

(* A batch counts the same cost rows in the sink and among the answers.      *)
LEMMA IngestStep ==
  ASSUME IngestInv, NEW r, NEW q, NEW prom, NEW cur, IngestRequest(r, q, prom, cur)
  PROVE  IngestInv'
  <1> DEFINE t == requireTenant("ingest", cfg.env, r)
             out == IngestBatch(t, q, prom, cur)
             n(b) == IF b THEN 1 ELSE 0
  <1>1. /\ out.prom \in BOOLEAN /\ out.cur \in BOOLEAN
        /\ out.cur <=> (out.code = 200 /\ q.cur # Absent)
        /\ out.code = 200 => (out.prom <=> q.prom # Absent)
    BY IngestOutcome
  <1>2. \/ UNCHANGED sinkVars
        \/ /\ stored' = [stored EXCEPT ![t] = [prom |-> @.prom + n(out.prom),
                                          cur |-> @.cur + n(out.cur)]]
           /\ acks' = IF out.code # 200 THEN acks
                      ELSE [acks EXCEPT ![t] = [prom |-> @.prom + n(q.prom # Absent),
                                              cur |-> @.cur + n(q.cur # Absent)]]
    BY DEF IngestRequest, sinkVars
  <1> HIDE DEF t, out
  <1>3. CASE UNCHANGED sinkVars
    BY <1>3 DEF IngestInv, IngestAccounted, sinkVars
  <1>4. CASE ~UNCHANGED sinkVars
    <2>1. stored' = [stored EXCEPT ![t] = [prom |-> @.prom + n(out.prom),
                                          cur |-> @.cur + n(out.cur)]]
      BY <1>2, <1>4
    <2>0. \A b : n(b) \in Nat
      OBVIOUS
    <2> HIDE DEF n
    <2>2. stored' \in [Tenants -> Counts]
      BY <2>0, <2>1, CountedIs DEF IngestInv
    <2>3. \A u \in Tenants : /\ stored'[u].cur = stored[u].cur + IF u = t THEN n(out.cur) ELSE 0
                             /\ stored'[u].prom = stored[u].prom + IF u = t THEN n(out.prom) ELSE 0
      BY <2>0, <2>1, CountedIs DEF IngestInv
    <2>4. CASE out.code # 200
      <3>1. acks' = acks /\ n(out.cur) = 0 /\ n(out.prom) \in Nat
        BY <1>1, <1>2, <1>4, <2>4 DEF n
      <3> QED
        BY <2>2, <2>3, <3>1 DEF IngestInv, IngestAccounted, Counts
    <2>5. CASE out.code = 200
      <3>1. acks' = [acks EXCEPT ![t] = [prom |-> @.prom + n(out.prom), cur |-> @.cur + n(out.cur)]]
        BY <1>1, <1>2, <1>4, <2>5 DEF n
      <3>2. /\ acks' \in [Tenants -> Counts]
            /\ \A u \in Tenants : /\ acks'[u].cur = acks[u].cur + IF u = t THEN n(out.cur) ELSE 0
                                  /\ acks'[u].prom = acks[u].prom + IF u = t THEN n(out.prom) ELSE 0
        BY <2>0, <3>1, CountedIs DEF IngestInv
      <3> QED
        BY <2>0, <2>2, <2>3, <3>1, <3>2 DEF IngestInv, IngestAccounted, Counts
    <2> QED
      BY <2>4, <2>5
  <1> QED
    BY <1>3, <1>4

(* Only a batch touches the sinks.                                           *)
LEMMA IngestNext == IngestInv /\ [Next]_vars => IngestInv'
  <1> SUFFICES ASSUME IngestInv, [Next]_vars PROVE IngestInv'
    OBVIOUS
  <1>1. CASE UNCHANGED sinkVars
    BY <1>1 DEF IngestInv, IngestAccounted, sinkVars
  <1>2. CASE Ingesting
    BY <1>2, IngestStep DEF Ingesting
  <1>3. (Analyzing \/ Storing) => UNCHANGED sinkVars
    BY DEF Analyzing, Analyze, Storing, Store
  <1>4. Issuing => UNCHANGED sinkVars
    BY DEF Issuing, Issue
  <1>5. Delivering => UNCHANGED sinkVars
    BY DEF Delivering, Webhook
  <1>6. (UNCHANGED vars \/ Booting \/ Stop \/ Tick \/ Reading) => UNCHANGED sinkVars
    BY DEF vars, sinkVars, Booting, Boot, Stop, Tick, Reading
  <1> QED
    BY <1>1, <1>2, <1>3, <1>4, <1>5, <1>6, Steps

(* The cost rows of a tenant were stored once per batch answered 200, and    *)
(* its series at least once (Handler.Ingest), whichever sink fails.          *)
THEOREM IngestAccountedHolds == Spec => []IngestAccounted
  <1>1. Init => IngestInv
    <2> SUFFICES ASSUME Init PROVE IngestInv
      OBVIOUS
    <2>1. stored \in [Tenants -> Counts] /\ acks = stored
      BY DEF Init, Counts
    <2> QED
      BY <2>1 DEF IngestInv, IngestAccounted, Counts
  <1> QED
    BY <1>1, IngestNext, PTL DEF Spec, IngestInv

-----------------------------------------------------------------------------
(* Sessions and the preflight: what the last answer says.                    *)

Token == [tenant : Tenants, secret : STRING, exp : Nat]

(* The process runs in one of the environments of its mix, and there is no   *)
(* answer of a process that stopped.                                         *)
ProcInv ==
  /\ now \in Nat /\ mix \in Mixes
  /\ proc = "up" => cfg \in mix.envs
  /\ proc = "off" => reply = NoReply

(* The expiry that was told is the one that the token carries.               *)
IssuedTold == \A s \in issued : s.token \in Token /\ s.expires = 2 * s.token.exp

SessionInv == ProcInv /\ IssuedTold /\ SessionUntilTold /\ PreflightGate

(* What stays true of the answer when neither it nor the environment change. *)
LEMMA SameAnswer ==
  ASSUME SessionUntilTold, PreflightGate, UNCHANGED <<reply, cfg>>
  PROVE  SessionUntilTold' /\ PreflightGate'
  BY DEF SessionUntilTold, PreflightGate

(* The answers of the other handlers say nothing of these.                   *)
LEMMA OtherAnswer ==
  ASSUME reply'.route \notin {"whoami", "preflight"}
  PROVE  SessionUntilTold' /\ PreflightGate'
  BY DEF SessionUntilTold, PreflightGate

(* No answer yet.                                                            *)
LEMMA NoAnswer ==
  ASSUME reply' = NoReply
  PROVE  SessionUntilTold' /\ PreflightGate'
  BY DEF SessionUntilTold, PreflightGate, NoReply

(* An issued session is recorded with the expiry that its token carries.     *)
LEMMA IssueStep ==
  ASSUME SessionInv, NEW t \in Tenants \cup {Nobody}, NEW read, Issue(t, read)
  PROVE  IssuedTold'
  <1> DEFINE s == [token |-> SignerIssue(t, cfg.secret, now), expires |-> ToldExpiry(now)]
  <1>1. CASE issued' = issued
    BY <1>1 DEF SessionInv, IssuedTold
  <1>2. CASE t # Nobody /\ issued' = issued \cup {s}
    <2>1. cfg.secret \in STRING
      BY DEF SessionInv, ProcInv, Issue, Request
    <2>2. (now + SessionTTL) \div 2 \in Nat
      BY DEF SessionInv, ProcInv
    <2>3. s.token \in Token /\ s.expires = 2 * s.token.exp
      BY <1>2, <2>1, <2>2 DEF SignerIssue, ToldExpiry, Token
    <2> HIDE DEF s
    <2> QED
      BY <1>2, <2>3 DEF SessionInv, IssuedTold
  <1> QED
    BY <1>1, <1>2 DEF Issue

(* whoami answers by the sessions presented, and by their told expiry.       *)
LEMMA WhoamiStep ==
  ASSUME SessionInv, NEW a \in issued \cup {Nobody}, NEW b \in issued \cup {Nobody}, Whoami(a, b)
  PROVE  SessionUntilTold' /\ PreflightGate'
  <1> DEFINE tok(x) == IF x = Nobody THEN Nobody ELSE x.token
             s      == sessionFromRequest(tok(a), tok(b), cfg.secret, now)
             Good(x) == x.token.secret = cfg.secret /\ now <= x.expires
             as == IF s = Nobody THEN Nobody ELSE s.tenant
             code == IF s = Nobody THEN 401 ELSE 200
  <1>1. reply' = [route |-> "whoami", code |-> code, at |-> now, as |-> as,
                  with |-> {a, b} \ {Nobody}] /\ cfg' = cfg
    BY DEF Whoami, Request, procVars
  <1>2. \A x \in {a, b} \ {Nobody} : /\ tok(x) = x.token /\ x.token # Nobody
                                    /\ SignerVerify(x.token, cfg.secret, now) <=> Good(x)
    BY DEF SessionInv, IssuedTold, Token, SignerVerify
  <1>3. \/ /\ s = Nobody /\ \A x \in {a, b} \ {Nobody} : ~Good(x)
        \/ /\ s # Nobody /\ \E x \in {a, b} \ {Nobody} : Good(x) /\ s = x.token
    BY <1>2 DEF sessionFromRequest
  <1>4. (code = 200) <=> (s # Nobody)
    OBVIOUS
  <1>5. s # Nobody => as = s.tenant
    OBVIOUS
  <1> HIDE DEF s, code, as, Good
  <1>6. /\ reply'.route = "whoami" /\ reply'.code = code /\ reply'.at = now /\ reply'.as = as
        /\ reply'.with = {a, b} \ {Nobody}
    BY <1>1
  <1>7. PreflightGate'
    BY <1>6 DEF PreflightGate
  <1>8. \A x : (x.token.secret = cfg'.secret /\ reply'.at <= x.expires) <=> Good(x)
    BY <1>1, <1>6 DEF Good
  <1> DEFINE good == {x \in reply'.with : x.token.secret = cfg'.secret /\ reply'.at <= x.expires}
  <1>9. \A x : x \in good <=> x \in {a, b} \ {Nobody} /\ Good(x)
    BY <1>6, <1>8
  <1> HIDE DEF good
  <1>10. (reply'.code = 200) <=> (good # {})
    BY <1>3, <1>4, <1>6, <1>9
  <1>11. reply'.code = 200 => reply'.as \in {x.token.tenant : x \in good}
    <2> SUFFICES ASSUME reply'.code = 200 PROVE reply'.as \in {x.token.tenant : x \in good}
      OBVIOUS
    <2>1. PICK x \in {a, b} \ {Nobody} : Good(x) /\ s = x.token
      BY <1>3, <1>4, <1>6
    <2>2. x \in good
      BY <1>9, <2>1
    <2>3. reply'.as = x.token.tenant
      BY <1>4, <1>5, <1>6, <2>1
    <2> QED
      BY <2>2, <2>3
  <1>12. SessionUntilTold'
    BY <1>10, <1>11 DEF SessionUntilTold, good
  <1> QED
    BY <1>7, <1>12

(* A number with digits appended is no smaller.                              *)
LEMMA ShiftGrows ==
  ASSUME NEW n \in Nat, NEW shift \in Nat \ {0}, NEW value \in Nat
  PROVE  n * shift + value >= n
  <1>1. PICK k \in Nat : shift = k + 1
    <2>1. shift - 1 \in Nat /\ shift = (shift - 1) + 1
      OBVIOUS
    <2> QED
      BY <2>1
  <1>2. n * shift = n * k + n /\ n * k \in Nat
    BY <1>1
  <1> QED
    BY <1>2

(* What is read of a version: its own minor if it has no tag with digits,    *)
(* and never less.                                                           *)
LEMMA VersionRead ==
  ASSUME NEW v, IsVersion(v)
  PROVE  /\ versionAtLeast(v) => Supported(v) \/ TaggedMinor(v)
         /\ Supported(v) /\ v.minor # Missing => versionAtLeast(v)
  <1>1. PICK major, minor, shift, value \in Int :
          /\ v.major = major /\ v.minor = minor /\ v.shift = shift /\ v.value = value
          /\ major >= -1 /\ minor >= -1 /\ shift >= 1 /\ value >= 0 /\ value < shift
    BY DEF IsVersion, Missing
  <1>2. CASE minor = -1
    <2>1. stripNonDigits(v) = IF shift > 1 THEN value ELSE -1
      BY <1>1, <1>2 DEF stripNonDigits, Missing
    <2> QED
      BY <1>1, <1>2, <2>1 DEF versionAtLeast, Supported, TaggedMinor, Missing
  <1>3. CASE minor # -1
    <2>1. PICK n \in Int : n = minor * shift + value
      BY <1>1
    <2>2. stripNonDigits(v) = n /\ minor \in Nat
      BY <1>1, <1>3, <2>1 DEF stripNonDigits, Missing
    <2>3. n >= minor
      BY <1>1, <2>1, <2>2, ShiftGrows
    <2>4. shift = 1 => n = minor
      BY <1>1, <2>1
    <2> QED
      BY <1>1, <1>3, <2>2, <2>3, <2>4 DEF versionAtLeast, Supported, TaggedMinor, Missing
  <1> QED
    BY <1>2, <1>3

(* A report without red says what the gate needs of it, and a fit cluster    *)
(* gets one.                                                                 *)
LEMMA PreflightStep ==
  ASSUME NEW r, NEW w \in Worlds, NEW read, NEW url \in BOOLEAN, PreflightRequest(r, w, read, url)
  PROVE  SessionUntilTold' /\ PreflightGate'
  <1> DEFINE given == url /\ read # "chunked"
  <1>1. CASE \E code : code # 200 /\ Answer("preflight", code)
    BY <1>1 DEF Answer, SessionUntilTold, PreflightGate
  <1>2. CASE reply' = [route |-> "preflight", code |-> 200, world |-> w, url |-> given,
                       checks |-> Run(w, given)]
    <2>1. SessionUntilTold'
      BY <1>2 DEF SessionUntilTold
    <2>2. reply'.world = w /\ reply'.url = given /\ reply'.checks = Run(w, given)
      BY <1>2
    <2>0. given \in BOOLEAN
      OBVIOUS
    <2> HIDE DEF given
    <2>3. /\ Run(w, given)[1] = k8sVersionCheck(w) /\ Run(w, given)[2] = prometheusCheck(w, given)
          /\ Run(w, given)[3] = rbacCheck(w) /\ Run(w, given)[4] = karpenterCheck(w)
          /\ Run(w, given)[5] = autoscalerCheck(w) /\ Run(w, given)[6] = unsupportedProvisionerCheck(w)
          /\ Run(w, given)[7] = namespaceCountCheck(w)
      BY DEF Run
    <2>4. DOMAIN Checks = 1..7
      BY DEF Checks
    <2> DEFINE red == \E i \in DOMAIN Checks : Run(w, given)[i] = "fail"
    <2>5. /\ versionAtLeast(w.version) => Supported(w.version) \/ TaggedMinor(w.version)
          /\ Supported(w.version) /\ w.version.minor # Missing => versionAtLeast(w.version)
      BY VersionRead
    <2>6. ~red => /\ w.rbac /\ (given => w.prom)
                  /\ versionAtLeast(w.version)
                  /\ w.unsupported => ProbeErr(w, 6)
      <3>1. ~red => /\ k8sVersionCheck(w) # "fail" /\ prometheusCheck(w, given) # "fail"
                    /\ rbacCheck(w) # "fail" /\ unsupportedProvisionerCheck(w) # "fail"
        BY <2>3, <2>4
      <3> QED
        BY <3>1 DEF k8sVersionCheck, prometheusCheck, rbacCheck, unsupportedProvisionerCheck
    <2>7. ASSUME w.rbac, given => w.prom, ~w.unsupported, versionAtLeast(w.version),
                 \A i \in DOMAIN Checks : ~ProbeErr(w, i)
          PROVE  ~red
      <3>1. ~ProbeErr(w, 1) /\ ~ProbeErr(w, 2) /\ ~ProbeErr(w, 3) /\ ~ProbeErr(w, 6)
        BY <2>4, <2>7
      <3>2. /\ k8sVersionCheck(w) # "fail" /\ prometheusCheck(w, given) # "fail"
            /\ rbacCheck(w) # "fail" /\ unsupportedProvisionerCheck(w) # "fail"
        BY <2>7, <3>1 DEF k8sVersionCheck, prometheusCheck, rbacCheck, unsupportedProvisionerCheck
      <3>3. /\ karpenterCheck(w) # "fail" /\ autoscalerCheck(w) # "fail" /\ namespaceCountCheck(w) # "fail"
        BY DEF karpenterCheck, autoscalerCheck, namespaceCountCheck
      <3> QED
        BY <2>3, <2>4, <3>2, <3>3
    <2> QED
      BY <2>1, <2>2, <2>5, <2>6, <2>7 DEF PreflightGate
  <1> QED
    BY <1>1, <1>2 DEF PreflightRequest

(* No step tells more of a session than its token does.                      *)
LEMMA SessionNext == SessionInv /\ [Next]_vars => SessionInv'
  <1> SUFFICES ASSUME SessionInv, [Next]_vars PROVE SessionInv'
    OBVIOUS
  <1> USE DEF SessionInv
  <1>1. CASE UNCHANGED vars
    BY <1>1, SameAnswer DEF vars, ProcInv, IssuedTold
  <1>2. CASE Booting
    <2>1. reply' = NoReply /\ UNCHANGED issued
      BY <1>2 DEF Booting, Boot, ProcInv
    <2>2. ProcInv'
      BY <1>2, <2>1 DEF Booting, Boot, ProcInv
    <2> QED
      BY <2>1, <2>2, NoAnswer DEF IssuedTold
  <1>3. CASE Stop
    BY <1>3, NoAnswer DEF Stop, ProcInv, IssuedTold
  <1>4. CASE Tick
    BY <1>4, SameAnswer DEF Tick, procVars, ProcInv, IssuedTold
  <1>5. CASE Reading
    <2>1. ProcInv' /\ IssuedTold'
      BY <1>5 DEF Reading, procVars, ProcInv, IssuedTold
    <2>2. SessionUntilTold' /\ PreflightGate'
      BY <1>5, OtherAnswer, WhoamiStep, PreflightStep DEF Reading
    <2> QED
      BY <2>1, <2>2
  <1>6. CASE Analyzing
    <2>1. UNCHANGED <<now, mix, proc, cfg, issued>> /\ proc = "up"
      BY <1>6 DEF Analyzing, Analyze, Request, procVars
    <2>2. reply' = reply \/ reply'.route = "analyze"
      BY <1>6 DEF Analyzing, Analyze, Answer
    <2> QED
      BY <2>1, <2>2, SameAnswer, OtherAnswer DEF ProcInv, IssuedTold
  <1>7. CASE Storing
    <2>1. UNCHANGED <<now, mix, proc, cfg, issued>> /\ proc = "up" /\ reply'.route = "analyze"
      BY <1>7 DEF Storing, Store, procVars, Answer
    <2> QED
      BY <2>1, OtherAnswer DEF ProcInv, IssuedTold
  <1>8. CASE Issuing
    <2>1. UNCHANGED <<now, mix, proc, cfg>> /\ proc = "up" /\ reply'.route = "issue"
      BY <1>8 DEF Issuing, Issue, Request, procVars, Answer
    <2>2. IssuedTold'
      BY <1>8, IssueStep DEF Issuing
    <2> QED
      BY <2>1, <2>2, OtherAnswer DEF ProcInv
  <1>9. CASE Ingesting
    <2>1. UNCHANGED <<now, mix, proc, cfg, issued>> /\ proc = "up" /\ reply'.route = "ingest"
      BY <1>9 DEF Ingesting, IngestRequest, Request, procVars, Answer
    <2> QED
      BY <2>1, OtherAnswer DEF ProcInv, IssuedTold
  <1>10. CASE Delivering
    <2>1. UNCHANGED <<now, mix, proc, cfg, issued>> /\ proc = "up" /\ reply'.route = "webhook"
      BY <1>10 DEF Delivering, Webhook, Request, procVars, Answer
    <2> QED
      BY <2>1, OtherAnswer DEF ProcInv, IssuedTold
  <1> QED
    BY <1>1, <1>2, <1>3, <1>4, <1>5, <1>6, <1>7, <1>8, <1>9, <1>10, Steps

(* Nothing is issued and nothing answered at first.                          *)
LEMMA SessionInit == Init => SessionInv
  <1> SUFFICES ASSUME Init PROVE SessionInv
    OBVIOUS
  <1>1. ProcInv /\ IssuedTold
    BY DEF Init, ProcInv, IssuedTold
  <1>2. reply.route = None
    BY DEF Init, NoReply
  <1> QED
    BY <1>1, <1>2 DEF SessionInv, SessionUntilTold, PreflightGate

(* whoami answers exactly while one of the sessions presented was issued     *)
(* under the secret of this process and its told expiry is not past          *)
(* (sessionFromRequest, Signer.Verify), for any sessions, secrets, restarts. *)
THEOREM SessionUntilToldHolds == Spec => []SessionUntilTold
  BY SessionInit, SessionNext, PTL DEF Spec, SessionInv

(* A report without a red check is of a cluster that can run the agent, but  *)
(* for a version whose tag has digits (stripNonDigits) and for a provisioner *)
(* whose probe failed; a cluster that can and answers gets one (Runner.Run), *)
(* for any cluster, failing probes and deadline.                             *)
THEOREM PreflightGateHolds == Spec => []PreflightGate
  BY SessionInit, SessionNext, PTL DEF Spec, SessionInv

-----------------------------------------------------------------------------
(* Share links.                                                              *)

InFlight == [hash : Hashes, rel : Nat, stamp : Nat]
ShareRow == [body : Nat, found : Nat, created : Nat, expires : Nat]

ShareTypes ==
  /\ now \in Nat /\ rel \in Nat /\ mix \in Mixes
  /\ work \in [Clients -> InFlight \cup {Idle}]
  /\ shares \in [Hashes -> ShareRow \cup {None}]
  /\ told \in [Hashes -> InFlight \cup {None}]

(* An analysis in flight was made by the rules of this process.              *)
WorkOfProc ==
  \A c \in Clients : work[c] # Idle => proc = "up" /\ work[c].rel = rel /\ work[c].stamp <= now

(* The row of a share and the newest analysis answered for it.  A memory     *)
(* store has only rows of its own process.                                   *)
RowTold(h) ==
  /\ told[h] # None /\ told[h].rel <= rel /\ told[h].stamp <= now
  /\ shares[h] # None /\ shares[h].body = shares[h].found
  /\ shares[h].body <= told[h].rel /\ shares[h].created <= told[h].stamp
  /\ h \notin raced => shares[h].expires = told[h].stamp + ShareTTL
  /\ mix.store = "memory" => proc # "off" /\ told[h].rel = rel /\ shares[h].body = rel

ShareInv ==
  /\ ShareTypes /\ WorkOfProc
  /\ \A h \in Hashes : (told[h] = None /\ shares[h] = None) \/ RowTold(h)

(* A step that leaves the shares and the process alone keeps what is known.  *)
LEMMA SameShares ==
  ASSUME ShareInv, UNCHANGED <<shareVars, rel, mix, proc>>, now' \in Nat, now <= now'
  PROVE  ShareInv'
  <1>1. ShareTypes'
    BY DEF ShareInv, ShareTypes, shareVars
  <1>2. WorkOfProc'
    <2>1. \A c \in Clients : work[c] # Idle => work[c].stamp \in Nat
      BY DEF ShareInv, ShareTypes, InFlight
    <2> QED
      BY <2>1 DEF ShareInv, ShareTypes, WorkOfProc, shareVars
  <1>3. ASSUME NEW h \in Hashes, RowTold(h)
        PROVE  RowTold(h)'
    <2>1. told[h].stamp \in Nat
      BY <1>3 DEF ShareInv, ShareTypes, RowTold, InFlight
    <2> QED
      BY <1>3, <2>1 DEF ShareInv, ShareTypes, RowTold, shareVars
  <1>4. \A h \in Hashes : (told'[h] = None /\ shares'[h] = None) \/ RowTold(h)'
    BY <1>3 DEF ShareInv, shareVars
  <1> QED
    BY <1>1, <1>2, <1>4 DEF ShareInv

(* A new process has nothing in flight, and in memory no shares.             *)
LEMMA BootShares ==
  ASSUME ShareInv, NEW c, NEW n \in Releases, Boot(c, n)
  PROVE  ShareInv'
  <1>1. /\ proc = "off" /\ rel' = n /\ n \in Nat /\ rel <= n
        /\ UNCHANGED <<now, mix, work, shares, told, raced>>
    BY DEF Boot, shareVars, ShareInv, ShareTypes
  <1>2. ShareTypes'
    BY <1>1 DEF ShareInv, ShareTypes
  <1>3. WorkOfProc'
    BY <1>1 DEF ShareInv, WorkOfProc
  <1>4. ASSUME NEW h \in Hashes, RowTold(h)
        PROVE  RowTold(h)'
    <2>1. told[h].rel \in Nat
      BY <1>4 DEF ShareInv, ShareTypes, RowTold, InFlight
    <2> QED
      BY <1>1, <1>4, <2>1 DEF ShareInv, ShareTypes, RowTold
  <1> QED
    BY <1>1, <1>2, <1>3, <1>4 DEF ShareInv

(* A process that stops takes what it held in memory with it.                *)
LEMMA StopShares ==
  ASSUME ShareInv, Stop
  PROVE  ShareInv'
  <1>1. /\ UNCHANGED <<now, rel, mix>> /\ proc' = "off"
        /\ work' = [c \in Clients |-> Idle]
    BY DEF Stop
  <1>2. CASE mix.store = "pg"
    <2>1. UNCHANGED <<shares, told, raced>>
      BY <1>2 DEF Stop
    <2>2. ShareTypes' /\ WorkOfProc'
      BY <1>1, <2>1 DEF ShareInv, ShareTypes, WorkOfProc
    <2>3. \A h \in Hashes : RowTold(h) => RowTold(h)'
      BY <1>1, <1>2, <2>1 DEF RowTold
    <2> QED
      BY <2>1, <2>2, <2>3 DEF ShareInv
  <1>3. CASE mix.store # "pg"
    <2>1. shares' = [h \in Hashes |-> None] /\ told' = [h \in Hashes |-> None]
      BY <1>3 DEF Stop
    <2>2. ShareTypes' /\ WorkOfProc'
      BY <1>1, <2>1 DEF ShareInv, ShareTypes, WorkOfProc
    <2> QED
      BY <2>1, <2>2 DEF ShareInv
  <1> QED
    BY <1>2, <1>3

(* A new analysis is stamped with the clock and made by these rules.         *)
LEMMA AnalyzeShares ==
  ASSUME ShareInv, NEW c \in Clients, NEW b \in Bodies, Analyze(c, b)
  PROVE  ShareInv'
  <1> DEFINE w == [hash |-> Hash[b], rel |-> rel, stamp |-> now]
  <1>1. UNCHANGED <<shares, told, raced, rel, mix, proc, now>> /\ proc = "up"
    BY DEF Analyze, Request, procVars
  <1>2. CASE work' = work
    BY <1>1, <1>2, SameShares DEF ShareInv, ShareTypes, shareVars
  <1>3. CASE work' = [work EXCEPT ![c] = w]
    <2>1. w \in InFlight /\ w.rel = rel /\ w.stamp = now
      BY DEF ShareInv, ShareTypes, InFlight, Hashes
    <2> HIDE DEF w
    <2>2. ShareTypes'
      BY <1>1, <1>3, <2>1 DEF ShareInv, ShareTypes
    <2>3. WorkOfProc'
      BY <1>1, <1>3, <2>1 DEF ShareInv, ShareTypes, WorkOfProc
    <2>4. \A h \in Hashes : RowTold(h) => RowTold(h)'
      BY <1>1 DEF RowTold
    <2> QED
      BY <1>1, <2>2, <2>3, <2>4 DEF ShareInv
  <1> QED
    BY <1>2, <1>3 DEF Analyze

(* What Put leaves under the hash: the row of this analysis or, in Postgres, *)
(* the row that was there with the expiry of this analysis.                  *)
LEMMA RowIs ==
  ASSUME NEW w \in InFlight
  PROVE  /\ Row(w) \in ShareRow /\ Row(w) # None
         /\ Row(w).body = w.rel /\ Row(w).found = w.rel
         /\ Row(w).created = w.stamp /\ Row(w).expires = w.stamp + ShareTTL
  BY DEF Row, ShareRow, InFlight

(* What storing an analysis again makes of its row.                          *)
LEMMA RenewedIs ==
  ASSUME NEW w \in InFlight, NEW r \in ShareRow
  PROVE  LET x == [r EXCEPT !.expires = Row(w).expires]
         IN  /\ x \in ShareRow /\ x # None
             /\ x.body = r.body /\ x.found = r.found /\ x.created = r.created
             /\ x.expires = w.stamp + ShareTTL
  <1>1. Row(w).expires = w.stamp + ShareTTL /\ Row(w).expires \in Nat
    BY RowIs DEF ShareRow
  <1>2. [r EXCEPT !.expires = Row(w).expires] \in ShareRow
    BY <1>1 DEF ShareRow
  <1> QED
    BY <1>1, <1>2 DEF ShareRow

(* The analysis is stored, or Postgres failed and only the answer is given.  *)
LEMMA StoreShares ==
  ASSUME ShareInv, NEW c \in Clients, Store(c)
  PROVE  ShareInv'
  <1>0. PICK w, h : w = work[c] /\ h = w.hash
    OBVIOUS
  <1> DEFINE late == told[h] # None /\ w.stamp < told[h].stamp
             put == IF mix.store = "pg" THEN PgPut(shares, w) ELSE MemPut(shares, w)
  <1>1. /\ UNCHANGED <<rel, mix, proc, now>> /\ proc = "up" /\ w # Idle
        /\ work' = [work EXCEPT ![c] = Idle]
    BY <1>0 DEF Store, procVars
  <1>2. /\ w \in InFlight /\ h \in Hashes /\ w.rel = rel /\ w.stamp \in Nat /\ w.stamp <= now
        /\ rel \in Nat /\ now \in Nat /\ w # None
    BY <1>0, <1>1 DEF ShareInv, ShareTypes, WorkOfProc, InFlight
  <1>3. WorkOfProc' /\ work' \in [Clients -> InFlight \cup {Idle}]
    BY <1>1 DEF ShareInv, ShareTypes, WorkOfProc
  <1>4. CASE UNCHANGED <<shares, told, raced>>
    <2>1. ShareTypes'
      BY <1>1, <1>3, <1>4 DEF ShareInv, ShareTypes
    <2>2. \A k \in Hashes : RowTold(k) => RowTold(k)'
      BY <1>1, <1>4 DEF RowTold
    <2> QED
      BY <1>3, <1>4, <2>1, <2>2 DEF ShareInv
  <1>5. CASE /\ shares' = put
             /\ told' = IF late THEN told ELSE [told EXCEPT ![h] = w]
             /\ raced' = IF late THEN raced \cup {h} ELSE raced \ {h}
    <2>1. \/ shares' = [shares EXCEPT ![h] = Row(w)] /\ (mix.store # "pg" \/ shares[h] = None)
          \/ /\ shares' = [shares EXCEPT ![h] = [shares[h] EXCEPT !.expires = Row(w).expires]]
             /\ mix.store = "pg" /\ shares[h] # None
      BY <1>0, <1>2, <1>5 DEF PgPut, MemPut, ShareInv, ShareTypes
    <2>2. shares[h] # None => shares[h] \in ShareRow
      BY <1>2 DEF ShareInv, ShareTypes
    <2>3. PICK x \in ShareRow :
            /\ shares' = [shares EXCEPT ![h] = x] /\ x # None /\ x.expires = w.stamp + ShareTTL
            /\ \/ /\ x.body = w.rel /\ x.found = w.rel /\ x.created = w.stamp
                  /\ mix.store # "pg" \/ shares[h] = None
               \/ /\ x.body = shares[h].body /\ x.found = shares[h].found
                  /\ x.created = shares[h].created /\ mix.store = "pg" /\ shares[h] # None
      <3>1. CASE shares' = [shares EXCEPT ![h] = Row(w)] /\ (mix.store # "pg" \/ shares[h] = None)
        BY <1>2, <3>1, RowIs
      <3>2. CASE /\ shares' = [shares EXCEPT ![h] = [shares[h] EXCEPT !.expires = Row(w).expires]]
                 /\ mix.store = "pg" /\ shares[h] # None
        <4> DEFINE y == [shares[h] EXCEPT !.expires = Row(w).expires]
        <4>1. /\ y \in ShareRow /\ y # None
              /\ y.body = shares[h].body /\ y.found = shares[h].found
              /\ y.created = shares[h].created /\ y.expires = w.stamp + ShareTTL
          BY <1>2, <2>2, <3>2, RenewedIs
        <4> HIDE DEF y
        <4> QED
          BY <3>2, <4>1 DEF y
      <3> QED
        BY <2>1, <3>1, <3>2
    <2>4. ShareTypes'
      BY <1>1, <1>2, <1>3, <1>5, <2>3 DEF ShareInv, ShareTypes
    <2>5. ASSUME NEW k \in Hashes, k # h
          PROVE  (told'[k] = None /\ shares'[k] = None) \/ RowTold(k)'
      <3>1. told'[k] = told[k] /\ shares'[k] = shares[k] /\ (k \in raced' <=> k \in raced)
        BY <1>5, <2>3, <2>5 DEF ShareInv, ShareTypes
      <3> QED
        BY <1>1, <3>1 DEF ShareInv, RowTold
    <2>6. RowTold(h)'
      <3>1. shares'[h] = x /\ (h \in raced' <=> late) /\ told'[h] = IF late THEN told[h] ELSE w
        BY <1>2, <1>5, <2>3 DEF ShareInv, ShareTypes
      <3>2. CASE told[h] = None
        <4>1. shares[h] = None /\ ~late
          BY <1>2, <3>2 DEF ShareInv, RowTold
        <4> QED
          BY <1>1, <1>2, <2>3, <3>1, <4>1 DEF RowTold
      <3>3. CASE told[h] # None
        <4>1. RowTold(h) /\ told[h] \in InFlight /\ shares[h] \in ShareRow
          BY <1>2, <2>2, <3>3 DEF ShareInv, ShareTypes, RowTold
        <4>2. /\ told[h].stamp \in Nat /\ told[h].rel \in Nat
              /\ shares[h].body \in Nat /\ shares[h].created \in Nat
          BY <4>1 DEF InFlight, ShareRow
        <4>3. mix.store # "pg" => mix.store = "memory"
          BY DEF ShareInv, ShareTypes
        <4>4. CASE late
          <5>1. told'[h] = told[h] /\ h \in raced' /\ w.stamp < told[h].stamp
            BY <3>1, <4>4
          <5> HIDE DEF late
          <5> QED
            BY <1>1, <1>2, <2>3, <3>1, <3>3, <4>1, <4>2, <4>3, <5>1 DEF RowTold
        <4>5. CASE ~late
          <5>1. told'[h] = w /\ told[h].stamp <= w.stamp
            BY <1>2, <3>1, <3>3, <4>2, <4>5
          <5> HIDE DEF late
          <5> QED
            BY <1>1, <1>2, <2>3, <3>1, <4>1, <4>2, <4>3, <5>1 DEF RowTold
        <4> QED
          BY <4>4, <4>5
      <3> QED
        BY <3>2, <3>3
    <2> QED
      BY <1>3, <2>4, <2>5, <2>6 DEF ShareInv
  <1> QED
    BY <1>0, <1>4, <1>5 DEF Store

(* No step loses a share before its time.                                    *)
LEMMA ShareNext == ShareInv /\ [Next]_vars => ShareInv'
  <1> SUFFICES ASSUME ShareInv, [Next]_vars PROVE ShareInv'
    OBVIOUS
  <1>1. CASE UNCHANGED <<shareVars, rel, mix, proc>> /\ (now' = now \/ now' = now + 1)
    BY <1>1, SameShares DEF ShareInv, ShareTypes
  <1>2. (UNCHANGED vars \/ Tick \/ Reading) =>
          UNCHANGED <<shareVars, rel, mix, proc>> /\ (now' = now \/ now' = now + 1)
    BY DEF vars, Tick, Reading, shareVars, procVars
  <1>3. Issuing => UNCHANGED <<shareVars, rel, mix, proc>> /\ now' = now
    BY DEF Issuing, Issue, Request, procVars
  <1>4. Ingesting => UNCHANGED <<shareVars, rel, mix, proc>> /\ now' = now
    BY DEF Ingesting, IngestRequest, Request, procVars
  <1>5. Delivering => UNCHANGED <<shareVars, rel, mix, proc>> /\ now' = now
    BY DEF Delivering, Webhook, Request, procVars
  <1>6. CASE Booting
    BY <1>6, BootShares DEF Booting
  <1>7. CASE Stop
    BY <1>7, StopShares
  <1>8. CASE Analyzing
    BY <1>8, AnalyzeShares DEF Analyzing
  <1>9. CASE Storing
    BY <1>9, StoreShares DEF Storing
  <1> QED
    BY <1>1, <1>2, <1>3, <1>4, <1>5, <1>6, <1>7, <1>8, <1>9, Steps

(* At first nothing is shared.                                               *)
LEMMA ShareInit == Init => ShareInv
  <1> SUFFICES ASSUME Init PROVE ShareInv
    OBVIOUS
  <1>1. ShareTypes /\ WorkOfProc
    BY DEF Init, ShareTypes, WorkOfProc
  <1> QED
    BY <1>1 DEF Init, ShareInv

(* A share is answered 200 from the analysis to ShareTTL after the newest    *)
(* one, and 410 from then on (Store.Put, Store.Get), for any uploads,        *)
(* analyses in flight and restarts, unless an older analysis was stored last.*)
THEOREM ShareKeptHolds == Spec => []ShareKept
  <1>1. ShareInv => ShareKept
    <2> SUFFICES ASSUME ShareInv, NEW h \in Hashes, told[h] # None, h \notin raced
                 PROVE  Get(shares, h, now) = IF now <= told[h].stamp + ShareTTL THEN 200 ELSE 410
      BY DEF ShareKept
    <2>1. RowTold(h) /\ now \in Nat /\ told[h].stamp \in Nat
      BY DEF ShareInv, ShareTypes, InFlight
    <2> QED
      BY <2>1 DEF RowTold, Get
  <1> QED
    BY <1>1, ShareInit, ShareNext, PTL DEF Spec

(* The JSON form and the page of a share tell of one analysis, made by the   *)
(* rules of the newest answer or, in Postgres, by earlier ones (PgStore.Put).*)
THEOREM PageToldHolds == Spec => []PageTold
  <1>1. ShareInv => PageTold
    BY DEF ShareInv, RowTold, PageTold
  <1> QED
    BY <1>1, ShareInit, ShareNext, PTL DEF Spec
================================================================================
