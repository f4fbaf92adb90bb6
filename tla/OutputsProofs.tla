---------------------------- MODULE OutputsProofs ----------------------------
(***************************************************************************)
(* Any number of management requests, deliveries and attempts, and every    *)
(* set of types.                                                            *)
(***************************************************************************)
EXTENDS Outputs, SequenceTheorems, TLAPS

Taken == {"success", "success_unverified"}

\* What a request holds refers to a secret that is there.
RequestSound(q, n) ==
    /\ q.secret <= n
    /\ q.step \in {"link", "new_link", "rotate"} => q.secret >= 1

\* A delivery whose message was taken, or that has a result, goes no further; each
\* attempt before the one it is about to make may have arrived.
JobSound(j, n) ==
    /\ j.step \in {"new", "resolve"} => n = 0
    /\ j.step = "attempt" => j.attempt >= 1 /\ n < j.attempt
    /\ j.last \in Taken => j.step = "done"
    /\ j.result # "none" => j.step = "done"
    /\ j.result = "delivered" => n > 0

RowsSound == \A d \in row : d.secret <= Len(secrets)
RequestsSound == \A r \in Requests : RequestSound(requests[r], Len(secrets))
JobsSound ==
    \A o \in Occurrences : jobs[o].secret <= Len(secrets) /\ JobSound(jobs[o], received[o])

Creating == {"create", "created"}

\* One request creates, and without a secret to come it promises none.
CreationSound ==
    /\ \A p, r \in Requests :
           requests[p].step \in Creating /\ requests[r].step \in Creating => p = r
    /\ \A r \in Requests :
           requests[r].step = "created" /\ requests[r].values = {} => promise # "made"

OutputsInv ==
    /\ OutputsTypeOK
    /\ CreationSound
    /\ RowsSound
    /\ RequestsSound
    /\ JobsSound
    /\ CreatedWhole

-----------------------------------------------------------------------------
(* Records.                                                                *)

LEMMA NewFacts ==
    /\ AnyType \in Types
    /\ NoSettings \in Settings
    /\ NoFacts \in Facts
    /\ NewRequest \in Request
    /\ NewJob \in Job
    /\ MaxAttempts \in Nat /\ MaxAttempts >= 1
<1>1. AnyType \in Types
  BY OutputsAssumption DEF AnyType
<1>2. NoSettings \in Settings
  BY DEF NoSettings, Settings
<1>3. NoFacts \in Facts
  BY DEF NoFacts, Facts
<1>4. MaxAttempts \in Nat /\ MaxAttempts >= 1
  BY OutputsAssumption
<1> HIDE DEF AnyType
<1>5. NewRequest \in Request
  BY <1>1, <1>2 DEF NewRequest, Request, Values
<1>6. NewJob \in Job
  BY <1>1, <1>2, <1>3, <1>4 DEF NewJob, Job, Values
<1> QED BY <1>1, <1>2, <1>3, <1>4, <1>5, <1>6

LEMMA DoneFacts ==
    /\ [NewRequest EXCEPT !.step = "done"] \in Request
    /\ [NewRequest EXCEPT !.step = "done"].step = "done"
    /\ [NewRequest EXCEPT !.step = "done"].secret = 0
    /\ [NewJob EXCEPT !.step = "done"] \in Job
    /\ [NewJob EXCEPT !.step = "done"].step = "done"
    /\ [NewJob EXCEPT !.step = "done"].secret = 0
    /\ [NewJob EXCEPT !.step = "done"].last = "none"
    /\ [NewJob EXCEPT !.step = "done"].result = "none"
BY NewFacts DEF NewRequest, NewJob, Request, Job

\* A request goes on with another record.
PutRequest(r, q) == requests' = [requests EXCEPT ![r] = q]

LEMMA PutFacts ==
    ASSUME OutputsTypeOK, NEW r \in Requests, NEW q \in Request, PutRequest(r, q)
    PROVE  /\ requests' \in [Requests -> Request]
           /\ requests'[r] = q
           /\ \A p \in Requests : p # r => requests'[p] = requests[p]
BY DEF PutRequest, OutputsTypeOK

LEMMA ToFacts ==
    ASSUME OutputsTypeOK, NEW r \in Requests, NEW step, To(r, step),
           step \in {"new", "create", "created", "secret", "link", "undo", "metadata",
                     "rotate", "new_secret", "new_link", "update", "done"}
    PROVE  \E q \in Request : /\ PutRequest(r, q) /\ q.step = step
                               /\ q.secret = requests[r].secret
                               /\ q.values = requests[r].values
<1> DEFINE q == [requests[r] EXCEPT !.step = step]
<1>1. requests[r] \in Request
  BY DEF OutputsTypeOK
<1>2. /\ q \in Request /\ q.step = step
      /\ q.secret = requests[r].secret /\ q.values = requests[r].values
  BY <1>1 DEF Request
<1>3. PutRequest(r, q)
  BY DEF To, PutRequest
<1> QED BY <1>2, <1>3

LEMMA EndFacts ==
    ASSUME NEW r \in Requests, End(r)
    PROVE  \E q \in Request : PutRequest(r, q) /\ q.step = "done" /\ q.secret = 0
BY DoneFacts DEF End, PutRequest

LEMMA StoreFacts ==
    ASSUME OutputsTypeOK, NEW r \in Requests, NEW next \in {"link", "new_link"},
           StoreSecret(r, next)
    PROVE  /\ secrets' \in Seq(Values)
           /\ Len(secrets') = Len(secrets) + 1
           /\ Len(secrets) \in Nat
           /\ \E q \in Request : PutRequest(r, q) /\ q.step = next /\ q.secret = Len(secrets')
<1> DEFINE one == [requests[r] EXCEPT !.step = next]
           q == [one EXCEPT !.secret = Len(secrets) + 1]
<1>1. requests[r] \in Request /\ requests[r].values \in Values
  BY DEF OutputsTypeOK, Request
<1>2. secrets \in Seq(Values) /\ Len(secrets) \in Nat
  BY DEF OutputsTypeOK
<1>3. secrets' = Append(secrets, requests[r].values)
  BY DEF StoreSecret
<1>4. secrets' \in Seq(Values) /\ Len(secrets') = Len(secrets) + 1
  BY <1>1, <1>2, <1>3, AppendProperties
<1>5. one \in Request /\ one.step = next
  BY <1>1 DEF Request
<1>6. PutRequest(r, q)
  BY DEF StoreSecret, PutRequest
<1> HIDE DEF one
<1>7. q \in Request /\ q.step = next /\ q.secret = Len(secrets) + 1
  BY <1>2, <1>5 DEF Request
<1> HIDE DEF q
<1> QED BY <1>2, <1>4, <1>6, <1>7

-----------------------------------------------------------------------------
(* The management requests.                                                *)

Pending == {"created", "secret", "link", "undo"}

Promises == {"none", "made", "broken"}

\* A request that fails leaves no promise standing.
LEMMA BreakFacts ==
    ASSUME OutputsTypeOK, Breaks
    PROVE  promise' \in Promises /\ promise' # "made"
BY DEF OutputsTypeOK, Breaks, Promises

\* A request that leaves the deliveries and the routes alone.
LEMMA ManageKeeps ==
    ASSUME OutputsInv, NEW r \in Requests, NEW q \in Request, PutRequest(r, q),
           secrets' \in Seq(Values), Len(secrets) <= Len(secrets'),
           RequestSound(q, Len(secrets')),
           row' \subseteq Row, \A d, e \in row' : d = e,
           \A d \in row' : d.secret <= Len(secrets'),
           UNCHANGED <<jobs, received, routed, restarts>>, promise' \in Promises,
           promise' = "made" => promise = "made" \/ requests[r].step \in Creating,
           q.step \in Creating =>
               \/ requests[r].step \in Creating /\ (q.values = {} => promise' # "made")
               \/ q.step = "create" /\ \A p \in Requests : requests[p].step \notin Creating,
           \A d \in row' : promise' = "made" /\ d.secret = 0 =>
               \/ q.step \in Pending
               \/ /\ requests[r].step \notin Pending /\ promise = "made"
                  /\ \E e \in row : e.secret = 0
    PROVE  OutputsInv'
<1>1. OutputsTypeOK /\ RequestsSound /\ JobsSound /\ CreatedWhole
  BY DEF OutputsInv
<1>2. /\ requests' \in [Requests -> Request] /\ requests'[r] = q
      /\ \A p \in Requests : p # r => requests'[p] = requests[p]
  BY <1>1, PutFacts
<1>3. Len(secrets) \in Nat /\ Len(secrets') \in Nat
  BY <1>1 DEF OutputsTypeOK
<1>4. OutputsTypeOK'
  BY <1>1, <1>2 DEF OutputsTypeOK, Promises
<1>5. RequestsSound'
  <2> SUFFICES ASSUME NEW p \in Requests PROVE RequestSound(requests'[p], Len(secrets'))
    BY DEF RequestsSound
  <2>1. CASE p = r
    BY <1>2, <2>1
  <2>2. CASE p # r
    <3>1. requests'[p] = requests[p] /\ requests[p].secret \in Nat
      BY <1>1, <1>2, <2>2 DEF OutputsTypeOK, Request
    <3> QED BY <1>1, <1>3, <3>1 DEF RequestsSound, RequestSound
  <2> QED BY <2>1, <2>2
<1>6. JobsSound'
  <2> SUFFICES ASSUME NEW o \in Occurrences
               PROVE  jobs[o].secret <= Len(secrets') /\ JobSound(jobs[o], received[o])
    BY DEF JobsSound
  <2>1. jobs[o].secret \in Nat
    BY <1>1 DEF OutputsTypeOK, Job
  <2> QED BY <1>1, <1>3, <2>1 DEF JobsSound
<1>7. CreatedWhole'
  <2> SUFFICES ASSUME NEW d \in row', promise' = "made", d.secret = 0, ~(restarts' > 0)
               PROVE  \E p \in Requests : requests'[p].step \in Pending
    BY DEF CreatedWhole, Pending, Promises
  <2>1. CASE q.step \in Pending
    BY <1>2, <2>1
  <2>2. CASE /\ requests[r].step \notin Pending /\ promise = "made"
             /\ \E e \in row : e.secret = 0
    <3>1. PICK e \in row : e.secret = 0
      BY <2>2
    <3>2. PICK p \in Requests : requests[p].step \in Pending
      BY <1>1, <2>2, <3>1 DEF CreatedWhole, Pending
    <3>3. p # r
      BY <2>2, <3>2
    <3> QED BY <1>2, <3>2, <3>3
  <2> QED BY <2>1, <2>2
<1>8. CreationSound'
  <2> USE DEF Creating
  <2>1. CreationSound
    BY DEF OutputsInv
  <2>2. ASSUME NEW p \in Requests, NEW x \in Requests,
               requests'[p].step \in Creating, requests'[x].step \in Creating
        PROVE  p = x
    BY <1>2, <2>1, <2>2 DEF CreationSound
  <2>3. ASSUME NEW p \in Requests, requests'[p].step = "created", requests'[p].values = {}
        PROVE  promise' # "made"
    BY <1>2, <2>1, <2>3 DEF CreationSound
  <2> QED BY <2>2, <2>3 DEF CreationSound
<1> QED BY <1>4, <1>5, <1>6, <1>7, <1>8 DEF OutputsInv, RowsSound

\* ... nor the row and the secrets.
LEMMA RequestKeeps ==
    ASSUME OutputsInv, NEW r \in Requests, NEW q \in Request, PutRequest(r, q),
           RequestSound(q, Len(secrets)),
           UNCHANGED <<row, secrets, jobs, received, routed, restarts, promise>>,
           requests[r].step \in Pending => q.step \in Pending \/ row = {},
           q.step \in Creating =>
               q.step = "create" /\ \A p \in Requests : requests[p].step \notin Creating
    PROVE  OutputsInv'
<1>1. OutputsTypeOK /\ RowsSound
  BY DEF OutputsInv
<1>2. Len(secrets) \in Nat
  BY <1>1 DEF OutputsTypeOK
<1> QED BY <1>1, <1>2, ManageKeeps DEF OutputsTypeOK, RowsSound, Promises

LEMMA Stuttering ==
    ASSUME OutputsInv, UNCHANGED vars PROVE OutputsInv'
BY DEF OutputsInv, OutputsTypeOK, RowsSound, RequestsSound, JobsSound,
       CreationSound, CreatedWhole, vars

LEMMA BeginCreateStep ==
    ASSUME OutputsInv, NEW r \in Requests, NEW type \in Types,
           NEW settings \in SettingsOf(type), NEW values \in Entered(type),
           BeginCreate(r, type, settings, values)
    PROVE  OutputsInv'
<1> DEFINE q == [step |-> "create", type |-> type, settings |-> settings, enabled |-> TRUE,
                 values |-> values, secret |-> 0]
<1>1. settings \in Settings /\ values \in Values
  BY DEF SettingsOf, Entered, Value, Values
<1>2. q \in Request /\ q.step = "create" /\ q.secret = 0
  BY <1>1 DEF Request
<1>3. PutRequest(r, q) /\ At(r, "new")
  BY DEF BeginCreate, PutRequest
<1>4. UNCHANGED <<row, secrets, jobs, received, routed, restarts, promise>>
  BY DEF BeginCreate
<1>5. Len(secrets) \in Nat
  BY DEF OutputsInv, OutputsTypeOK
<1>6. \A p \in Requests : requests[p].step \notin Creating
  BY DEF BeginCreate, At, Creating
<1> HIDE DEF q
<1> QED BY <1>2, <1>3, <1>4, <1>5, <1>6, RequestKeeps DEF RequestSound, At, Pending

LEMMA BeginPatchStep ==
    ASSUME OutputsInv, NEW r \in Requests, NEW type \in Types,
           NEW settings \in SettingsOf(type), NEW enabled \in BOOLEAN,
           NEW values \in Entered(type), BeginPatch(r, type, settings, enabled, values)
    PROVE  OutputsInv'
<1> DEFINE q == [step |-> IF values = {} THEN "update" ELSE "metadata",
                 type |-> type, settings |-> settings, enabled |-> enabled,
                 values |-> values, secret |-> 0]
<1>1. settings \in Settings /\ values \in Values
  BY DEF SettingsOf, Entered, Value, Values
<1>2. q \in Request /\ q.step \in {"update", "metadata"} /\ q.secret = 0
  BY <1>1 DEF Request
<1>3. PutRequest(r, q) /\ At(r, "new")
  BY DEF BeginPatch, PutRequest
<1>4. UNCHANGED <<row, secrets, jobs, received, routed, restarts, promise>>
  BY DEF BeginPatch
<1>5. Len(secrets) \in Nat
  BY DEF OutputsInv, OutputsTypeOK
<1> HIDE DEF q
<1> QED BY <1>2, <1>3, <1>4, <1>5, RequestKeeps DEF RequestSound, At, Pending, Creating

LEMMA RequestFacts ==
    ASSUME OutputsInv, NEW r \in Requests
    PROVE  /\ OutputsTypeOK
           /\ requests[r] \in Request
           /\ requests[r].type \in Types /\ requests[r].settings \in Settings
           /\ requests[r].enabled \in BOOLEAN /\ requests[r].values \in Values
           /\ requests[r].secret \in Nat /\ requests[r].secret <= Len(secrets)
           /\ requests[r].step \in {"link", "new_link", "rotate"} => requests[r].secret >= 1
           /\ secrets \in Seq(Values) /\ Len(secrets) \in Nat
           /\ row \subseteq Row /\ \A d, e \in row : d = e
           /\ \A d \in row : d.secret \in Nat /\ d.secret <= Len(secrets)
           /\ promise \in Promises
BY DEF OutputsInv, OutputsTypeOK, Request, Row, RequestsSound, RequestSound, RowsSound, Promises

LEMMA CreateStep ==
    ASSUME OutputsInv, NEW r \in Requests, Create(r)
    PROVE  OutputsInv'
<1> DEFINE d == [type |-> requests[r].type, settings |-> requests[r].settings,
                 enabled |-> requests[r].enabled, secret |-> 0]
<1>1. d \in Row /\ d.secret = 0
  BY RequestFacts DEF Row
<1>2. /\ row' = {d} /\ To(r, "created")
      /\ promise' = IF requests[r].values = {} THEN "none" ELSE "made"
      /\ UNCHANGED <<secrets, jobs, received, routed, restarts>>
  BY DEF Create
<1> HIDE DEF d
<1>3. PICK q \in Request : /\ PutRequest(r, q) /\ q.step = "created"
                           /\ q.secret <= Len(secrets) /\ q.values = requests[r].values
  BY <1>2, ToFacts, RequestFacts
<1>4. RequestSound(q, Len(secrets)) /\ q.step \in Pending
  BY <1>3 DEF RequestSound, Pending
<1>5. requests[r].step \in Creating
  BY DEF Create, At, Creating
<1> QED BY <1>1, <1>2, <1>3, <1>4, <1>5, RequestFacts, ManageKeeps DEF Promises

\* ... or the creation is over without a promise.
LEMMA CreateReturnsStep ==
    ASSUME OutputsInv, NEW r \in Requests, CreateReturns(r)
    PROVE  OutputsInv'
<1>1. UNCHANGED <<row, secrets, jobs, received, routed, restarts, promise>>
  BY DEF CreateReturns
<1>0. requests[r].values = {} => promise # "made"
  BY DEF CreateReturns, At, OutputsInv, CreationSound
<1>2. CASE requests[r].values = {}
  <2>1. End(r)
    BY <1>2 DEF CreateReturns
  <2>2. PICK q \in Request : PutRequest(r, q) /\ q.step = "done" /\ q.secret = 0
    BY <2>1, EndFacts
  <2>3. RequestSound(q, Len(secrets))
    BY <2>2, RequestFacts DEF RequestSound
  <2> QED BY <1>0, <1>1, <1>2, <2>2, <2>3, RequestFacts, ManageKeeps DEF Creating
<1>3. CASE requests[r].values # {}
  <2>1. To(r, "secret")
    BY <1>3 DEF CreateReturns
  <2>2. PICK q \in Request : PutRequest(r, q) /\ q.step = "secret" /\ q.secret <= Len(secrets)
    BY <2>1, ToFacts, RequestFacts
  <2>3. RequestSound(q, Len(secrets)) /\ q.step \in Pending
    BY <2>2 DEF RequestSound, Pending
  <2> QED BY <1>1, <2>2, <2>3, RequestKeeps DEF Creating
<1> QED BY <1>2, <1>3

\* A request that fails where nothing takes its row back.
LEMMA BrokenStep ==
    ASSUME OutputsInv, NEW r \in Requests, Breaks, End(r),
           UNCHANGED <<row, secrets, jobs, received, routed, restarts>>
    PROVE  OutputsInv'
<1>1. PICK q \in Request : PutRequest(r, q) /\ q.step = "done" /\ q.secret = 0
  BY EndFacts
<1>2. RequestSound(q, Len(secrets)) /\ q.step \notin Creating
  BY <1>1, RequestFacts DEF RequestSound, Creating
<1>3. promise' \in Promises /\ promise' # "made"
  BY BreakFacts DEF OutputsInv
<1> QED BY <1>1, <1>2, <1>3, RequestFacts, ManageKeeps

\* A secret is stored; whose it will be is settled later.
LEMMA StoreStep ==
    ASSUME OutputsInv, NEW r \in Requests, NEW next \in {"link", "new_link"},
           StoreSecret(r, next), requests[r].step \in Pending => next = "link",
           UNCHANGED <<row, routed, jobs, received, promise, restarts>>
    PROVE  OutputsInv'
<1>1. PICK q \in Request : /\ PutRequest(r, q) /\ q.step = next
                           /\ q.secret = Len(secrets')
  BY RequestFacts, StoreFacts
<1>2. /\ secrets' \in Seq(Values) /\ Len(secrets') = Len(secrets) + 1
      /\ Len(secrets) \in Nat /\ Len(secrets') \in Nat
  BY RequestFacts, StoreFacts
<1>3. RequestSound(q, Len(secrets'))
  BY <1>1, <1>2 DEF RequestSound
<1>4. \A d \in row' : d.secret <= Len(secrets')
  BY <1>2, RequestFacts
<1>5. (requests[r].step \in Pending => q.step \in Pending) /\ q.step \notin Creating
  BY <1>1 DEF Pending, Creating
<1> QED BY <1>1, <1>2, <1>3, <1>4, <1>5, RequestFacts, ManageKeeps

LEMMA LinkedRows ==
    ASSUME OutputsInv, NEW s \in Nat, s >= 1, s <= Len(secrets), SetSecret(s)
    PROVE  /\ row' \subseteq Row
           /\ \A d, e \in row' : d = e
           /\ \A d \in row' : d.secret = s
           /\ row = {} => row' = {}
<1>1. \A d \in row : [d EXCEPT !.secret = s] \in Row /\ [d EXCEPT !.secret = s].secret = s
  BY DEF OutputsInv, OutputsTypeOK, Row
<1>2. row' = {[d EXCEPT !.secret = s] : d \in row} /\ \A d, e \in row : d = e
  BY DEF SetSecret, OutputsInv, OutputsTypeOK
<1> QED BY <1>1, <1>2

\* The row has a secret from here on, or it is gone.
LEMMA LinkStep ==
    ASSUME OutputsInv, NEW r \in Requests, Link(r) \/ NewLink(r)
    PROVE  OutputsInv'
<1>1. /\ requests[r].step \in {"link", "new_link"}
      /\ SetSecret(requests[r].secret)
      /\ To(r, "undo") \/ To(r, "update") \/ End(r)
      /\ UNCHANGED <<secrets, routed, jobs, received, promise, restarts>>
  BY DEF Link, NewLink, At
<1>2. PICK q \in Request : /\ PutRequest(r, q) /\ q.secret <= Len(secrets)
                           /\ q.step \in {"undo", "update", "done"}
  BY <1>1, ToFacts, EndFacts, RequestFacts
<1>3. RequestSound(q, Len(secrets)) /\ q.step \notin Creating
  BY <1>2 DEF RequestSound, Creating
<1>4. requests[r].secret \in Nat /\ requests[r].secret >= 1 /\ requests[r].secret <= Len(secrets)
  BY <1>1, RequestFacts
<1>5. /\ row' \subseteq Row /\ \A d, e \in row' : d = e
      /\ \A d \in row' : d.secret = requests[r].secret
  BY <1>1, <1>4, LinkedRows
<1>6. \A d \in row' : d.secret # 0 /\ d.secret <= Len(secrets)
  BY <1>4, <1>5
<1> QED BY <1>1, <1>2, <1>3, <1>5, <1>6, RequestFacts, ManageKeeps

LEMMA UndoStep ==
    ASSUME OutputsInv, NEW r \in Requests, Undo(r) \/ Delete(r)
    PROVE  OutputsInv'
<1>1. End(r) /\ UNCHANGED <<secrets, routed, jobs, received, restarts>>
  BY DEF Undo, Delete
<1>2. PICK q \in Request : PutRequest(r, q) /\ q.step = "done" /\ q.secret = 0
  BY <1>1, EndFacts
<1>3. RequestSound(q, Len(secrets)) /\ q.step \notin Creating
  BY <1>2, RequestFacts DEF RequestSound, Creating
<1>4. CASE DeleteRow /\ UNCHANGED promise
  <2>1. row' = {}
    BY <1>4 DEF DeleteRow
  <2> QED BY <1>1, <1>2, <1>3, <1>4, <2>1, RequestFacts, ManageKeeps
<1>5. CASE Breaks /\ UNCHANGED row
  BY <1>1, <1>5, BrokenStep
<1>6. CASE At(r, "new") /\ UNCHANGED <<row, promise>>
  BY <1>1, <1>2, <1>3, <1>6, RequestKeeps DEF At, Pending
<1> QED BY <1>4, <1>5, <1>6 DEF Undo, Delete

\* A request to change the row fails before a transaction, or after it.
LEMMA PatchFailsStep ==
    ASSUME OutputsInv, NEW r \in Requests, PatchFails(r)
    PROVE  OutputsInv'
<1>1. /\ End(r) /\ requests[r].step \notin Pending
      /\ UNCHANGED <<row, secrets, routed, jobs, received, promise, restarts>>
  BY DEF PatchFails, Pending
<1>2. PICK q \in Request : PutRequest(r, q) /\ q.step = "done" /\ q.secret = 0
  BY <1>1, EndFacts
<1>3. RequestSound(q, Len(secrets)) /\ q.step \notin Creating
  BY <1>2, RequestFacts DEF RequestSound, Creating
<1> QED BY <1>1, <1>2, <1>3, RequestKeeps

LEMMA MetadataStep ==
    ASSUME OutputsInv, NEW r \in Requests, Metadata(r)
    PROVE  OutputsInv'
<1>1. /\ At(r, "metadata")
      /\ UNCHANGED <<row, secrets, routed, jobs, received, promise, restarts>>
  BY DEF Metadata
<1>2. \E q \in Request : /\ PutRequest(r, q) /\ RequestSound(q, Len(secrets))
                           /\ q.step \notin Creating
  <2>1. CASE row = {}
    <3>1. End(r)
      BY <2>1 DEF Metadata
    <3>2. PICK q \in Request : PutRequest(r, q) /\ q.step = "done" /\ q.secret = 0
      BY <3>1, EndFacts
    <3> QED BY <3>2, RequestFacts DEF RequestSound, Creating
  <2>2. CASE row # {}
    <3>1. PICK d \in row :
              requests' = [requests EXCEPT ![r].secret = d.secret,
                              ![r].step = IF d.secret = 0 THEN "new_secret" ELSE "rotate"]
      BY <2>2 DEF Metadata
    <3> DEFINE step == IF d.secret = 0 THEN "new_secret" ELSE "rotate"
               one == [requests[r] EXCEPT !.secret = d.secret]
               q == [one EXCEPT !.step = step]
    <3>2. d.secret \in Nat /\ d.secret <= Len(secrets)
      BY RequestFacts
    <3>3. one \in Request /\ one.secret = d.secret
      BY <3>2, RequestFacts DEF Request
    <3>4. PutRequest(r, q)
      BY <3>1 DEF PutRequest
    <3> HIDE DEF one
    <3>5. q \in Request /\ q.secret = d.secret /\ q.step = step
      BY <3>3 DEF Request
    <3> HIDE DEF q
    <3>6. RequestSound(q, Len(secrets)) /\ q.step \notin Creating
      BY <3>2, <3>5 DEF RequestSound, Creating
    <3> QED BY <3>4, <3>5, <3>6
  <2> QED BY <2>1, <2>2
<1>3. requests[r].step \notin Pending
  BY <1>1 DEF At, Pending
<1> QED BY <1>1, <1>2, <1>3, RequestKeeps

LEMMA RotateStep ==
    ASSUME OutputsInv, NEW r \in Requests, Rotate(r)
    PROVE  OutputsInv'
<1>1. /\ At(r, "rotate") /\ To(r, "update")
      /\ secrets' = [secrets EXCEPT ![requests[r].secret] = requests[r].values]
      /\ UNCHANGED <<row, routed, jobs, received, promise, restarts>>
  BY DEF Rotate
<1>2. PICK q \in Request : PutRequest(r, q) /\ q.step = "update" /\ q.secret = requests[r].secret
  BY <1>1, ToFacts, RequestFacts
<1>3. secrets' \in Seq(Values) /\ Len(secrets') = Len(secrets)
  <2>1. requests[r].secret \in 1..Len(secrets) /\ requests[r].values \in Values
    BY <1>1, RequestFacts DEF At
  <2> QED BY <1>1, <2>1, RequestFacts, ExceptSeq
<1>4. RequestSound(q, Len(secrets')) /\ q.step \notin Creating
  BY <1>2, <1>3, RequestFacts DEF RequestSound, Creating
<1>5. requests[r].step \notin Pending
  BY <1>1 DEF At, Pending
<1> QED BY <1>1, <1>2, <1>3, <1>4, <1>5, RequestFacts, ManageKeeps

LEMMA UpdateStep ==
    ASSUME OutputsInv, NEW r \in Requests, Update(r)
    PROVE  OutputsInv'
<1> DEFINE Updated(d) == [d EXCEPT !.type = requests[r].type,
                                   !.settings = requests[r].settings,
                                   !.enabled = requests[r].enabled]
<1>1. /\ At(r, "update") /\ End(r)
      /\ row' = {Updated(d) : d \in row}
      /\ UNCHANGED <<secrets, routed, jobs, received, promise, restarts>>
  BY DEF Update
<1>2. PICK q \in Request : PutRequest(r, q) /\ q.step = "done" /\ q.secret = 0
  BY <1>1, EndFacts
<1>3. RequestSound(q, Len(secrets)) /\ q.step \notin Creating
  BY <1>2, RequestFacts DEF RequestSound, Creating
<1>4. requests[r].step \notin Pending
  BY <1>1 DEF At, Pending
<1>5. ASSUME NEW d \in row PROVE Updated(d) \in Row /\ Updated(d).secret = d.secret
  <2> DEFINE one == [d EXCEPT !.type = requests[r].type]
             two == [one EXCEPT !.settings = requests[r].settings]
  <2>1. d \in Row
    BY RequestFacts
  <2>2. one \in Row /\ one.secret = d.secret
    BY <2>1, RequestFacts DEF Row
  <2>3. Updated(d) = [two EXCEPT !.enabled = requests[r].enabled]
    OBVIOUS
  <2> HIDE DEF one
  <2>4. two \in Row /\ two.secret = d.secret
    BY <2>2, RequestFacts DEF Row
  <2> HIDE DEF two, Updated
  <2> QED BY <2>3, <2>4, RequestFacts DEF Row
<1> HIDE DEF Updated
<1>6. /\ row' \subseteq Row /\ \A d, e \in row' : d = e
      /\ \A d \in row' : d.secret <= Len(secrets) /\ \E e \in row : e.secret = d.secret
  BY <1>1, <1>5, RequestFacts
<1> QED BY <1>1, <1>2, <1>3, <1>4, <1>6, RequestFacts, ManageKeeps

LEMMA ManageStep ==
    ASSUME OutputsInv, NEW r \in Requests, Manage(r)
    PROVE  OutputsInv'
<1>1. CASE \E type \in Types : \E settings \in SettingsOf(type), values \in Entered(type) :
               BeginCreate(r, type, settings, values)
  BY <1>1, BeginCreateStep
<1>2. CASE \E type \in Types : \E settings \in SettingsOf(type), values \in Entered(type) :
               \E enabled \in BOOLEAN : BeginPatch(r, type, settings, enabled, values)
  BY <1>2, BeginPatchStep
<1>3. CASE CreateSecret(r) \/ NewSecret(r)
  <2>1. CASE CreateSecret(r)
    BY <2>1, StoreStep DEF CreateSecret
  <2>2. CASE NewSecret(r)
    BY <2>2, StoreStep DEF NewSecret, At, Pending
  <2> QED BY <1>3, <2>1, <2>2
<1>4. CASE SecretFails(r)
  <2>1. /\ To(r, "undo")
        /\ UNCHANGED <<row, secrets, routed, jobs, received, promise, restarts>>
    BY <1>4 DEF SecretFails
  <2>2. PICK q \in Request : PutRequest(r, q) /\ q.step = "undo" /\ q.secret = requests[r].secret
    BY <2>1, ToFacts, RequestFacts
  <2>3. RequestSound(q, Len(secrets)) /\ q.step \in Pending /\ q.step \notin Creating
    BY <2>2, RequestFacts DEF RequestSound, Pending, Creating
  <2> QED BY <2>1, <2>2, <2>3, RequestKeeps
<1>5. CASE Create(r) \/ CreateReturns(r) \/ Link(r) \/ NewLink(r) \/ Undo(r) \/ Delete(r)
  BY <1>5, CreateStep, CreateReturnsStep, LinkStep, UndoStep
<1>6. CASE Metadata(r) \/ Rotate(r) \/ Update(r) \/ PatchFails(r)
  BY <1>6, MetadataStep, RotateStep, UpdateStep, PatchFailsStep
<1>7. CASE CreateRaises(r)
  BY <1>7, BrokenStep DEF CreateRaises
<1> QED BY <1>1, <1>2, <1>3, <1>4, <1>5, <1>6, <1>7 DEF Manage

-----------------------------------------------------------------------------
(* The deliveries.                                                         *)

PutJob(o, j) == jobs' = [jobs EXCEPT ![o] = j]

LEMMA DeliverKeeps ==
    ASSUME OutputsInv, NEW o \in Occurrences, NEW j \in Job, PutJob(o, j),
           j.secret <= Len(secrets), JobSound(j, received'[o]),
           received'[o] \in 0..MaxAttempts,
           \/ received' = received
           \/ received' = [received EXCEPT ![o] = received'[o]],
           UNCHANGED <<row, secrets, routed, requests, promise, restarts>>
    PROVE  OutputsInv'
<1>1. OutputsTypeOK /\ JobsSound
  BY DEF OutputsInv
<1>2. /\ jobs' \in [Occurrences -> Job] /\ jobs'[o] = j
      /\ \A p \in Occurrences : p # o => jobs'[p] = jobs[p]
  BY <1>1 DEF PutJob, OutputsTypeOK
<1>3. /\ received' \in [Occurrences -> 0..MaxAttempts]
      /\ \A p \in Occurrences : p # o => received'[p] = received[p]
  BY <1>1 DEF OutputsTypeOK
<1>4. JobsSound'
  <2> SUFFICES ASSUME NEW p \in Occurrences
               PROVE  jobs'[p].secret <= Len(secrets) /\ JobSound(jobs'[p], received'[p])
    BY DEF JobsSound
  <2>1. CASE p = o
    BY <1>2, <2>1
  <2>2. CASE p # o
    BY <1>1, <1>2, <1>3, <2>2 DEF JobsSound
  <2> QED BY <2>1, <2>2
<1>5. OutputsTypeOK'
  BY <1>1, <1>2, <1>3 DEF OutputsTypeOK
<1> QED BY <1>4, <1>5 DEF OutputsInv, RowsSound, RequestsSound, CreationSound, CreatedWhole

LEMMA JobFacts ==
    ASSUME OutputsInv, NEW o \in Occurrences
    PROVE  /\ jobs[o] \in Job
           /\ jobs[o].secret \in Nat /\ jobs[o].secret <= Len(secrets)
           /\ jobs[o].attempt \in 0..MaxAttempts
           /\ jobs[o].last \in {"none"} \cup Answers
           /\ JobSound(jobs[o], received[o])
           /\ received[o] \in 0..MaxAttempts /\ received[o] \in Nat
           /\ secrets \in Seq(Values) /\ Len(secrets) \in Nat
BY OutputsAssumption DEF OutputsInv, OutputsTypeOK, JobsSound, Job

\* A delivery that comes to nothing.
LEMMA SettleStep ==
    ASSUME OutputsInv, NEW o \in Occurrences, Settle(o, "failed"),
           UNCHANGED <<row, secrets, routed, requests, received, promise, restarts>>
    PROVE  OutputsInv'
<1> DEFINE one == [NewJob EXCEPT !.step = "done"]
           two == [one EXCEPT !.result = "failed"]
           j == [two EXCEPT !.last = jobs[o].last]
<1>1. PutJob(o, j)
  BY DEF Settle, PutJob
<1>2. /\ one \in Job /\ one.step = "done" /\ one.secret = 0
  BY DoneFacts
<1> HIDE DEF one
<1>3. two \in Job /\ two.step = "done" /\ two.secret = 0 /\ two.result = "failed"
  BY <1>2 DEF Job, Results
<1> HIDE DEF two
<1>4. j \in Job /\ j.step = "done" /\ j.secret = 0 /\ j.result = "failed"
  BY <1>3, JobFacts DEF Job
<1> HIDE DEF j
<1>5. JobSound(j, received'[o]) /\ j.secret <= Len(secrets)
  BY <1>4, JobFacts DEF JobSound
<1> QED BY <1>1, <1>4, <1>5, JobFacts, DeliverKeeps

LEMMA FetchStep ==
    ASSUME OutputsInv, NEW o \in Occurrences, Fetch(o)
    PROVE  OutputsInv'
<1>1. /\ jobs[o].step = "new"
      /\ UNCHANGED <<row, secrets, routed, requests, received, promise, restarts>>
  BY DEF Fetch
<1>2. CASE Settle(o, "failed")
  BY <1>1, <1>2, SettleStep
<1>3. CASE \E d \in row : \E facts \in FactsOf(d.type) :
               jobs' = [jobs EXCEPT ![o] =
                   [NewJob EXCEPT !.step = "resolve", !.type = d.type,
                                  !.settings = d.settings, !.secret = d.secret,
                                  !.facts = facts]]
  <2>0. PICK d \in row : \E facts \in FactsOf(d.type) :
               jobs' = [jobs EXCEPT ![o] =
                   [NewJob EXCEPT !.step = "resolve", !.type = d.type,
                                  !.settings = d.settings, !.secret = d.secret,
                                  !.facts = facts]]
    BY <1>3
  <2>1. PICK facts \in FactsOf(d.type) :
               jobs' = [jobs EXCEPT ![o] =
                   [NewJob EXCEPT !.step = "resolve", !.type = d.type,
                                  !.settings = d.settings, !.secret = d.secret,
                                  !.facts = facts]]
    BY <2>0
  <2> DEFINE one == [NewJob EXCEPT !.step = "resolve"]
             two == [one EXCEPT !.type = d.type]
             three == [two EXCEPT !.settings = d.settings]
             four == [three EXCEPT !.secret = d.secret]
             j == [four EXCEPT !.facts = facts]
  <2>2. PutJob(o, j)
    BY <2>1 DEF PutJob
  <2>3. /\ d.type \in Types /\ d.settings \in Settings /\ facts \in Facts
        /\ d.secret \in Nat /\ d.secret <= Len(secrets)
    BY DEF OutputsInv, OutputsTypeOK, RowsSound, Row, FactsOf
  <2>4. one \in Job /\ one.step = "resolve" /\ one.result = "none" /\ one.last = "none"
    BY NewFacts DEF Job, NewJob
  <2> HIDE DEF one
  <2>5. two \in Job /\ two.step = "resolve" /\ two.result = "none" /\ two.last = "none"
    BY <2>3, <2>4 DEF Job
  <2> HIDE DEF two
  <2>6. three \in Job /\ three.step = "resolve" /\ three.result = "none" /\ three.last = "none"
    BY <2>3, <2>5 DEF Job
  <2> HIDE DEF three
  <2>7. /\ four \in Job /\ four.step = "resolve" /\ four.result = "none" /\ four.last = "none"
        /\ four.secret = d.secret
    BY <2>3, <2>6 DEF Job
  <2> HIDE DEF four
  <2>8. /\ j \in Job /\ j.step = "resolve" /\ j.result = "none" /\ j.last = "none"
        /\ j.secret = d.secret
    BY <2>3, <2>7 DEF Job
  <2> HIDE DEF j
  <2>9. received[o] = 0
    BY <1>1, JobFacts DEF JobSound
  <2>10. JobSound(j, received'[o])
    BY <1>1, <2>8, <2>9 DEF JobSound, Taken
  <2> QED BY <1>1, <2>2, <2>3, <2>8, <2>10, JobFacts, DeliverKeeps
<1> QED BY <1>2, <1>3 DEF Fetch

LEMMA ResolveStep ==
    ASSUME OutputsInv, NEW o \in Occurrences, Resolve(o)
    PROVE  OutputsInv'
<1> DEFINE values == IF jobs[o].secret = 0 THEN {} ELSE secrets[jobs[o].secret]
           one == [jobs[o] EXCEPT !.step = "attempt"]
           two == [one EXCEPT !.attempt = 1]
           three == [two EXCEPT !.secret = 0]
           j == [three EXCEPT !.values = values]
<1>1. /\ jobs[o].step = "resolve"
      /\ UNCHANGED <<row, secrets, routed, requests, received, promise, restarts>>
  BY DEF Resolve
<1>2. PutJob(o, j)
  BY DEF Resolve, PutJob
<1>3. values \in Values
  <2>1. CASE jobs[o].secret = 0
    BY <2>1 DEF Values
  <2>2. CASE jobs[o].secret # 0
    BY <2>2, JobFacts
  <2> QED BY <2>1, <2>2
<1>4. /\ received[o] = 0 /\ jobs[o].result = "none" /\ jobs[o].last \notin Taken
  BY <1>1, JobFacts DEF JobSound
<1> HIDE DEF values
<1>5. one \in Job /\ one.step = "attempt" /\ one.result = "none" /\ one.last \notin Taken
  BY <1>4, JobFacts DEF Job
<1> HIDE DEF one
<1>6. /\ two \in Job /\ two.step = "attempt" /\ two.result = "none" /\ two.last \notin Taken
      /\ two.attempt = 1
  BY <1>5, NewFacts DEF Job
<1> HIDE DEF two
<1>7. /\ three \in Job /\ three.step = "attempt" /\ three.result = "none"
      /\ three.last \notin Taken /\ three.attempt = 1 /\ three.secret = 0
  BY <1>6 DEF Job
<1> HIDE DEF three
<1>8. /\ j \in Job /\ j.step = "attempt" /\ j.result = "none"
      /\ j.last \notin Taken /\ j.attempt = 1 /\ j.secret = 0
  BY <1>3, <1>7 DEF Job
<1> HIDE DEF j
<1>9. JobSound(j, received'[o]) /\ j.secret <= Len(secrets)
  BY <1>1, <1>4, <1>8, JobFacts DEF JobSound
<1> QED BY <1>1, <1>2, <1>8, <1>9, JobFacts, DeliverKeeps

LEMMA ResultFacts ==
    ASSUME NEW answer \in Answers
    PROVE  /\ Result(answer) \in Results
           /\ Result(answer) = "delivered" => answer = "success"
           /\ Result(answer) = "retry" => answer \notin Taken
BY DEF Result, Results, Answers, Taken

LEMMA AttemptStep ==
    ASSUME OutputsInv, NEW o \in Occurrences, NEW resolved, NEW answer \in Answers,
           Attempt(o, resolved, answer)
    PROVE  OutputsInv'
<1> DEFINE n == jobs[o].attempt
           result == Result(answer)
<1>1. /\ jobs[o].step = "attempt"
      /\ UNCHANGED <<row, secrets, routed, requests, promise, restarts>>
  BY DEF Attempt
<1>2. /\ n \in Nat /\ n >= 1 /\ n <= MaxAttempts /\ received[o] \in Nat /\ received[o] < n
      /\ MaxAttempts \in Nat /\ jobs[o].result = "none"
  BY <1>1, JobFacts, NewFacts DEF JobSound
<1>3. PICK arrived \in Arrives(answer) :
          IF arrived THEN received' = [received EXCEPT ![o] = @ + 1] ELSE received' = received
  BY DEF Attempt
<1>4. /\ received'[o] \in Nat /\ received'[o] <= n
      /\ received' = received \/ received' = [received EXCEPT ![o] = received'[o]]
      /\ answer = "success" => received'[o] > 0
  <2>1. received \in [Occurrences -> 0..MaxAttempts]
    BY DEF OutputsInv, OutputsTypeOK
  <2>2. CASE arrived
    <3>1. received' = [received EXCEPT ![o] = received[o] + 1]
      BY <1>3, <2>2
    <3>2. received'[o] = received[o] + 1
      BY <2>1, <3>1
    <3>3. received'[o] \in Nat /\ received'[o] <= n /\ received'[o] > 0
      BY <1>2, <3>2
    <3>4. received' = [received EXCEPT ![o] = received'[o]]
      BY <3>1, <3>2
    <3> QED BY <3>3, <3>4
  <2>3. CASE ~arrived
    <3>1. received' = received
      BY <1>3, <2>3
    <3>2. answer # "success"
      BY <2>3 DEF Arrives
    <3> QED BY <1>2, <3>1, <3>2
  <2> QED BY <2>2, <2>3
<1>5. received'[o] \in 0..MaxAttempts
  BY <1>2, <1>4
<1>6. CASE result = "retry" /\ n < AttemptsOf(o)
  <2> DEFINE one == [jobs[o] EXCEPT !.attempt = n + 1]
             j == [one EXCEPT !.last = answer]
  <2>1. PutJob(o, j)
    BY <1>6 DEF Attempt, PutJob
  <2>2. n + 1 \in 0..MaxAttempts /\ n + 1 >= 1
    BY <1>2, <1>6 DEF AttemptsOf
  <2>3. /\ one \in Job /\ one.step = "attempt" /\ one.result = "none" /\ one.attempt = n + 1
        /\ one.secret = jobs[o].secret
    BY <1>1, <1>2, <2>2, JobFacts DEF Job
  <2> HIDE DEF one
  <2>4. /\ j \in Job /\ j.step = "attempt" /\ j.result = "none" /\ j.attempt = n + 1
        /\ j.secret = jobs[o].secret /\ j.last = answer
    BY <2>3 DEF Job
  <2> HIDE DEF j
  <2>5. answer \notin Taken
    BY <1>6, ResultFacts
  <2>6. JobSound(j, received'[o])
    BY <1>2, <1>4, <2>4, <2>5 DEF JobSound
  <2> QED BY <1>1, <1>4, <1>5, <2>1, <2>4, <2>6, JobFacts, DeliverKeeps
<1>7. CASE ~(result = "retry" /\ n < AttemptsOf(o))
  <2> DEFINE final == IF result = "retry" THEN "failed" ELSE result
             one == [NewJob EXCEPT !.step = "done"]
             two == [one EXCEPT !.last = answer]
             j == [two EXCEPT !.result = final]
  <2>1. PutJob(o, j)
    BY <1>7 DEF Attempt, PutJob
  <2>2. final \in Results /\ (final = "delivered" => answer = "success")
    BY ResultFacts DEF Results
  <2> HIDE DEF final, result
  <2>3. one \in Job /\ one.step = "done" /\ one.secret = 0
    BY DoneFacts
  <2> HIDE DEF one
  <2>4. two \in Job /\ two.step = "done" /\ two.secret = 0
    BY <2>3 DEF Job
  <2> HIDE DEF two
  <2>5. j \in Job /\ j.step = "done" /\ j.secret = 0 /\ j.result = final
    BY <2>2, <2>4 DEF Job
  <2> HIDE DEF j
  <2>6. JobSound(j, received'[o]) /\ j.secret <= Len(secrets)
    BY <1>4, <2>2, <2>5, JobFacts DEF JobSound
  <2> QED BY <1>1, <1>4, <1>5, <2>1, <2>5, <2>6, JobFacts, DeliverKeeps
<1> QED BY <1>6, <1>7

LEMMA DeliverStep ==
    ASSUME OutputsInv, NEW o \in Occurrences, Deliver(o)
    PROVE  OutputsInv'
<1>1. CASE Fetch(o) \/ Resolve(o)
  BY <1>1, FetchStep, ResolveStep
<1>2. ASSUME NEW resolved, Refuse(o, resolved) PROVE OutputsInv'
  BY <1>2, SettleStep DEF Refuse
<1>3. ASSUME NEW resolved, NEW answer \in Answers, Attempt(o, resolved, answer)
      PROVE  OutputsInv'
  BY <1>3, AttemptStep
<1> QED BY <1>1, <1>2, <1>3 DEF Deliver

-----------------------------------------------------------------------------

LEMMA CrashStep ==
    ASSUME OutputsInv, Crash
    PROVE  OutputsInv'
<1>1. /\ restarts' = 1
      /\ UNCHANGED <<row, secrets, routed, received, promise>>
  BY DEF Crash
<1>2. /\ requests' \in [Requests -> Request]
      /\ \A r \in Requests : requests'[r] = requests[r] \/
                             requests'[r] = [NewRequest EXCEPT !.step = "done"]
  BY DoneFacts DEF Crash, OutputsInv, OutputsTypeOK
<1>3. /\ jobs' \in [Occurrences -> Job]
      /\ \A o \in Occurrences : jobs'[o] = jobs[o] \/
                                jobs'[o] = [NewJob EXCEPT !.step = "done"]
  BY DoneFacts DEF Crash, OutputsInv, OutputsTypeOK
<1>4. Len(secrets) \in Nat
  BY DEF OutputsInv, OutputsTypeOK
<1>5. RequestsSound'
  <2> SUFFICES ASSUME NEW r \in Requests PROVE RequestSound(requests'[r], Len(secrets))
    BY <1>1 DEF RequestsSound
  <2>1. RequestSound(requests[r], Len(secrets))
    BY DEF OutputsInv, RequestsSound
  <2>2. RequestSound([NewRequest EXCEPT !.step = "done"], Len(secrets))
    BY <1>4, DoneFacts DEF RequestSound
  <2> QED BY <1>2, <2>1, <2>2
<1>6. JobsSound'
  <2> SUFFICES ASSUME NEW o \in Occurrences
               PROVE  jobs'[o].secret <= Len(secrets) /\ JobSound(jobs'[o], received[o])
    BY <1>1 DEF JobsSound
  <2> DEFINE j == [NewJob EXCEPT !.step = "done"]
  <2>1. jobs[o].secret <= Len(secrets) /\ JobSound(jobs[o], received[o])
    BY DEF OutputsInv, JobsSound
  <2>2. j.secret = 0 /\ j.step = "done" /\ j.last = "none" /\ j.result = "none"
    BY DoneFacts
  <2>3. jobs'[o] = jobs[o] \/ jobs'[o] = j
    BY <1>3
  <2> HIDE DEF j
  <2>4. j.secret <= Len(secrets) /\ JobSound(j, received[o])
    BY <1>4, <2>2 DEF JobSound, Taken
  <2> QED BY <2>1, <2>3, <2>4
<1>7. OutputsTypeOK' /\ RowsSound' /\ CreatedWhole'
  BY <1>1, <1>2, <1>3 DEF OutputsInv, OutputsTypeOK, RowsSound, CreatedWhole
<1>8. CreationSound'
  <2>1. \A r \in Requests : requests'[r].step \in Creating => requests'[r] = requests[r]
    BY <1>2, DoneFacts DEF Creating
  <2> QED BY <1>1, <2>1 DEF OutputsInv, CreationSound, Creating
<1> QED BY <1>5, <1>6, <1>7, <1>8 DEF OutputsInv

LEMMA InitInv == Init => OutputsInv
<1> SUFFICES ASSUME Init PROVE OutputsInv
  OBVIOUS
<1>1. /\ NewRequest.step = "new" /\ NewRequest.secret = 0
      /\ NewJob.step = "new" /\ NewJob.secret = 0 /\ NewJob.last = "none"
      /\ NewJob.result = "none"
  BY DEF NewRequest, NewJob
<1>2. Len(secrets) = 0
  BY DEF Init
<1>3. OutputsTypeOK
  <2>1. requests \in [Requests -> Request] /\ jobs \in [Occurrences -> Job]
    BY NewFacts DEF Init
  <2>2. received \in [Occurrences -> 0..MaxAttempts]
    BY NewFacts DEF Init
  <2>3. secrets = <<>> /\ row = {} /\ routed = FALSE /\ promise = "none"
    BY DEF Init
  <2>4. secrets \in Seq(Values)
    BY <2>3
  <2> QED BY <2>1, <2>2, <2>3, <2>4 DEF OutputsTypeOK
<1>4. RequestsSound
  BY <1>1, <1>2 DEF Init, RequestsSound, RequestSound
<1>5. JobsSound
  BY <1>1, <1>2 DEF Init, JobsSound, JobSound, Taken
<1>6. CreationSound
  BY <1>1 DEF Init, CreationSound, Creating
<1> QED BY <1>3, <1>4, <1>5, <1>6 DEF Init, OutputsInv, RowsSound, CreatedWhole

LEMMA NextInv == OutputsInv /\ [Next]_vars => OutputsInv'
<1> SUFFICES ASSUME OutputsInv, [Next]_vars PROVE OutputsInv'
  OBVIOUS
<1>1. CASE \E r \in Requests : Manage(r)
  BY <1>1, ManageStep
<1>2. CASE \E o \in Occurrences : Deliver(o)
  BY <1>2, DeliverStep
<1>3. CASE AddRoute
  <2>1. routed' = TRUE /\ UNCHANGED <<row, secrets, requests, jobs, received, promise, restarts>>
    BY <1>3 DEF AddRoute
  <2> QED BY <2>1 DEF OutputsInv, OutputsTypeOK, RowsSound, RequestsSound, JobsSound,
                      CreationSound, CreatedWhole
<1>4. CASE Crash
  BY <1>4, CrashStep
<1>5. CASE UNCHANGED vars
  BY <1>5, Stuttering
<1> QED BY <1>1, <1>2, <1>3, <1>4, <1>5 DEF Next

LEMMA InvAlways == Spec => []OutputsInv
BY InitInv, NextInv, PTL DEF Spec

\* Every variable keeps its type, whatever requests and deliveries meet: there is one
\* row at most, and no delivery reaches a receiver more than MaxAttempts times.
THEOREM OutputsTyped == Spec => []OutputsTypeOK
<1>1. OutputsInv => OutputsTypeOK
  BY DEF OutputsInv
<1> QED BY <1>1, InvAlways, PTL

\* OutputResult.delivered of the adapters, whatever requests change meanwhile.
THEOREM DeliveredHasArrived == Spec => []DeliveredArrived
<1>1. OutputsInv => DeliveredArrived
  BY DEF OutputsInv, JobsSound, JobSound, DeliveredArrived
<1> QED BY <1>1, InvAlways, PTL

\* The creation of a destination with a secret, in its steps, among other requests:
\* the row has its secret, or the request has yet to end, has been stopped, or has
\* failed where nothing takes the row back.
THEOREM CreatedStaysWhole == Spec => []CreatedWhole
<1>1. OutputsInv => CreatedWhole
  BY DEF OutputsInv
<1> QED BY <1>1, InvAlways, PTL

\* The retries of a delivery end with the first answer that says it was taken.
THEOREM TakenIsSentOnce == Spec => TakenOnce
<1>1. OutputsInv /\ [Next]_vars =>
          (\A o \in Occurrences : jobs[o].last \in {"success", "success_unverified"} =>
               received'[o] = received[o]) \/ UNCHANGED vars
  <2> SUFFICES ASSUME OutputsInv, Next, NEW o \in Occurrences,
                      jobs[o].last \in {"success", "success_unverified"}
               PROVE  received'[o] = received[o]
    BY DEF OutputsInv
  <2>1. jobs[o].step = "done"
    BY DEF OutputsInv, JobsSound, JobSound, Taken
  <2>2. CASE \E r \in Requests : Manage(r)
    <3>1. PICK r \in Requests : Manage(r)
      BY <2>2
    <3>2. \A type, settings, values, enabled :
              \/ BeginCreate(r, type, settings, values)
              \/ BeginPatch(r, type, settings, enabled, values)
              => received' = received
      BY DEF BeginCreate, BeginPatch
    <3>3. \/ Create(r) \/ CreateReturns(r) \/ CreateRaises(r)
          \/ CreateSecret(r) \/ SecretFails(r) \/ Link(r) \/ Undo(r)
          \/ Metadata(r) \/ Rotate(r) \/ NewSecret(r) \/ NewLink(r) \/ Update(r)
          \/ PatchFails(r) \/ Delete(r)
          => received' = received
      BY DEF Create, CreateReturns, CreateRaises, CreateSecret, SecretFails, Link, Undo,
             Metadata, Rotate, NewSecret, NewLink, Update, PatchFails, Delete
    <3> QED BY <3>1, <3>2, <3>3 DEF Manage
  <2>3. CASE \E p \in Occurrences : Deliver(p)
    <3>1. PICK p \in Occurrences : Deliver(p)
      BY <2>3
    <3>2. CASE Fetch(p) \/ Resolve(p) \/ \E resolved : Refuse(p, resolved)
      BY <3>2 DEF Fetch, Resolve, Refuse
    <3>3. CASE \E resolved : \E answer \in Answers : Attempt(p, resolved, answer)
      <4>1. PICK arrived : IF arrived THEN received' = [received EXCEPT ![p] = @ + 1]
                                      ELSE received' = received
        BY <3>3 DEF Attempt
      <4>2. p # o
        BY <2>1, <3>3 DEF Attempt
      <4>3. received \in [Occurrences -> 0..MaxAttempts]
        BY DEF OutputsInv, OutputsTypeOK
      <4> QED BY <4>1, <4>2, <4>3
    <3> QED BY <3>1, <3>2, <3>3 DEF Deliver
  <2>4. CASE AddRoute \/ Crash
    BY <2>4 DEF AddRoute, Crash
  <2> QED BY <2>2, <2>3, <2>4 DEF Next
<1> QED BY <1>1, InvAlways, PTL DEF Spec, TakenOnce

=============================================================================
