---------------------------- MODULE IngestProofs ----------------------------
(***************************************************************************)
(* Any number of senders, batches, keys and requests at work, and any      *)
(* number of restarts.                                                     *)
(***************************************************************************)
EXTENDS Ingest, SequenceTheorems, TLAPS

\* What the steps of a handler find in its record.
Sound(r, h) ==
    /\ h.stamp <= MaxTime
    /\ h.at >= 1
    /\ h.step \in {"unused", "arrived", "timed", "allowed"} => h.at = 1
    /\ h.step \in {"arrived", "timed"} => Sender(r) \in Limited
    /\ h.step \in {"clock", "route"} => h.at <= Len(Posted(r))
    /\ h.step = "clock" => Key[Posted(r)[h.at]] # NoKey
    /\ h.reply # "none" => h.step \in {"reply", "done"}

HandlerSound == \A r \in Requests : Sound(r, handlers[r])

\* What is remembered of a key is its last admission.
SeenSound ==
    \A k \in Keys : seen[k] # Never =>
        admitted[k] # <<>> /\ admitted[k][Len(admitted[k])] = seen[k]

\* The window of an admission is over, or it is the last one and remembered.
AdmissionsSound ==
    \A k \in Keys : \A i \in DOMAIN admitted[k] :
        PassedSince(admitted[k][i]) \/ (i = Len(admitted[k]) /\ seen[k] # Never)

\* The router is, was or would have been called with e, or with one it repeats.
Covered(e) == Handed(e) \/ InHand(e) \/ Lost(e)

KeysCovered ==
    \A k \in Keys : admitted[k] # <<>> => \E e \in Events : Key[e] = k /\ Covered(e)

\* A handler has done with the events before its own, and with all it accepts.
BatchesCovered ==
    \A r \in Requests : \A i \in DOMAIN Posted(r) :
        \/ handlers[r].step \in {"next", "clock", "route"} /\ i < handlers[r].at
        \/ handlers[r].reply = "accepted"
        => Covered(Posted(r)[i])

Safe ==
    /\ HandlerSound
    /\ SeenSound
    /\ AdmissionsSound
    /\ RepeatsSound
    /\ KeysCovered
    /\ BatchesCovered
    /\ AcceptedInHand

\* The rest is about RateLimiter.  p is when a caller was let through, in order,
\* w its window, fs its refusals, and t the time.
First(p, w) == Len(p) - w.count + 1

InOrder(p, t) ==
    /\ \A i, j \in DOMAIN p : i <= j => p[i] <= p[j]
    /\ \A i \in DOMAIN p : p[i] <= t

\* The window holds the last w.count requests, begins with the first of them, and
\* what is RateLimit requests before it is a minute older.
WindowSound(p, w, t) ==
    /\ w.started <= t
    /\ w.count \in 1..RateLimit
    /\ w.count <= Len(p)
    /\ p[First(p, w)] = w.started
    /\ \A i \in DOMAIN p : i >= First(p, w) => p[i] - w.started < Minute
    /\ First(p, w) - RateLimit >= 1 => w.started - p[First(p, w) - RateLimit] >= Minute

Over(p, t) == \A i \in DOMAIN p : t - p[i] >= Minute

Spaced(p) ==
    \A i \in DOMAIN p :
        i + 2 * RateLimit - 1 \in DOMAIN p => p[i + 2 * RateLimit - 1] - p[i] >= Minute

UsedUp(p, fs) ==
    \A f \in fs : /\ f.count \in RateLimit..Len(p)
                  /\ f.time - p[f.count - RateLimit + 1] < Minute

Account(p, w, fs, t) ==
    /\ InOrder(p, t)
    /\ w # Never => WindowSound(p, w, t)
    /\ w = Never => Over(p, t)
    /\ Spaced(p)
    /\ UsedUp(p, fs)

\* No request read a clock that is ahead, and the limiter knows each caller whose
\* requests were never late.
StampsPast == \A r \in Requests : handlers[r].stamp <= now
Accounts == \A c \in Callers \ late : Account(passed[c], windows[c], refusals[c], now)

Fair == StampsPast /\ Accounts

IngestInv == IngestTypeOK /\ Safe /\ Fair

-----------------------------------------------------------------------------
(* Requests and their records.                                             *)

LEMMA RequestFacts ==
    ASSUME NEW r \in Requests
    PROVE  /\ Sender(r) \in Senders
           /\ r[2] \in 1..Attempts[Sender(r)]
           /\ r = <<r[1], r[2]>>
           /\ Posted(r) \in Seq(Events)
<1>1. PICK s \in Senders : r \in {s} \X (1..Attempts[s])
  BY DEF Requests
<1>2. r[1] = s /\ r[2] \in 1..Attempts[s] /\ r = <<r[1], r[2]>>
  BY <1>1
<1> QED BY <1>2, IngestAssumption DEF Sender, Posted

\* One request has another record, the others have theirs.
Put(r, h) == handlers' = [handlers EXCEPT ![r] = h]

LEMMA PutFacts ==
    ASSUME handlers \in [Requests -> Post], NEW r \in Requests, NEW h \in Post, Put(r, h)
    PROVE  /\ handlers' \in [Requests -> Post]
           /\ handlers'[r] = h
           /\ \A q \in Requests : q # r => handlers'[q] = handlers[q]
BY DEF Put

LEMMA PutSound ==
    ASSUME handlers \in [Requests -> Post], HandlerSound,
           NEW r \in Requests, NEW h \in Post, Put(r, h), Sound(r, h)
    PROVE  HandlerSound'
<1> SUFFICES ASSUME NEW q \in Requests PROVE Sound(q, handlers[q])'
  BY DEF HandlerSound
<1>1. CASE q = r
  BY <1>1, PutFacts DEF Sound, Sender, Posted
<1>2. CASE q # r
  <2>1. handlers'[q] = handlers[q]
    BY <1>2, PutFacts
  <2>2. Sound(q, handlers[q])
    BY DEF HandlerSound
  <2> QED BY <2>1, <2>2 DEF Sound, Sender, Posted
<1> QED BY <1>1, <1>2

LEMMA CurrentFacts ==
    ASSUME IngestTypeOK, HandlerSound, NEW r \in Requests,
           handlers[r].at <= Len(Posted(r))
    PROVE  /\ handlers[r].at \in DOMAIN Posted(r)
           /\ Current(r) \in Events
           /\ Key[Current(r)] # NoKey => Key[Current(r)] \in Keys
<1>1. handlers[r].at \in Nat /\ handlers[r].at >= 1
  BY DEF IngestTypeOK, Post, HandlerSound, Sound
<1>2. Posted(r) \in Seq(Events)
  BY RequestFacts
<1>3. handlers[r].at \in DOMAIN Posted(r)
  BY <1>1, <1>2
<1>4. Current(r) \in Events
  BY <1>2, <1>3 DEF Current
<1> QED BY <1>3, <1>4 DEF Keys

-----------------------------------------------------------------------------
(* What was covered stays covered.                                         *)

LEMMA CoveredSame ==
    ASSUME NEW e \in Events, NEW f \in Events, Same(e, f), Covered(f)
    PROVE  Covered(e)
BY DEF Same, Covered, Handed, InHand, Lost

\* A step of one handler, which calls the router when it goes on from there.
LEMMA CoveredStays ==
    ASSUME IngestTypeOK, HandlerSound,
           NEW r \in Requests, NEW h \in Post, Put(r, h),
           handed \subseteq handed', cut \subseteq cut',
           At(r, "route") => Current(r) \in handed',
           NEW e \in Events, Covered(e)
    PROVE  Covered(e)'
<1>1. CASE Handed(e)
  BY <1>1 DEF Covered, Handed, Same
<1>2. CASE Lost(e)
  BY <1>2 DEF Covered, Lost, Same
<1>3. CASE InHand(e)
  <2>1. PICK q \in Requests : At(q, "route") /\ Same(e, Current(q))
    BY <1>3 DEF InHand
  <2>2. CASE q = r
    BY <2>1, <2>2 DEF Covered, Handed, Same, Current, Posted, Sender
  <2>3. CASE q # r
    <3>1. handlers'[q] = handlers[q]
      BY <2>3, PutFacts DEF IngestTypeOK
    <3>2. At(q, "route")' /\ Same(e, Current(q))'
      BY <2>1, <3>1 DEF At, Same, Current, Posted, Sender
    <3> QED BY <3>2 DEF Covered, InHand
  <2> QED BY <2>2, <2>3
<1> QED BY <1>1, <1>2, <1>3 DEF Covered

\* Same with a step that leaves the history of the router alone.
Covers(r, h) ==
    \A i \in DOMAIN Posted(r) :
        \/ h.step \in {"next", "clock", "route"} /\ i < h.at
        \/ h.reply = "accepted"
        => Covered(Posted(r)[i])'

LEMMA PutCovers ==
    ASSUME handlers \in [Requests -> Post], BatchesCovered,
           NEW r \in Requests, NEW h \in Post, Put(r, h), Covers(r, h),
           \A e \in Events : Covered(e) => Covered(e)'
    PROVE  BatchesCovered'
<1> SUFFICES ASSUME NEW q \in Requests, NEW i \in DOMAIN Posted(q),
                    \/ /\ handlers'[q].step \in {"next", "clock", "route"}
                       /\ i < handlers'[q].at
                    \/ handlers'[q].reply = "accepted"
             PROVE  Covered(Posted(q)[i])'
  BY DEF BatchesCovered, Posted, Sender
<1>1. CASE q = r
  BY <1>1, PutFacts DEF Covers
<1>2. CASE q # r
  <2>1. handlers'[q] = handlers[q]
    BY <1>2, PutFacts
  <2>2. Covered(Posted(q)[i])
    BY <2>1 DEF BatchesCovered
  <2>3. Posted(q)[i] \in Events
    BY RequestFacts
  <2> QED BY <2>2, <2>3
<1> QED BY <1>1, <1>2

LEMMA KeysStayCovered ==
    ASSUME KeysCovered, admitted' = admitted,
           \A e \in Events : Covered(e) => Covered(e)'
    PROVE  KeysCovered'
<1> SUFFICES ASSUME NEW k \in Keys, admitted[k] # <<>>
             PROVE  \E e \in Events : Key[e] = k /\ Covered(e)'
  BY DEF KeysCovered, Keys
<1>1. PICK e \in Events : Key[e] = k /\ Covered(e)
  BY DEF KeysCovered
<1> QED BY <1>1

\* An answer that says ignored is kept.
LEMMA IgnoredStays ==
    ASSUME handlers \in [Requests -> Post], NEW r \in Requests, NEW h \in Post, Put(r, h),
           handlers[r].reply = "ignored" => h.reply = "ignored",
           NEW s \in Senders, Ignored(s)
    PROVE  Ignored(s)'
<1>1. PICK k \in 1..Attempts[s] : handlers[<<s, k>>].reply = "ignored"
  BY DEF Ignored
<1>2. <<s, k>> \in Requests
  BY DEF Requests
<1>3. handlers'[<<s, k>>].reply = "ignored"
  BY <1>1, <1>2, PutFacts
<1> QED BY <1>3 DEF Ignored

LEMMA AcceptedStays ==
    ASSUME AcceptedInHand, told' = told,
           \A s \in Senders : Ignored(s) => Ignored(s)',
           \A e \in Events : Covered(e) => Covered(e)'
    PROVE  AcceptedInHand'
<1> SUFFICES ASSUME NEW s \in Senders, told[s] = "accepted", ~Ignored(s)',
                    NEW i \in DOMAIN Batch[s]
             PROVE  Covered(Batch[s][i])'
  BY DEF AcceptedInHand, Covered
<1>1. Covered(Batch[s][i])
  BY DEF AcceptedInHand, Covered
<1>2. Batch[s][i] \in Events
  BY IngestAssumption
<1> QED BY <1>1, <1>2

LEMMA MemoryStays ==
    ASSUME UNCHANGED <<seen, admitted, repeats>>, SeenSound, AdmissionsSound, RepeatsSound
    PROVE  SeenSound' /\ AdmissionsSound' /\ RepeatsSound'
BY DEF SeenSound, AdmissionsSound, RepeatsSound, PassedSince, Keys

-----------------------------------------------------------------------------
(* What the steps leave in the record of their request.                    *)

Record(step, at, stamp, reply) ==
    [step |-> step, at |-> at, stamp |-> stamp, reply |-> reply]

LEMMA ToFacts ==
    ASSUME IngestTypeOK, NEW r \in Requests, NEW step, To(r, step)
    PROVE  Put(r, Record(step, handlers[r].at, handlers[r].stamp, handlers[r].reply))
<1>1. handlers \in [Requests -> Post]
  BY DEF IngestTypeOK
<1>2. handlers[r] \in Post
  BY <1>1
<1>3. [handlers[r] EXCEPT !.step = step]
        = Record(step, handlers[r].at, handlers[r].stamp, handlers[r].reply)
  BY <1>2 DEF Post, Record
<1>4. handlers' = [handlers EXCEPT ![r] = [handlers[r] EXCEPT !.step = step]]
  BY <1>1 DEF To
<1> QED BY <1>3, <1>4 DEF Put

LEMMA ReplyFacts ==
    ASSUME NEW r \in Requests, NEW reply, Reply(r, reply)
    PROVE  Put(r, Record("reply", 1, 0, reply))
<1> DEFINE one == [Unused EXCEPT !.step = "reply"]
<1>1. one = Record("reply", 1, 0, "none")
  BY DEF Unused, Record
<1> HIDE DEF one
<1>2. [one EXCEPT !.reply = reply] = Record("reply", 1, 0, reply)
  BY <1>1 DEF Record
<1>3. [Unused EXCEPT !.step = "reply", !.reply = reply] = [one EXCEPT !.reply = reply]
  BY DEF one
<1> QED BY <1>2, <1>3 DEF Reply, Put

LEMMA SkipFacts ==
    ASSUME NEW r \in Requests, Skip(r)
    PROVE  Put(r, Record("next", handlers[r].at + 1, 0, "none"))
<1> DEFINE one == [Unused EXCEPT !.step = "next"]
<1>1. one = Record("next", 1, 0, "none")
  BY DEF Unused, Record
<1> HIDE DEF one
<1>2. [one EXCEPT !.at = handlers[r].at + 1] = Record("next", handlers[r].at + 1, 0, "none")
  BY <1>1 DEF Record
<1>3. [Unused EXCEPT !.step = "next", !.at = handlers[r].at + 1] = [one EXCEPT !.at = handlers[r].at + 1]
  BY DEF one
<1> QED BY <1>2, <1>3 DEF Skip, Put

LEMMA EndFacts ==
    ASSUME NEW r \in Requests
    PROVE  End(r) = Record("done", 1, 0, IF handlers[r].reply = "ignored"
                                         THEN "ignored" ELSE "none")
<1> DEFINE kept == IF handlers[r].reply = "ignored" THEN "ignored" ELSE "none"
<1> DEFINE one == [Unused EXCEPT !.step = "done"]
<1>1. one = Record("done", 1, 0, "none")
  BY DEF Unused, Record
<1> HIDE DEF one
<1>2. [one EXCEPT !.reply = kept] = Record("done", 1, 0, kept)
  BY <1>1 DEF Record
<1>3. [Unused EXCEPT !.step = "done", !.reply = kept] = [one EXCEPT !.reply = kept]
  BY DEF one
<1> QED BY <1>2, <1>3 DEF End

LEMMA StampFacts ==
    ASSUME IngestTypeOK, NEW r \in Requests, NEW step, NEW stamp,
           handlers' = [handlers EXCEPT ![r].step = step, ![r].stamp = stamp]
    PROVE  Put(r, Record(step, handlers[r].at, stamp, handlers[r].reply))
<1>1. handlers \in [Requests -> Post]
  BY DEF IngestTypeOK
<1>2. handlers[r] \in Post
  BY <1>1
<1> DEFINE one == [handlers EXCEPT ![r] = [handlers[r] EXCEPT !.step = step]]
<1>3. one[r] = Record(step, handlers[r].at, handlers[r].stamp, handlers[r].reply)
  BY <1>1, <1>2 DEF Post, Record
<1>4. [one[r] EXCEPT !.stamp = stamp] = Record(step, handlers[r].at, stamp, handlers[r].reply)
  BY <1>3 DEF Record
<1>5. handlers' = [one EXCEPT ![r] = [one[r] EXCEPT !.stamp = stamp]]
  OBVIOUS
<1>6. handlers' = [one EXCEPT ![r] = Record(step, handlers[r].at, stamp, handlers[r].reply)]
  BY <1>4, <1>5
<1> QED BY <1>1, <1>6 DEF Put

LEMMA RecordFacts ==
    ASSUME NEW step \in {"unused", "arrived", "timed", "allowed", "next", "clock", "route",
                         "reply", "done"},
           NEW at \in Nat, NEW stamp \in Nat,
           NEW reply \in {"none", "accepted", "ignored", "unauthorized", "limited",
                          "bad", "failed"}
    PROVE  /\ Record(step, at, stamp, reply) \in Post
           /\ Record(step, at, stamp, reply).step = step
           /\ Record(step, at, stamp, reply).at = at
           /\ Record(step, at, stamp, reply).stamp = stamp
           /\ Record(step, at, stamp, reply).reply = reply
BY DEF Record, Post

LEMMA HandlerFacts ==
    ASSUME IngestTypeOK, HandlerSound, NEW r \in Requests
    PROVE  /\ handlers[r].at \in Nat
           /\ handlers[r].stamp \in Nat
           /\ handlers[r].stamp \in 0..MaxTime
           /\ handlers[r].reply \in {"none", "accepted", "ignored", "unauthorized", "limited",
                                     "bad", "failed"}
           /\ handlers[r].step \notin {"reply", "done"} => handlers[r].reply = "none"
           /\ Sound(r, handlers[r])
<1>1. handlers[r] \in Post /\ Sound(r, handlers[r])
  BY DEF IngestTypeOK, HandlerSound
<1>2. MaxTime \in Nat
  BY IngestAssumption
<1> QED BY <1>1, <1>2 DEF Post, Sound

-----------------------------------------------------------------------------
(* The steps that neither look for a repetition nor call the router.       *)

Handling == handlers' \in [Requests -> Post]

\* h has nothing behind it, or what the record before it had.
Behind(r, h) ==
    \/ h.step \notin {"next", "clock", "route"}
    \/ h.at = 1
    \/ handlers[r].step \in {"next", "clock", "route"} /\ h.at = handlers[r].at

LEMMA BehindCovers ==
    ASSUME IngestInv, NEW r \in Requests, NEW h \in Post, Behind(r, h),
           h.reply = "accepted" => \A i \in DOMAIN Posted(r) : Covered(Posted(r)[i]),
           \A e \in Events : Covered(e) => Covered(e)'
    PROVE  Covers(r, h)
<1> SUFFICES ASSUME NEW i \in DOMAIN Posted(r),
                    \/ h.step \in {"next", "clock", "route"} /\ i < h.at
                    \/ h.reply = "accepted"
             PROVE  Covered(Posted(r)[i])'
  BY DEF Covers
<1>1. Posted(r)[i] \in Events /\ i \in Nat /\ i >= 1
  BY RequestFacts
<1>2. BatchesCovered
  BY DEF IngestInv, Safe
<1>3. Covered(Posted(r)[i])
  BY <1>1, <1>2 DEF Behind, BatchesCovered
<1> QED BY <1>1, <1>3

LEMMA QuietStep ==
    ASSUME IngestInv, NEW r \in Requests, NEW h \in Post, Put(r, h), Sound(r, h),
           Behind(r, h),
           h.reply = "accepted" => \A i \in DOMAIN Posted(r) : Covered(Posted(r)[i]),
           handlers[r].reply = "ignored" => h.reply = "ignored",
           ~At(r, "route"),
           UNCHANGED <<seen, admitted, repeats, handed, cut>>
    PROVE  /\ Handling
           /\ told' = told => Safe'
           /\ HandlerSound' /\ SeenSound' /\ AdmissionsSound' /\ RepeatsSound'
           /\ KeysCovered' /\ BatchesCovered'
           /\ \A e \in Events : Covered(e) => Covered(e)'
           /\ \A s \in Senders : Ignored(s) => Ignored(s)'
<1>0. /\ IngestTypeOK /\ handlers \in [Requests -> Post]
      /\ HandlerSound /\ SeenSound /\ AdmissionsSound /\ RepeatsSound
      /\ KeysCovered /\ BatchesCovered /\ AcceptedInHand
  BY DEF IngestInv, Safe, IngestTypeOK
<1>1. Handling
  BY <1>0, PutFacts DEF Handling
<1>2. HandlerSound'
  BY <1>0, PutSound
<1>3. SeenSound' /\ AdmissionsSound' /\ RepeatsSound'
  BY <1>0, MemoryStays
<1>4. \A e \in Events : Covered(e) => Covered(e)'
  BY <1>0, CoveredStays
<1>5. Covers(r, h)
  BY <1>4, BehindCovers
<1>6. BatchesCovered'
  BY <1>0, <1>4, <1>5, PutCovers
<1>7. KeysCovered'
  BY <1>0, <1>4, KeysStayCovered
<1>8. \A s \in Senders : Ignored(s) => Ignored(s)'
  BY <1>0, IgnoredStays
<1>9. told' = told => AcceptedInHand'
  BY <1>0, <1>4, <1>8, AcceptedStays
<1> QED BY <1>1, <1>2, <1>3, <1>4, <1>6, <1>7, <1>8, <1>9 DEF Safe

LEMMA PostBatchStep ==
    ASSUME IngestInv, NEW r \in Requests, PostBatch(r[1], r[2])
    PROVE  Handling /\ Safe'
<1> DEFINE step == IF r[1] \in Limited THEN "arrived" ELSE "allowed"
           h == Record(step, 1, handlers[r].stamp, "none")
<1>0. IngestTypeOK /\ HandlerSound
  BY DEF IngestInv, Safe
<1>1. r = <<r[1], r[2]>>
  BY RequestFacts
<1>2. At(r, "unused") /\ To(r, step)
  BY <1>1 DEF PostBatch
<1>3. /\ handlers[r].at = 1 /\ handlers[r].reply = "none"
      /\ handlers[r].stamp \in Nat /\ handlers[r].stamp <= MaxTime
  BY <1>0, <1>2, HandlerFacts, IngestAssumption DEF At, Sound
<1>4. Put(r, h)
  BY <1>0, <1>2, <1>3, ToFacts
<1>5. /\ h \in Post /\ h.step = step /\ h.at = 1 /\ h.stamp = handlers[r].stamp
      /\ h.reply = "none"
  BY <1>3 DEF Record, Post
<1> HIDE DEF h
<1>6. Sound(r, h) /\ Behind(r, h)
  BY <1>3, <1>5 DEF Sound, Sender, Behind
<1>7. ~At(r, "route")
  BY <1>2 DEF At
<1>8. UNCHANGED <<seen, admitted, repeats, handed, cut, told>>
  BY DEF PostBatch, history
<1> QED BY <1>3, <1>4, <1>5, <1>6, <1>7, <1>8, QuietStep

LEMMA ReadLimitClockStep ==
    ASSUME IngestInv, NEW r \in Requests, ReadLimitClock(r)
    PROVE  Handling /\ Safe'
<1> DEFINE h == Record("timed", handlers[r].at, now, handlers[r].reply)
<1>0. IngestTypeOK /\ HandlerSound /\ now \in 0..MaxTime /\ MaxTime \in Nat
  BY IngestAssumption DEF IngestInv, Safe, IngestTypeOK
<1>1. At(r, "arrived")
  BY DEF ReadLimitClock
<1>2. Put(r, h)
  BY <1>0, StampFacts DEF ReadLimitClock
<1>3. handlers[r].at = 1 /\ handlers[r].reply = "none" /\ Sender(r) \in Limited
  BY <1>0, <1>1, HandlerFacts DEF At, Sound
<1>4. now \in Nat /\ now <= MaxTime
  BY <1>0
<1>5. h \in Post /\ h.step = "timed" /\ h.at = 1 /\ h.stamp = now /\ h.reply = "none"
  BY <1>3, <1>4, RecordFacts
<1> HIDE DEF h
<1>6. Sound(r, h) /\ Behind(r, h)
  BY <1>3, <1>4, <1>5 DEF Sound, Behind
<1>7. ~At(r, "route")
  BY <1>1 DEF At
<1>8. UNCHANGED <<seen, admitted, repeats, handed, cut, told>>
  BY DEF ReadLimitClock, history
<1> QED BY <1>2, <1>3, <1>5, <1>6, <1>7, <1>8, QuietStep

\* An answer, which is not accepted without reason.
LEMMA ReplyStep ==
    ASSUME IngestInv, NEW r \in Requests,
           NEW reply \in {"accepted", "ignored", "unauthorized", "limited", "bad", "failed"},
           Reply(r, reply), ~At(r, "route"), ~At(r, "reply"), ~At(r, "done"),
           reply = "accepted" => \A i \in DOMAIN Posted(r) : Covered(Posted(r)[i]),
           UNCHANGED <<seen, admitted, repeats, handed, cut, told>>
    PROVE  Handling /\ Safe'
<1> DEFINE h == Record("reply", 1, 0, reply)
<1>0. IngestTypeOK /\ HandlerSound /\ MaxTime \in Nat
  BY IngestAssumption DEF IngestInv, Safe
<1>1. Put(r, h)
  BY ReplyFacts
<1>2. handlers[r].reply = "none"
  <2>1. handlers[r].step \notin {"reply", "done"} => handlers[r].reply = "none"
    BY <1>0, HandlerFacts, Zenon
  <2> QED BY <2>1 DEF At
<1>3. h \in Post /\ h.step = "reply" /\ h.at = 1 /\ h.stamp = 0 /\ h.reply = reply
  BY RecordFacts, SMTT(20)
<1> HIDE DEF h
<1>4. Sound(r, h) /\ Behind(r, h)
  BY <1>0, <1>3 DEF Sound, Behind
<1> QED BY <1>1, <1>2, <1>3, <1>4, QuietStep

LEMMA AllowStep ==
    ASSUME IngestInv, NEW r \in Requests, Allow(r)
    PROVE  Handling /\ Safe'
<1> DEFINE h == Record("allowed", 1, 0, "none")
<1>0. IngestTypeOK /\ HandlerSound /\ MaxTime \in Nat
  BY IngestAssumption DEF IngestInv, Safe
<1>1. At(r, "timed")
  BY DEF Allow
<1>2. [Unused EXCEPT !.step = "allowed"] = h
  BY DEF Unused, Record
<1>3. handlers' = [handlers EXCEPT ![r] = [Unused EXCEPT !.step = "allowed"]]
  BY DEF Allow
<1> HIDE DEF h
<1>4. Put(r, h)
  BY <1>2, <1>3 DEF Put
<1>5. handlers[r].reply = "none"
  BY <1>0, <1>1, HandlerFacts DEF At
<1>6. h \in Post /\ h.step = "allowed" /\ h.at = 1 /\ h.stamp = 0 /\ h.reply = "none"
  BY RecordFacts DEF h
<1>7. Sound(r, h) /\ Behind(r, h)
  BY <1>0, <1>6 DEF Sound, Behind
<1>8. ~At(r, "route")
  BY <1>1 DEF At
<1>9. UNCHANGED <<seen, admitted, repeats, handed, cut, told>>
  BY DEF Allow
<1> QED BY <1>4, <1>5, <1>6, <1>7, <1>8, <1>9, QuietStep

LEMMA LimitStep ==
    ASSUME IngestInv, NEW r \in Requests, Limit(r)
    PROVE  Handling /\ Safe'
<1> DEFINE reply == IF Kind[Sender(r)] = "api" THEN "limited" ELSE "unauthorized"
<1>1. Reply(r, reply) /\ At(r, "timed")
  BY DEF Limit
<1>2. UNCHANGED <<seen, admitted, repeats, handed, cut, told>>
  BY DEF Limit
<1>3. ~At(r, "route") /\ ~At(r, "reply") /\ ~At(r, "done")
  BY <1>1 DEF At
<1>4. reply \in {"limited", "unauthorized"}
  OBVIOUS
<1> HIDE DEF reply
<1> QED BY <1>1, <1>2, <1>3, <1>4, ReplyStep

LEMMA IgnoreStep ==
    ASSUME IngestInv, NEW r \in Requests, Ignore(r)
    PROVE  Handling /\ Safe'
<1>1. Reply(r, "ignored") /\ At(r, "allowed")
  BY DEF Ignore
<1>2. UNCHANGED <<seen, admitted, repeats, handed, cut, told>>
  BY DEF Ignore, history
<1>3. ~At(r, "route") /\ ~At(r, "reply") /\ ~At(r, "done")
  BY <1>1 DEF At
<1> QED BY <1>1, <1>2, <1>3, ReplyStep

LEMMA ParseStep ==
    ASSUME IngestInv, NEW r \in Requests, Parse(r)
    PROVE  Handling /\ Safe'
<1>0. IngestTypeOK /\ HandlerSound /\ MaxTime \in Nat
  BY IngestAssumption DEF IngestInv, Safe
<1>1. At(r, "allowed")
  BY DEF Parse
<1>2. UNCHANGED <<seen, admitted, repeats, handed, cut, told>>
  BY DEF Parse, history
<1>3. ~At(r, "route") /\ ~At(r, "reply") /\ ~At(r, "done")
  BY <1>1 DEF At
<1>4. CASE Reply(r, "bad")
  BY <1>2, <1>3, <1>4, ReplyStep
<1>5. CASE To(r, "next")
  <2> DEFINE h == Record("next", 1, handlers[r].stamp, "none")
  <2>1. /\ handlers[r].at = 1 /\ handlers[r].reply = "none"
        /\ handlers[r].stamp \in Nat /\ handlers[r].stamp <= MaxTime
    BY <1>0, <1>1, HandlerFacts DEF At, Sound
  <2>2. Put(r, h)
    BY <1>0, <1>5, <2>1, ToFacts
  <2>3. /\ h \in Post /\ h.step = "next" /\ h.at = 1 /\ h.stamp = handlers[r].stamp
        /\ h.reply = "none"
    BY <2>1 DEF Record, Post
  <2> HIDE DEF h
  <2>4. Sound(r, h) /\ Behind(r, h)
    BY <2>1, <2>3 DEF Sound, Behind
  <2> QED BY <1>2, <1>3, <2>1, <2>2, <2>3, <2>4, QuietStep
<1> QED BY <1>4, <1>5 DEF Parse

LEMMA ReadClockStep ==
    ASSUME IngestInv, NEW r \in Requests, ReadClock(r)
    PROVE  Handling /\ Safe'
<1> DEFINE h == Record("clock", handlers[r].at, now, handlers[r].reply)
<1>0. IngestTypeOK /\ HandlerSound /\ now \in 0..MaxTime /\ MaxTime \in Nat
  BY IngestAssumption DEF IngestInv, Safe, IngestTypeOK
<1>1. /\ At(r, "next") /\ handlers[r].at <= Len(Posted(r))
      /\ Key[Posted(r)[handlers[r].at]] # NoKey
  BY DEF ReadClock, AtEvent, Current
<1>2. Put(r, h)
  BY <1>0, StampFacts DEF ReadClock
<1>3. handlers[r].at \in Nat /\ handlers[r].at >= 1 /\ handlers[r].reply = "none"
  BY <1>0, <1>1, HandlerFacts DEF At, Sound
<1>4. now \in Nat /\ now <= MaxTime
  BY <1>0
<1>5. /\ h \in Post /\ h.step = "clock" /\ h.at = handlers[r].at /\ h.stamp = now
      /\ h.reply = "none"
  BY <1>3, <1>4, RecordFacts
<1> HIDE DEF h
<1>6. Sound(r, h) /\ Behind(r, h)
  BY <1>1, <1>3, <1>4, <1>5 DEF Sound, Behind, At
<1>7. ~At(r, "route")
  BY <1>1 DEF At
<1>8. UNCHANGED <<seen, admitted, repeats, handed, cut, told>>
  BY DEF ReadClock, history
<1> QED BY <1>2, <1>3, <1>5, <1>6, <1>7, <1>8, QuietStep

LEMMA AcceptStep ==
    ASSUME IngestInv, NEW r \in Requests, Accept(r)
    PROVE  Handling /\ Safe'
<1>0. IngestTypeOK /\ HandlerSound /\ BatchesCovered
  BY DEF IngestInv, Safe
<1>1. Reply(r, "accepted") /\ At(r, "next") /\ handlers[r].at > Len(Posted(r))
  BY DEF Accept
<1>2. UNCHANGED <<seen, admitted, repeats, handed, cut, told>>
  BY DEF Accept, history
<1>3. ~At(r, "route") /\ ~At(r, "reply") /\ ~At(r, "done")
  BY <1>1 DEF At
<1>4. ASSUME NEW i \in DOMAIN Posted(r) PROVE Covered(Posted(r)[i])
  <2>1. i < handlers[r].at
    BY <1>0, <1>1, RequestFacts, HandlerFacts
  <2> QED BY <1>0, <1>1, <2>1 DEF BatchesCovered, At
<1> QED BY <1>1, <1>2, <1>3, <1>4, ReplyStep

LEMMA EndStep ==
    ASSUME IngestInv, NEW r \in Requests, At(r, "reply"),
           handlers' = [handlers EXCEPT ![r] = End(r)],
           UNCHANGED <<seen, admitted, repeats, handed, cut>>
    PROVE  /\ Handling
           /\ told' = told => Safe'
           /\ HandlerSound' /\ SeenSound' /\ AdmissionsSound' /\ RepeatsSound'
           /\ KeysCovered' /\ BatchesCovered'
           /\ \A e \in Events : Covered(e) => Covered(e)'
           /\ \A s \in Senders : Ignored(s) => Ignored(s)'
           /\ handlers[r].reply = "ignored" => handlers'[r].reply = "ignored"
<1> DEFINE kept == IF handlers[r].reply = "ignored" THEN "ignored" ELSE "none"
           h == Record("done", 1, 0, kept)
<1>0. IngestTypeOK /\ HandlerSound /\ MaxTime \in Nat
  BY IngestAssumption DEF IngestInv, Safe
<1>1. Put(r, h)
  BY EndFacts DEF Put
<1>2. /\ h \in Post /\ h.step = "done" /\ h.at = 1 /\ h.stamp = 0
      /\ h.reply = kept
  BY DEF Record, Post
<1>3. kept # "accepted" /\ (handlers[r].reply = "ignored" => kept = "ignored")
  OBVIOUS
<1> HIDE DEF h, kept
<1>4. Sound(r, h) /\ Behind(r, h)
  BY <1>0, <1>2 DEF Sound, Behind
<1>5. ~At(r, "route")
  BY DEF At
<1>6. handlers[r].reply = "ignored" => handlers'[r].reply = "ignored"
  BY <1>0, <1>1, <1>2, <1>3, PutFacts DEF IngestTypeOK
<1> QED BY <1>1, <1>2, <1>3, <1>4, <1>5, <1>6, QuietStep

LEMMA LoseAnswerStep ==
    ASSUME IngestInv, NEW r \in Requests, LoseAnswer(r)
    PROVE  Handling /\ Safe'
<1>1. /\ At(r, "reply") /\ handlers' = [handlers EXCEPT ![r] = End(r)]
      /\ UNCHANGED <<seen, admitted, repeats, handed, cut, told>>
  BY DEF LoseAnswer, history
<1> QED BY <1>1, EndStep

LEMMA LearnStep ==
    ASSUME IngestInv, NEW r \in Requests, Learn(r)
    PROVE  Handling /\ Safe'
<1>0. IngestTypeOK /\ HandlerSound /\ BatchesCovered /\ AcceptedInHand
  BY DEF IngestInv, Safe
<1>1. /\ At(r, "reply") /\ handlers' = [handlers EXCEPT ![r] = End(r)]
      /\ UNCHANGED <<seen, admitted, repeats, handed, cut>>
  BY DEF Learn, history
<1>2. /\ Handling
      /\ HandlerSound' /\ SeenSound' /\ AdmissionsSound' /\ RepeatsSound'
      /\ KeysCovered' /\ BatchesCovered'
  BY <1>1, EndStep
<1>3. /\ \A e \in Events : Covered(e) => Covered(e)'
      /\ \A s \in Senders : Ignored(s) => Ignored(s)'
      /\ handlers[r].reply = "ignored" => handlers'[r].reply = "ignored"
  BY <1>1, EndStep
<1>4. /\ told \in [Senders -> {"nothing", "accepted", "refused"}]
      /\ told' = [told EXCEPT ![Sender(r)] =
                      IF @ = "nothing" THEN Final(Sender(r), handlers[r].reply) ELSE @]
  BY <1>0 DEF Learn, IngestTypeOK
<1>5. AcceptedInHand'
  <2> SUFFICES ASSUME NEW s \in Senders, told'[s] = "accepted", ~Ignored(s)',
                      NEW i \in DOMAIN Batch[s]
               PROVE  Covered(Batch[s][i])'
    BY DEF AcceptedInHand, Covered
  <2>1. Batch[s][i] \in Events
    BY IngestAssumption
  <2>2. CASE told[s] = "accepted"
    <3>1. Covered(Batch[s][i])
      BY <1>0, <1>3, <2>2 DEF AcceptedInHand, Covered
    <3> QED BY <1>3, <2>1, <3>1
  <2>3. CASE told[s] # "accepted"
    <3>1. s = Sender(r) /\ Final(Sender(r), handlers[r].reply) = "accepted"
      BY <1>4, <2>3, RequestFacts
    <3>2. handlers[r].reply \in {"accepted", "ignored"}
      BY <3>1 DEF Final
    <3>3. CASE handlers[r].reply = "ignored"
      <4>1. /\ r = <<s, r[2]>> /\ r[2] \in 1..Attempts[s]
            /\ handlers'[r].reply = "ignored"
        BY <1>3, <3>1, <3>3, RequestFacts DEF Sender
      <4>2. handlers'[<<s, r[2]>>].reply = "ignored"
        BY <4>1
      <4>3. Ignored(s)'
        BY <4>1, <4>2 DEF Ignored
      <4> QED BY <4>3
    <3>4. CASE handlers[r].reply = "accepted"
      <4>1. Posted(r) = Batch[s]
        BY <3>1 DEF Posted
      <4>2. Covered(Batch[s][i])
        BY <1>0, <3>4, <4>1 DEF BatchesCovered
      <4> QED BY <1>3, <2>1, <4>2
    <3> QED BY <3>2, <3>3, <3>4
  <2> QED BY <2>2, <2>3
<1> QED BY <1>2, <1>5 DEF Safe

-----------------------------------------------------------------------------
(* The steps that call the router.                                         *)

\* The event at work is handed over; the record goes on behind it, or ends.
LEMMA HandOver ==
    ASSUME IngestInv, NEW r \in Requests, ToRouter(r), NEW h \in Post, Put(r, h), Sound(r, h),
           h.step = "reply" \/ (h.step = "next" /\ h.at = handlers[r].at + 1),
           h.reply # "accepted",
           handed' = handed \cup {Current(r)},
           UNCHANGED <<seen, admitted, repeats, cut, told>>
    PROVE  Handling /\ Safe'
<1>0. /\ IngestTypeOK /\ handlers \in [Requests -> Post]
      /\ HandlerSound /\ SeenSound /\ AdmissionsSound /\ RepeatsSound
      /\ KeysCovered /\ BatchesCovered /\ AcceptedInHand
  BY DEF IngestInv, Safe, IngestTypeOK
<1>1. /\ handlers[r].step \in {"next", "route"} /\ handlers[r].at <= Len(Posted(r))
      /\ handlers[r].reply = "none" /\ handlers[r].at \in Nat
  <2>1. /\ handlers[r].at \in Nat /\ Sound(r, handlers[r])
        /\ handlers[r].step \notin {"reply", "done"} => handlers[r].reply = "none"
    BY <1>0, HandlerFacts
  <2>2. CASE handlers[r].step = "route"
    BY <2>1, <2>2 DEF Sound
  <2>3. CASE handlers[r].step = "next" /\ handlers[r].at <= Len(Posted(r))
    BY <2>1, <2>3
  <2>4. \/ handlers[r].step = "route"
        \/ handlers[r].step = "next" /\ handlers[r].at <= Len(Posted(r))
    BY DEF ToRouter, AtEvent, At
  <2> QED BY <2>2, <2>3, <2>4
<1>2. \A e \in Events : Covered(e) => Covered(e)'
  BY <1>0, CoveredStays
<1>3. Covers(r, h)
  <2> SUFFICES ASSUME NEW i \in DOMAIN Posted(r), h.step = "next", i < h.at
               PROVE  Covered(Posted(r)[i])'
    BY DEF Covers
  <2>1. Posted(r)[i] \in Events /\ i \in Nat
    BY RequestFacts
  <2>2. CASE i = handlers[r].at
    <3>1. Posted(r)[i] \in handed'
      BY <2>2 DEF Current
    <3> QED BY <2>1, <3>1 DEF Covered, Handed, Same, Posted, Sender
  <2>3. CASE i < handlers[r].at
    <3>1. Covered(Posted(r)[i])
      BY <1>0, <1>1, <2>3 DEF BatchesCovered
    <3> QED BY <1>2, <2>1, <3>1
  <2> QED BY <1>1, <2>1, <2>2, <2>3
<1>4. Handling
  BY <1>0, PutFacts DEF Handling
<1>5. HandlerSound'
  BY <1>0, PutSound
<1>6. BatchesCovered'
  BY <1>0, <1>2, <1>3, PutCovers
<1>7. KeysCovered'
  BY <1>0, <1>2, KeysStayCovered
<1>8. SeenSound' /\ AdmissionsSound' /\ RepeatsSound'
  BY <1>0, MemoryStays
<1>9. AcceptedInHand'
  <2>1. \A s \in Senders : Ignored(s) => Ignored(s)'
    BY <1>0, <1>1, IgnoredStays
  <2> QED BY <1>0, <1>2, <2>1, AcceptedStays
<1> QED BY <1>4, <1>5, <1>6, <1>7, <1>8, <1>9 DEF Safe

LEMMA RouteStep ==
    ASSUME IngestInv, NEW r \in Requests, Route(r)
    PROVE  Handling /\ Safe'
<1> DEFINE h == Record("next", handlers[r].at + 1, 0, "none")
<1>0. IngestTypeOK /\ HandlerSound /\ MaxTime \in Nat
  BY IngestAssumption DEF IngestInv, Safe
<1>1. Put(r, h)
  BY SkipFacts DEF Route
<1>2. handlers[r].at \in Nat
  BY <1>0, HandlerFacts
<1>3. /\ h \in Post /\ h.step = "next" /\ h.at = handlers[r].at + 1 /\ h.stamp = 0
      /\ h.reply = "none"
  BY <1>2 DEF Record, Post
<1> HIDE DEF h
<1>4. Sound(r, h)
  BY <1>0, <1>2, <1>3 DEF Sound
<1>5. /\ ToRouter(r) /\ handed' = handed \cup {Current(r)}
      /\ UNCHANGED <<seen, admitted, repeats, cut, told>>
  BY DEF Route
<1> QED BY <1>1, <1>3, <1>4, <1>5, HandOver

LEMMA RouteRaisesStep ==
    ASSUME IngestInv, NEW r \in Requests, RouteRaises(r)
    PROVE  Handling /\ Safe'
<1> DEFINE h == Record("reply", 1, 0, "failed")
<1>0. MaxTime \in Nat
  BY IngestAssumption
<1>1. Put(r, h)
  BY ReplyFacts DEF RouteRaises
<1>2. h \in Post /\ h.step = "reply" /\ h.at = 1 /\ h.stamp = 0 /\ h.reply = "failed"
  BY RecordFacts
<1> HIDE DEF h
<1>3. Sound(r, h)
  BY <1>0, <1>2 DEF Sound
<1>4. h.step = "reply" \/ (h.step = "next" /\ h.at = handlers[r].at + 1)
  BY <1>2
<1>5. h \in Post /\ h.reply # "accepted"
  BY <1>2
<1>6. /\ ToRouter(r) /\ handed' = handed \cup {Current(r)}
      /\ UNCHANGED <<seen, admitted, repeats, cut, told>>
  BY DEF RouteRaises
<1> QED BY <1>1, <1>3, <1>4, <1>5, <1>6, HandOver

-----------------------------------------------------------------------------
(* The steps that look for a repetition.                                   *)

LEMMA ClockFacts ==
    ASSUME IngestInv, NEW r \in Requests, At(r, "clock")
    PROVE  /\ Current(r) \in Events
           /\ Key[Current(r)] \in Keys
           /\ handlers[r].stamp \in 0..MaxTime
           /\ handlers[r].at \in Nat /\ handlers[r].at >= 1
           /\ handlers[r].at <= Len(Posted(r))
           /\ handlers[r].reply = "none"
<1>0. IngestTypeOK /\ HandlerSound
  BY DEF IngestInv, Safe
<1>1. /\ handlers[r].at \in Nat /\ handlers[r].stamp \in 0..MaxTime
      /\ handlers[r].step \notin {"reply", "done"} => handlers[r].reply = "none"
      /\ Sound(r, handlers[r])
  BY <1>0, HandlerFacts
<1>2. handlers[r].step = "clock"
  BY DEF At
<1>3. /\ handlers[r].at >= 1 /\ handlers[r].at <= Len(Posted(r))
      /\ Key[Current(r)] # NoKey
  BY <1>1, <1>2 DEF Sound, Current
<1>4. Current(r) \in Events /\ Key[Current(r)] \in Keys
  BY <1>0, <1>3, CurrentFacts
<1>5. handlers[r].reply = "none"
  BY <1>1, <1>2
<1> QED BY <1>1, <1>3, <1>4, <1>5

\* What is forgotten is a window old.
LEMMA RememberedFacts ==
    ASSUME IngestTypeOK, NEW stamp \in 0..MaxTime, NEW k \in Keys
    PROVE  /\ Remembered(stamp)[k] = seen[k] \/ Remembered(stamp)[k] = Never
           /\ Remembered(stamp)[k] = Never =>
                  seen[k] = Never \/ (seen[k] \in 0..MaxTime /\ stamp - seen[k] >= Window)
           /\ Remembered(stamp)[k] # Never =>
                  /\ seen[k] # Never /\ seen[k] \in 0..MaxTime
                  /\ stamp - seen[k] < Window
<1>1. MaxTime \in Nat /\ Window \in Nat /\ Never \notin Nat
  BY IngestAssumption
<1>2. seen[k] \in (0..MaxTime) \cup {Never}
  BY DEF IngestTypeOK
<1>3. Remembered(stamp)[k] = IF seen[k] # Never /\ stamp - seen[k] < Window
                             THEN seen[k] ELSE Never
  BY DEF Remembered
<1>4. CASE seen[k] = Never
  BY <1>3, <1>4
<1>5. CASE seen[k] \in 0..MaxTime
  BY <1>1, <1>3, <1>5
<1> QED BY <1>2, <1>4, <1>5

LEMMA AdmitMemory ==
    ASSUME IngestInv, NEW r \in Requests, Admit(r)
    PROVE  SeenSound' /\ AdmissionsSound' /\ RepeatsSound'
<1> DEFINE key == Key[Current(r)]
           t == handlers[r].stamp
<1>0. /\ IngestTypeOK /\ SeenSound /\ AdmissionsSound /\ RepeatsSound
      /\ MaxTime \in Nat /\ Window \in Nat /\ Never \notin Nat
      /\ seen \in [Keys -> (0..MaxTime) \cup {Never}]
      /\ admitted \in [Keys -> Seq(0..MaxTime)]
  BY IngestAssumption DEF IngestInv, Safe, IngestTypeOK
<1>1. At(r, "clock")
  BY DEF Admit
<1>2. key \in Keys /\ t \in 0..MaxTime
  BY <1>1, ClockFacts
<1>3. /\ Remembered(t)[key] = Never
      /\ seen' = [Remembered(t) EXCEPT ![key] = t]
      /\ admitted' = [admitted EXCEPT ![key] = Append(@, t)]
      /\ repeats' = repeats
  BY DEF Admit
<1> HIDE DEF key, t
<1>4. /\ t # Never /\ t \in Nat
      /\ seen'[key] = t
      /\ \A k \in Keys : k # key => seen'[k] = Remembered(t)[k]
  BY <1>0, <1>2, <1>3 DEF Remembered
<1>5. /\ \A k \in Keys : k # key => admitted'[k] = admitted[k]
      /\ admitted'[key] = Append(admitted[key], t)
  <2>1. /\ admitted \in [Keys -> Seq(0..MaxTime)] /\ key \in Keys
        /\ admitted' = [admitted EXCEPT ![key] = Append(@, t)]
    BY <1>0, <1>2, <1>3
  <2> QED BY ONLY <2>1
<1>6. \A k \in Keys : admitted[k] \in Seq(0..MaxTime)
  BY <1>0
<1>7. /\ Len(admitted'[key]) = Len(admitted[key]) + 1
      /\ admitted'[key][Len(admitted[key]) + 1] = t
      /\ admitted'[key] # <<>>
      /\ DOMAIN admitted'[key] = 1..(Len(admitted[key]) + 1)
      /\ \A i \in DOMAIN admitted[key] : admitted'[key][i] = admitted[key][i]
  BY <1>2, <1>5, <1>6
<1>8. \A k \in Keys : \A i \in DOMAIN admitted[k] :
          i \in DOMAIN admitted'[k] /\ admitted'[k][i] = admitted[k][i]
  <2> SUFFICES ASSUME NEW k \in Keys, NEW i \in DOMAIN admitted[k]
               PROVE  i \in DOMAIN admitted'[k] /\ admitted'[k][i] = admitted[k][i]
    OBVIOUS
  <2>1. CASE k = key
    <3>1. i \in 1..Len(admitted[key]) /\ Len(admitted[key]) \in Nat
      BY <1>2, <1>6, <2>1
    <3>2. i \in 1..(Len(admitted[key]) + 1)
      BY <3>1
    <3> QED BY <1>7, <2>1, <3>2
  <2>2. CASE k # key
    BY <1>5, <2>2
  <2> QED BY <2>1, <2>2
<1>9. ASSUME NEW u \in Nat, PassedSince(u) PROVE PassedSince(u)'
  <2>1. CASE \E k \in Keys : \E i \in DOMAIN admitted[k] : admitted[k][i] - u >= Window
    BY <1>8, <2>1 DEF PassedSince, Keys
  <2>2. CASE \E e \in Events : \E n \in repeats[e] : n - u >= Window
    BY <1>3, <2>2 DEF PassedSince
  <2> QED BY <1>9, <2>1, <2>2 DEF PassedSince
<1>10. SeenSound'
  <2> SUFFICES ASSUME NEW k \in Keys, seen'[k] # Never
               PROVE  admitted'[k] # <<>> /\ admitted'[k][Len(admitted'[k])] = seen'[k]
    BY DEF SeenSound, Keys
  <2>1. CASE k = key
    BY <1>4, <1>7, <2>1
  <2>2. CASE k # key
    <3>1. seen'[k] = seen[k]
      BY <1>0, <1>2, <1>4, <2>2, RememberedFacts
    <3> QED BY <1>0, <1>5, <2>2, <3>1 DEF SeenSound
  <2> QED BY <2>1, <2>2
<1>11. ASSUME NEW k \in Keys, NEW i \in DOMAIN admitted[k],
              k = key \/ Remembered(t)[k] = Never,
              NEW u \in Nat, u = admitted[k][i]
       PROVE  PassedSince(u)'
  <2>2. CASE PassedSince(u)
    BY <1>9, <2>2
  <2>3. CASE i = Len(admitted[k]) /\ seen[k] # Never
    <3>1. u = seen[k]
      BY <1>0, <1>11, <2>3 DEF SeenSound
    <3>2. Remembered(t)[k] = Never
      BY <1>3, <1>11
    <3>3. t - u >= Window
      BY <1>0, <1>2, <2>3, <3>1, <3>2, RememberedFacts
    <3>4. Len(admitted[key]) + 1 \in DOMAIN admitted'[key]
      BY <1>2, <1>6, <1>7
    <3> QED BY <1>2, <1>7, <3>3, <3>4 DEF PassedSince, Keys
  <2>4. PassedSince(u) \/ (i = Len(admitted[k]) /\ seen[k] # Never)
    BY <1>0, <1>11 DEF AdmissionsSound
  <2> QED BY <2>2, <2>3, <2>4
<1>12. AdmissionsSound'
  <2> SUFFICES ASSUME NEW k \in Keys, NEW i \in DOMAIN admitted'[k],
                      NEW u, u = admitted'[k][i]
               PROVE  \/ PassedSince(u)'
                      \/ i = Len(admitted'[k]) /\ seen'[k] # Never
    BY DEF AdmissionsSound, PassedSince, Keys
  <2>1. CASE k = key /\ i = Len(admitted[key]) + 1
    BY <1>4, <1>7, <2>1
  <2>2. CASE k # key \/ i # Len(admitted[key]) + 1
    <3>1. i \in DOMAIN admitted[k] /\ u = admitted[k][i]
      BY <1>2, <1>5, <1>6, <1>7, <1>8, <2>2
    <3>2. u \in Nat
      BY <1>0, <1>6, <3>1
    <3>3. CASE k = key \/ Remembered(t)[k] = Never
      BY <1>11, <3>1, <3>2, <3>3
    <3>4. CASE k # key /\ Remembered(t)[k] # Never
      <4>1. seen'[k] = seen[k] /\ seen'[k] # Never /\ admitted'[k] = admitted[k]
        BY <1>0, <1>2, <1>4, <1>5, <3>4, RememberedFacts
      <4>2. PassedSince(u) \/ i = Len(admitted[k])
        BY <1>0, <3>1 DEF AdmissionsSound
      <4> QED BY <1>9, <3>2, <4>1, <4>2
    <3> QED BY <3>3, <3>4
  <2> QED BY <2>1, <2>2
<1>13. RepeatsSound'
  <2> SUFFICES ASSUME NEW e \in Events, NEW n \in repeats[e]
               PROVE  /\ Key[e] # NoKey
                      /\ \E i \in DOMAIN admitted'[Key[e]] :
                             n - admitted'[Key[e]][i] < Window
    BY <1>3 DEF RepeatsSound
  <2>1. /\ Key[e] # NoKey
        /\ \E i \in DOMAIN admitted[Key[e]] : n - admitted[Key[e]][i] < Window
    BY <1>0 DEF RepeatsSound
  <2>2. Key[e] \in Keys
    BY <2>1 DEF Keys
  <2> QED BY <1>8, <2>1, <2>2
<1> QED BY <1>10, <1>12, <1>13

LEMMA AdmitStep ==
    ASSUME IngestInv, NEW r \in Requests, Admit(r)
    PROVE  Handling /\ Safe'
<1> DEFINE h == Record("route", handlers[r].at, 0, handlers[r].reply)
           key == Key[Current(r)]
<1>0. /\ IngestTypeOK /\ handlers \in [Requests -> Post] /\ MaxTime \in Nat
      /\ HandlerSound /\ KeysCovered /\ BatchesCovered /\ AcceptedInHand
      /\ admitted \in [Keys -> Seq(0..MaxTime)]
  BY IngestAssumption DEF IngestInv, Safe, IngestTypeOK
<1>1. /\ At(r, "clock") /\ handed' = handed /\ cut' = cut /\ told' = told
      /\ admitted' = [admitted EXCEPT ![key] = Append(@, handlers[r].stamp)]
      /\ handlers' = [handlers EXCEPT ![r].step = "route", ![r].stamp = 0]
  BY DEF Admit
<1>2. /\ Current(r) \in Events /\ key \in Keys
      /\ handlers[r].at \in Nat /\ handlers[r].at >= 1
      /\ handlers[r].at <= Len(Posted(r)) /\ handlers[r].reply = "none"
  BY <1>1, ClockFacts
<1>3. Put(r, h)
  BY <1>0, <1>1, StampFacts
<1>4. /\ h \in Post /\ h.step = "route" /\ h.at = handlers[r].at /\ h.stamp = 0
      /\ h.reply = "none"
  BY <1>2 DEF Record, Post
<1> HIDE DEF h
<1>5. Sound(r, h) /\ Behind(r, h)
  BY <1>0, <1>1, <1>2, <1>4 DEF Sound, Behind, At
<1>6. ~At(r, "route")
  BY <1>1 DEF At
<1>7. \A e \in Events : Covered(e) => Covered(e)'
  BY <1>0, <1>1, <1>3, <1>4, <1>6, CoveredStays
<1>8. Handling /\ HandlerSound'
  BY <1>0, <1>3, <1>4, <1>5, PutFacts, PutSound DEF Handling
<1>9. BatchesCovered'
  <2>1. Covers(r, h)
    BY <1>4, <1>5, <1>7, BehindCovers
  <2> QED BY <1>0, <1>3, <1>4, <1>7, <2>1, PutCovers
<1>10. KeysCovered'
  <2> SUFFICES ASSUME NEW k \in Keys, admitted'[k] # <<>>
               PROVE  \E e \in Events : Key[e] = k /\ Covered(e)'
    BY DEF KeysCovered, Keys
  <2>1. CASE k = key
    <3>1. handlers'[r] = h
      BY <1>0, <1>3, <1>4, PutFacts
    <3>2. At(r, "route")' /\ Current(r)' = Current(r)
      BY <1>4, <3>1 DEF At, Current, Posted, Sender
    <3>3. \E q \in Requests : At(q, "route")' /\ Same(Current(r), Current(q)')
      BY <3>2 DEF Same
    <3>4. ASSUME NEW e, e = Current(r) PROVE Covered(e)'
      BY <3>3, <3>4 DEF Covered, InHand, Same
    <3> QED BY <1>2, <2>1, <3>4
  <2>2. CASE k # key
    <3>1. admitted[k] # <<>>
      BY <1>0, <1>1, <2>2
    <3>2. PICK e \in Events : Key[e] = k /\ Covered(e)
      BY <1>0, <3>1 DEF KeysCovered
    <3> QED BY <1>7, <3>2
  <2> QED BY <2>1, <2>2
<1>11. AcceptedInHand'
  <2>1. \A s \in Senders : Ignored(s) => Ignored(s)'
    BY <1>0, <1>2, <1>3, <1>4, IgnoredStays
  <2> QED BY <1>0, <1>1, <1>7, <2>1, AcceptedStays
<1> QED BY <1>8, <1>9, <1>10, <1>11, AdmitMemory DEF Safe

LEMMA RepeatMemory ==
    ASSUME IngestInv, NEW r \in Requests, Repeat(r)
    PROVE  SeenSound' /\ AdmissionsSound' /\ RepeatsSound'
<1> DEFINE f == Current(r)
           t == handlers[r].stamp
<1>0. /\ IngestTypeOK /\ SeenSound /\ AdmissionsSound /\ RepeatsSound
      /\ MaxTime \in Nat /\ Window \in Nat /\ Never \notin Nat
      /\ admitted \in [Keys -> Seq(0..MaxTime)]
      /\ repeats \in [Events -> SUBSET (0..MaxTime)]
  BY IngestAssumption DEF IngestInv, Safe, IngestTypeOK
<1>1. At(r, "clock")
  BY DEF Repeat
<1>2. f \in Events /\ Key[f] \in Keys /\ t \in 0..MaxTime
  BY <1>1, ClockFacts
<1>3. /\ Remembered(t)[Key[f]] # Never
      /\ seen' = Remembered(t)
      /\ repeats' = [repeats EXCEPT ![f] = @ \cup {t}]
      /\ admitted' = admitted
  BY DEF Repeat
<1> HIDE DEF f, t
<1>4. /\ \A e \in Events : e # f => repeats'[e] = repeats[e]
      /\ repeats'[f] = repeats[f] \cup {t}
  BY <1>0, <1>2, <1>3
<1>5. ASSUME NEW u \in Nat, PassedSince(u) PROVE PassedSince(u)'
  BY <1>3, <1>4, <1>5 DEF PassedSince, Keys
<1>6. SeenSound'
  <2> SUFFICES ASSUME NEW k \in Keys, seen'[k] # Never
               PROVE  admitted'[k] # <<>> /\ admitted'[k][Len(admitted'[k])] = seen'[k]
    BY DEF SeenSound, Keys
  <2>1. seen'[k] = seen[k]
    BY <1>0, <1>2, <1>3, RememberedFacts
  <2> QED BY <1>0, <1>3, <2>1 DEF SeenSound
<1>7. AdmissionsSound'
  <2> SUFFICES ASSUME NEW k \in Keys, NEW i \in DOMAIN admitted[k],
                      NEW u, u = admitted[k][i]
               PROVE  \/ PassedSince(u)'
                      \/ i = Len(admitted[k]) /\ seen'[k] # Never
    BY <1>3 DEF AdmissionsSound, PassedSince, Keys
  <2>1. u \in Nat
    BY <1>0
  <2>2. CASE PassedSince(u)
    BY <1>5, <2>1, <2>2
  <2>3. CASE i = Len(admitted[k]) /\ seen[k] # Never
    <3>1. u = seen[k]
      BY <1>0, <2>3 DEF SeenSound
    <3>2. CASE Remembered(t)[k] = Never
      <4>1. t - u >= Window
        BY <1>0, <1>2, <2>3, <3>1, <3>2, RememberedFacts
      <4>2. t \in repeats'[f]
        BY <1>4
      <4> QED BY <1>2, <4>1, <4>2 DEF PassedSince
    <3>3. CASE Remembered(t)[k] # Never
      BY <1>3, <2>3, <3>3
    <3> QED BY <3>2, <3>3
  <2>4. PassedSince(u) \/ (i = Len(admitted[k]) /\ seen[k] # Never)
    BY <1>0 DEF AdmissionsSound
  <2> QED BY <2>2, <2>3, <2>4
<1>8. RepeatsSound'
  <2> SUFFICES ASSUME NEW e \in Events, NEW n \in repeats'[e]
               PROVE  /\ Key[e] # NoKey
                      /\ \E i \in DOMAIN admitted[Key[e]] : n - admitted[Key[e]][i] < Window
    BY <1>3 DEF RepeatsSound
  <2>1. CASE n \in repeats[e]
    BY <1>0, <2>1 DEF RepeatsSound
  <2>2. CASE e = f /\ n = t
    <3>1. /\ seen[Key[f]] # Never /\ seen[Key[f]] \in 0..MaxTime
          /\ t - seen[Key[f]] < Window
      BY <1>0, <1>2, <1>3, RememberedFacts
    <3>2. /\ admitted[Key[f]] # <<>>
          /\ admitted[Key[f]][Len(admitted[Key[f]])] = seen[Key[f]]
      BY <1>0, <1>2, <3>1 DEF SeenSound
    <3>3. admitted[Key[f]] \in Seq(0..MaxTime)
      BY <1>0, <1>2
    <3>4. Len(admitted[Key[f]]) \in DOMAIN admitted[Key[f]]
      BY <3>2, <3>3, EmptySeq, LenProperties
    <3>5. Key[f] # NoKey
      BY <1>2 DEF Keys
    <3> QED BY <2>2, <3>1, <3>2, <3>4, <3>5
  <2>3. n \in repeats[e] \/ (e = f /\ n = t)
    BY <1>4
  <2> QED BY <2>1, <2>2, <2>3
<1> QED BY <1>6, <1>7, <1>8

LEMMA RepeatStep ==
    ASSUME IngestInv, NEW r \in Requests, Repeat(r)
    PROVE  Handling /\ Safe'
<1> DEFINE h == Record("next", handlers[r].at + 1, 0, "none")
<1>0. /\ IngestTypeOK /\ handlers \in [Requests -> Post] /\ MaxTime \in Nat
      /\ HandlerSound /\ KeysCovered /\ BatchesCovered /\ AcceptedInHand
      /\ SeenSound
  BY IngestAssumption DEF IngestInv, Safe, IngestTypeOK
<1>1. /\ At(r, "clock") /\ handed' = handed /\ cut' = cut /\ told' = told
      /\ admitted' = admitted /\ Skip(r)
      /\ Remembered(handlers[r].stamp)[Key[Current(r)]] # Never
  BY DEF Repeat
<1>2. /\ Current(r) \in Events /\ Key[Current(r)] \in Keys
      /\ handlers[r].stamp \in 0..MaxTime
      /\ handlers[r].at \in Nat /\ handlers[r].at >= 1
      /\ handlers[r].at <= Len(Posted(r)) /\ handlers[r].reply = "none"
  BY <1>1, ClockFacts
<1>3. Put(r, h)
  BY <1>1, SkipFacts
<1>4. /\ h \in Post /\ h.step = "next" /\ h.at = handlers[r].at + 1 /\ h.stamp = 0
      /\ h.reply = "none"
  BY <1>2 DEF Record, Post
<1> HIDE DEF h
<1>5. Sound(r, h)
  BY <1>0, <1>2, <1>4 DEF Sound
<1>6. ~At(r, "route")
  BY <1>1 DEF At
<1>7. \A e \in Events : Covered(e) => Covered(e)'
  BY <1>0, <1>1, <1>3, <1>4, <1>6, CoveredStays
<1>8. Handling /\ HandlerSound'
  BY <1>0, <1>3, <1>4, <1>5, PutFacts, PutSound DEF Handling
<1>9. Covered(Current(r))
  <2>1. admitted[Key[Current(r)]] # <<>>
    BY <1>0, <1>1, <1>2, RememberedFacts DEF SeenSound
  <2>2. PICK e \in Events : Key[e] = Key[Current(r)] /\ Covered(e)
    BY <1>0, <1>2, <2>1 DEF KeysCovered
  <2>3. Same(Current(r), e)
    BY <1>2, <2>2 DEF Same, Keys
  <2> QED BY <1>2, <2>2, <2>3, CoveredSame
<1>10. Covers(r, h)
  <2> SUFFICES ASSUME NEW i \in DOMAIN Posted(r), i < h.at
               PROVE  Covered(Posted(r)[i])'
    BY <1>4 DEF Covers
  <2>1. Posted(r)[i] \in Events /\ i \in Nat
    BY RequestFacts
  <2>2. Covered(Posted(r)[i])
    <3>1. CASE i = handlers[r].at
      BY <1>9, <3>1 DEF Current
    <3>2. CASE i < handlers[r].at
      BY <1>0, <1>1, <3>2 DEF BatchesCovered, At
    <3> QED BY <1>2, <1>4, <2>1, <3>1, <3>2
  <2> QED BY <1>7, <2>1, <2>2
<1>11. BatchesCovered'
  BY <1>0, <1>3, <1>4, <1>7, <1>10, PutCovers
<1>12. KeysCovered'
  BY <1>0, <1>1, <1>7, KeysStayCovered
<1>13. AcceptedInHand'
  <2>1. \A s \in Senders : Ignored(s) => Ignored(s)'
    BY <1>0, <1>2, <1>3, <1>4, IgnoredStays
  <2> QED BY <1>0, <1>1, <1>7, <2>1, AcceptedStays
<1> QED BY <1>8, <1>11, <1>12, <1>13, RepeatMemory DEF Safe

-----------------------------------------------------------------------------
(* The process and its clock.                                              *)

LEMMA StopStep ==
    ASSUME IngestInv, Stop
    PROVE  Handling /\ Safe'
<1>0. /\ IngestTypeOK /\ handlers \in [Requests -> Post] /\ MaxTime \in Nat
      /\ HandlerSound /\ AcceptedInHand
  BY IngestAssumption DEF IngestInv, Safe, IngestTypeOK
<1>1. /\ seen' = [k \in Keys |-> Never]
      /\ admitted' = [k \in Keys |-> <<>>]
      /\ repeats' = [e \in Events |-> {}]
      /\ handed' = handed /\ told' = told
      /\ cut' = cut \cup {Current(r) : r \in {q \in Requests : At(q, "route")}}
  BY DEF Stop
<1>2. ASSUME NEW r \in Requests
      PROVE  /\ handlers'[r] \in Post
             /\ handlers'[r].step \in {"unused", "done"}
             /\ handlers'[r].at = 1 /\ handlers'[r].stamp = 0
             /\ handlers'[r].reply \in {"none", "ignored"}
             /\ handlers[r].reply = "ignored" => handlers'[r].reply = "ignored"
             /\ handlers'[r].reply = "ignored" => handlers'[r].step = "done"
  <2> DEFINE kept == IF handlers[r].reply = "ignored" THEN "ignored" ELSE "none"
  <2>1. handlers'[r] = IF At(r, "unused") THEN Unused ELSE End(r)
    BY DEF Stop
  <2>2. CASE At(r, "unused")
    <3>1. handlers[r].reply = "none"
      BY <1>0, <2>2, HandlerFacts DEF At
    <3> QED BY <2>1, <2>2, <3>1 DEF Unused, Post
  <2>3. CASE ~At(r, "unused")
    <3>1. handlers'[r] = Record("done", 1, 0, kept)
      BY <2>1, <2>3, EndFacts
    <3>2. /\ kept \in {"none", "ignored"}
          /\ handlers[r].reply = "ignored" => kept = "ignored"
      OBVIOUS
    <3> HIDE DEF kept
    <3> QED BY <3>1, <3>2 DEF Record, Post
  <2> QED BY <2>2, <2>3
<1>3. Handling
  <2>1. handlers' = [r \in Requests |-> IF At(r, "unused") THEN Unused ELSE End(r)]
    BY DEF Stop
  <2> QED BY <1>2, <2>1 DEF Handling
<1>4. HandlerSound'
  <2> SUFFICES ASSUME NEW r \in Requests PROVE Sound(r, handlers[r])'
    BY DEF HandlerSound
  <2> QED BY <1>0, <1>2 DEF Sound
<1>5. SeenSound' /\ AdmissionsSound' /\ RepeatsSound' /\ KeysCovered'
  BY <1>1 DEF SeenSound, AdmissionsSound, RepeatsSound, KeysCovered, Keys
<1>6. BatchesCovered'
  BY <1>2 DEF BatchesCovered
<1>7. ASSUME NEW e \in Events, Covered(e) PROVE Covered(e)'
  <2>1. CASE Handed(e)
    BY <1>1, <2>1 DEF Covered, Handed, Same
  <2>2. CASE Lost(e)
    BY <1>1, <2>2 DEF Covered, Lost, Same
  <2>3. CASE InHand(e)
    <3>1. PICK q \in Requests : At(q, "route") /\ Same(e, Current(q))
      BY <2>3 DEF InHand
    <3>2. Current(q) \in cut'
      BY <1>1, <3>1
    <3> QED BY <3>1, <3>2 DEF Covered, Lost, Same
  <2> QED BY <1>7, <2>1, <2>2, <2>3 DEF Covered
<1>8. ASSUME NEW s \in Senders, Ignored(s) PROVE Ignored(s)'
  <2>1. PICK k \in 1..Attempts[s] : handlers[<<s, k>>].reply = "ignored"
    BY <1>8 DEF Ignored
  <2>2. <<s, k>> \in Requests
    BY DEF Requests
  <2>3. handlers'[<<s, k>>].reply = "ignored"
    BY <1>2, <2>1, <2>2
  <2> QED BY <2>3 DEF Ignored
<1>9. AcceptedInHand'
  BY <1>0, <1>1, <1>7, <1>8, AcceptedStays
<1> QED BY <1>3, <1>4, <1>5, <1>6, <1>9 DEF Safe

\* Steps that leave the requests and the histories alone.
LEMMA IdleStep ==
    ASSUME IngestInv,
           UNCHANGED <<handlers, told, seen, admitted, repeats, handed, cut>>
    PROVE  Handling /\ Safe'
<1>1. /\ handlers \in [Requests -> Post] /\ Safe
  BY DEF IngestInv, IngestTypeOK
<1>2. Handling
  BY <1>1 DEF Handling
<1>3. HandlerSound'
  BY <1>1 DEF Safe, HandlerSound, Sound
<1>4. SeenSound' /\ AdmissionsSound' /\ RepeatsSound'
  BY <1>1, MemoryStays DEF Safe
<1>5. \A e \in Events : Covered(e) => Covered(e)'
  BY DEF Covered, Handed, InHand, Lost, Same, At, Current, Posted, Sender
<1>6. KeysCovered'
  BY <1>1, <1>5, KeysStayCovered DEF Safe
<1>7. \A s \in Senders : Ignored(s) => Ignored(s)'
  BY DEF Ignored
<1>8. AcceptedInHand'
  BY <1>1, <1>5, <1>7, AcceptedStays DEF Safe
<1>9. BatchesCovered'
  <2> SUFFICES ASSUME NEW r \in Requests, NEW i \in DOMAIN Posted(r),
                      \/ /\ handlers[r].step \in {"next", "clock", "route"}
                         /\ i < handlers[r].at
                      \/ handlers[r].reply = "accepted"
               PROVE  Covered(Posted(r)[i])'
    BY DEF BatchesCovered, Posted, Sender
  <2>1. Covered(Posted(r)[i])
    BY <1>1 DEF Safe, BatchesCovered
  <2>2. Posted(r)[i] \in Events
    BY RequestFacts
  <2> QED BY <1>5, <2>1, <2>2
<1> QED BY <1>2, <1>3, <1>4, <1>6, <1>8, <1>9 DEF Safe

\* Each step is one of a request, a stop or a tick.
LEMMA NextSafe ==
    ASSUME IngestInv, Next
    PROVE  Handling /\ Safe'
<1>1. CASE \E r \in Requests : PostBatch(r[1], r[2])
  BY <1>1, PostBatchStep
<1>2. CASE \E r \in Requests : Learn(r) \/ LoseAnswer(r)
  BY <1>2, LearnStep, LoseAnswerStep
<1>3. CASE \E r \in Requests : Handle(r)
  <2>1. PICK r \in Requests : Handle(r)
    BY <1>3
  <2>2. CASE ReadLimitClock(r) \/ Allow(r) \/ Limit(r)
    BY <2>2, ReadLimitClockStep, AllowStep, LimitStep
  <2>3. CASE Ignore(r) \/ Parse(r) \/ ReadClock(r)
    BY <2>3, IgnoreStep, ParseStep, ReadClockStep
  <2>4. CASE Admit(r) \/ Repeat(r)
    BY <2>4, AdmitStep, RepeatStep
  <2>5. CASE Route(r) \/ RouteRaises(r) \/ Accept(r)
    BY <2>5, RouteStep, RouteRaisesStep, AcceptStep
  <2> QED BY <2>1, <2>2, <2>3, <2>4, <2>5 DEF Handle
<1>4. CASE Stop
  BY <1>4, StopStep
<1>5. CASE Tick
  <2>1. UNCHANGED <<handlers, told, seen, admitted, repeats, handed, cut>>
    BY <1>5 DEF Tick, process, history
  <2> QED BY <2>1, IdleStep
<1> QED BY <1>1, <1>2, <1>3, <1>4, <1>5 DEF Next

-----------------------------------------------------------------------------
(* Types.                                                                  *)

LEMMA WindowFacts ==
    ASSUME IngestTypeOK, NEW t \in Nat, NEW c \in Callers
    PROVE  /\ Kept(t) \in [Callers -> Entry \cup {Never}]
           /\ CurrentWindow(c, t) \in Entry
<1>1. Kept(t) \in [Callers -> Entry \cup {Never}]
  BY DEF Kept, IngestTypeOK
<1>2. [count |-> 0, started |-> t] \in Entry
  BY DEF Entry
<1>3. Kept(t)[c] # Never => Kept(t)[c] \in Entry
  BY <1>1
<1>4. \/ CurrentWindow(c, t) = Kept(t)[c] /\ Kept(t)[c] # Never
      \/ CurrentWindow(c, t) = [count |-> 0, started |-> t]
  BY DEF CurrentWindow
<1> QED BY <1>1, <1>2, <1>3, <1>4

LEMMA LimiterTypes ==
    ASSUME IngestInv, NEW r \in Requests, Allow(r) \/ Limit(r)
    PROVE  /\ windows' \in [Callers -> Entry \cup {Never}]
           /\ passed' \in [Callers -> Seq(0..MaxTime)]
           /\ refusals' \in [Callers -> SUBSET Refusal]
           /\ late' \subseteq Callers
<1> DEFINE c == Caller[Sender(r)]
           t == handlers[r].stamp
           w == CurrentWindow(c, t)
<1>0. /\ IngestTypeOK /\ HandlerSound
      /\ now \in 0..MaxTime /\ late \subseteq Callers
      /\ passed \in [Callers -> Seq(0..MaxTime)]
      /\ refusals \in [Callers -> SUBSET Refusal]
  BY DEF IngestInv, Safe, IngestTypeOK
<1>1. At(r, "timed")
  BY DEF Allow, Limit
<1>2. Sender(r) \in Limited /\ t \in Nat
  BY <1>0, <1>1, HandlerFacts DEF At, Sound
<1>3. c \in Callers
  BY <1>2, IngestAssumption
<1>4. Kept(t) \in [Callers -> Entry \cup {Never}] /\ w \in Entry
  BY <1>0, <1>2, <1>3, WindowFacts
<1>5. Late(r) \subseteq Callers
  BY <1>3 DEF Late
<1>6. CASE Allow(r)
  <2>1. /\ windows' = [Kept(t) EXCEPT ![c] = [w EXCEPT !.count = @ + 1]]
        /\ passed' = [passed EXCEPT ![c] = Append(@, now)]
        /\ refusals' = refusals /\ late' = late \cup Late(r)
    BY <1>6 DEF Allow
  <2> HIDE DEF c, t, w
  <2>2. [w EXCEPT !.count = @ + 1] \in Entry
    BY <1>4 DEF Entry
  <2>3. windows' \in [Callers -> Entry \cup {Never}]
    BY <1>3, <1>4, <2>1, <2>2
  <2>4. passed[c] \in Seq(0..MaxTime)
    BY <1>0, <1>3
  <2>5. Append(passed[c], now) \in Seq(0..MaxTime)
    BY <1>0, <2>4, AppendProperties
  <2>6. passed' \in [Callers -> Seq(0..MaxTime)]
    BY <1>0, <1>3, <2>1, <2>5
  <2> QED BY <1>0, <1>5, <2>1, <2>3, <2>6
<1>7. CASE Limit(r)
  <2>1. /\ windows' = [Kept(t) EXCEPT ![c] = w]
        /\ refusals' = [refusals EXCEPT ![c] = @ \cup {Refused(c)}]
        /\ passed' = passed /\ late' = late \cup Late(r)
    BY <1>7 DEF Limit
  <2>2. Refused(c) \in Refusal
    BY <1>0, <1>3 DEF Refused, Refusal
  <2> HIDE DEF c, t, w
  <2> QED BY <1>0, <1>3, <1>4, <1>5, <2>1, <2>2
<1> QED BY <1>6, <1>7

LEMMA MemoryTypes ==
    ASSUME IngestInv, NEW r \in Requests, Admit(r) \/ Repeat(r)
    PROVE  /\ seen' \in [Keys -> (0..MaxTime) \cup {Never}]
           /\ admitted' \in [Keys -> Seq(0..MaxTime)]
           /\ repeats' \in [Events -> SUBSET (0..MaxTime)]
<1> DEFINE t == handlers[r].stamp
           key == Key[Current(r)]
<1>0. /\ IngestTypeOK
      /\ admitted \in [Keys -> Seq(0..MaxTime)]
      /\ repeats \in [Events -> SUBSET (0..MaxTime)]
  BY DEF IngestInv, IngestTypeOK
<1>1. At(r, "clock")
  BY DEF Admit, Repeat
<1>2. Current(r) \in Events /\ key \in Keys /\ t \in 0..MaxTime
  BY <1>1, ClockFacts
<1>3. Remembered(t) \in [Keys -> (0..MaxTime) \cup {Never}]
  BY <1>0 DEF Remembered, IngestTypeOK
<1>4. CASE Admit(r)
  <2>1. /\ seen' = [Remembered(t) EXCEPT ![key] = t]
        /\ admitted' = [admitted EXCEPT ![key] = Append(@, t)]
        /\ repeats' = repeats
    BY <1>4 DEF Admit
  <2> HIDE DEF t, key
  <2>2. Append(admitted[key], t) \in Seq(0..MaxTime)
    BY <1>0, <1>2, AppendProperties
  <2> QED BY <1>0, <1>2, <1>3, <2>1, <2>2
<1>5. CASE Repeat(r)
  <2>1. /\ seen' = Remembered(t)
        /\ admitted' = admitted
        /\ repeats' = [repeats EXCEPT ![Current(r)] = @ \cup {t}]
    BY <1>5 DEF Repeat
  <2> HIDE DEF t
  <2> QED BY <1>0, <1>2, <1>3, <2>1
<1> QED BY <1>4, <1>5

LEMMA RouterTypes ==
    ASSUME IngestInv, NEW r \in Requests, ToRouter(r)
    PROVE  Current(r) \in Events
<1>1. IngestTypeOK /\ HandlerSound
  BY DEF IngestInv, Safe
<1>2. handlers[r].at <= Len(Posted(r))
  <2>1. Sound(r, handlers[r])
    BY <1>1 DEF HandlerSound
  <2> QED BY <2>1 DEF ToRouter, AtEvent, At, Sound
<1> QED BY <1>1, <1>2, CurrentFacts

LEMMA LearnTypes ==
    ASSUME IngestInv, NEW r \in Requests, Learn(r)
    PROVE  told' \in [Senders -> {"nothing", "accepted", "refused"}]
<1>1. told \in [Senders -> {"nothing", "accepted", "refused"}]
  BY DEF IngestInv, IngestTypeOK
<1>2. Final(Sender(r), handlers[r].reply) \in {"nothing", "accepted", "refused"}
  BY DEF Final
<1>3. told' = [told EXCEPT ![Sender(r)] =
                  IF @ = "nothing" THEN Final(Sender(r), handlers[r].reply) ELSE @]
  BY DEF Learn
<1> HIDE DEF Final
<1> QED BY <1>1, <1>2, <1>3

LEMMA StopTypes ==
    ASSUME IngestInv, Stop, Handling
    PROVE  IngestTypeOK'
<1>1. IngestTypeOK /\ HandlerSound /\ {MaxTime, MaxStops} \subseteq Nat
  BY IngestAssumption DEF IngestInv, Safe
<1>2. \A r \in Requests : At(r, "route") => Current(r) \in Events
  BY RouterTypes DEF ToRouter
<1>3. cut' \subseteq Events
  BY <1>1, <1>2 DEF Stop, IngestTypeOK
<1>4. stops' \in 0..MaxStops
  BY <1>1 DEF Stop, IngestTypeOK
<1>5. /\ passed' = [c \in Callers |-> <<>>]
      /\ admitted' = [k \in Keys |-> <<>>]
      /\ repeats' = [e \in Events |-> {}] /\ refusals' = [c \in Callers |-> {}]
      /\ seen' = [k \in Keys |-> Never] /\ windows' = [c \in Callers |-> Never]
      /\ late' = {} /\ now' = now /\ enabled' = enabled /\ told' = told /\ handed' = handed
  BY DEF Stop
<1>6. passed' \in [Callers -> Seq(0..MaxTime)]
  BY <1>5
<1>7. admitted' \in [Keys -> Seq(0..MaxTime)]
  BY <1>5
<1> QED BY <1>1, <1>3, <1>4, <1>5, <1>6, <1>7 DEF IngestTypeOK, Handling, Keys

LEMMA NextTypes ==
    ASSUME IngestInv, Next, Handling
    PROVE  IngestTypeOK'
<1>1. IngestTypeOK /\ MaxTime \in Nat
  BY IngestAssumption DEF IngestInv
<1>2. CASE \E r \in Requests : PostBatch(r[1], r[2])
  BY <1>1, <1>2 DEF PostBatch, IngestTypeOK, Handling, Keys, history
<1>3. CASE \E r \in Requests : Learn(r)
  BY <1>1, <1>3, LearnTypes DEF Learn, IngestTypeOK, Handling, Keys, history
<1>4. CASE \E r \in Requests : LoseAnswer(r)
  BY <1>1, <1>4 DEF LoseAnswer, IngestTypeOK, Handling, Keys, history
<1>5. CASE \E r \in Requests : ReadLimitClock(r) \/ Ignore(r) \/ Parse(r) \/ ReadClock(r)
                                 \/ Accept(r)
  BY <1>1, <1>5 DEF ReadLimitClock, Ignore, Parse, ReadClock, Accept, IngestTypeOK,
                    Handling, Keys, history
<1>6. CASE \E r \in Requests : Allow(r) \/ Limit(r)
  <2>1. PICK r \in Requests : Allow(r) \/ Limit(r)
    BY <1>6
  <2>2. UNCHANGED <<now, enabled, seen, told, stops, admitted, repeats, handed, cut>>
    BY <2>1 DEF Allow, Limit
  <2> QED BY <1>1, <2>1, <2>2, LimiterTypes DEF IngestTypeOK, Handling, Keys
<1>7. CASE \E r \in Requests : Admit(r) \/ Repeat(r)
  <2>1. PICK r \in Requests : Admit(r) \/ Repeat(r)
    BY <1>7
  <2>2. UNCHANGED <<now, enabled, windows, told, stops, handed, cut, passed, refusals, late>>
    BY <2>1 DEF Admit, Repeat
  <2> QED BY <1>1, <2>1, <2>2, MemoryTypes DEF IngestTypeOK, Handling, Keys
<1>8. CASE \E r \in Requests : Route(r) \/ RouteRaises(r)
  <2>1. PICK r \in Requests : Route(r) \/ RouteRaises(r)
    BY <1>8
  <2>2. ToRouter(r) /\ handed' = handed \cup {Current(r)}
    BY <2>1 DEF Route, RouteRaises
  <2>3. handed' \subseteq Events
    BY <1>1, <2>2, RouterTypes DEF IngestTypeOK
  <2>4. UNCHANGED <<now, enabled, seen, windows, told, stops,
                    admitted, repeats, cut, passed, refusals, late>>
    BY <2>1 DEF Route, RouteRaises
  <2> QED BY <1>1, <2>3, <2>4 DEF IngestTypeOK, Handling, Keys
<1>9. CASE Stop
  BY <1>9, StopTypes
<1>10. CASE Tick
  BY <1>1, <1>10 DEF Tick, IngestTypeOK, Handling, Keys, process, history
<1> QED BY <1>2, <1>3, <1>4, <1>5, <1>6, <1>7, <1>8, <1>9, <1>10 DEF Next, Handle

-----------------------------------------------------------------------------
(* The limiter.                                                            *)

LEMMA NeverFacts == Never \notin Entry
BY IngestAssumption

LEMMA LimitFacts == RateLimit \in Nat /\ RateLimit >= 1 /\ Minute \in Nat /\ Minute >= 1
BY IngestAssumption

\* Time passes.
LEMMA AccountLater ==
    ASSUME NEW p \in Seq(0..MaxTime), NEW w \in Entry \cup {Never}, NEW fs,
           NEW t \in Nat, NEW u \in Nat, t <= u, Account(p, w, fs, t)
    PROVE  Account(p, w, fs, u)
<1>1. \A i \in DOMAIN p : p[i] \in Nat
  BY IngestAssumption
<1>2. InOrder(p, u)
  BY <1>1 DEF Account, InOrder
<1>3. w # Never => WindowSound(p, w, u)
  <2> SUFFICES ASSUME w # Never PROVE WindowSound(p, w, u)
    OBVIOUS
  <2>1. w.started \in Nat
    BY DEF Entry
  <2> QED BY <2>1 DEF Account, WindowSound
<1>4. w = Never => Over(p, u)
  BY <1>1, LimitFacts DEF Account, Over
<1> QED BY <1>2, <1>3, <1>4 DEF Account

\* A request whose clock is not ahead finds the window too old.
LEMMA AccountForgotten ==
    ASSUME NEW p \in Seq(0..MaxTime), NEW w \in Entry, w # Never, NEW fs,
           NEW t \in Nat, NEW u \in Nat, u <= t, u - w.started >= 2 * Minute,
           Account(p, w, fs, t)
    PROVE  Account(p, Never, fs, t)
<1>1. WindowSound(p, w, t) /\ InOrder(p, t)
  BY DEF Account
<1>2. w.started \in Nat /\ w.count \in Nat
  BY DEF Entry
<1>3. Over(p, t)
  <2> SUFFICES ASSUME NEW i \in DOMAIN p PROVE t - p[i] >= Minute
    BY DEF Over
  <2>1. p[i] \in Nat /\ i \in Nat /\ Len(p) \in Nat /\ DOMAIN p = 1..Len(p)
    <3>1. MaxTime \in Nat
      BY IngestAssumption
    <3>2. Len(p) \in Nat /\ DOMAIN p = 1..Len(p)
      BY ONLY p \in Seq(0..MaxTime)
    <3>3. p[i] \in 0..MaxTime
      BY <3>2, ElementOfSeq
    <3> QED BY <3>1, <3>2, <3>3
  <2>2. p[i] < w.started + Minute
    <3>1. CASE i >= First(p, w)
      <4>1. p[i] - w.started < Minute
        BY <1>1, <3>1 DEF WindowSound
      <4> QED BY <1>2, <2>1, <4>1, LimitFacts
    <3>2. CASE i < First(p, w)
      <4>1. First(p, w) \in DOMAIN p
        <5>1. First(p, w) = Len(p) - w.count + 1
          BY DEF First
        <5>2. w.count \in 1..RateLimit /\ w.count <= Len(p)
          BY <1>1 DEF WindowSound
        <5>3. w.count >= 1
          BY <5>2, LimitFacts
        <5> QED BY <1>2, <2>1, <5>1, <5>2, <5>3, SMTT(20)
      <4>2. p[i] <= p[First(p, w)] /\ p[First(p, w)] = w.started
        BY <1>1, <2>1, <3>2, <4>1 DEF WindowSound, InOrder
      <4> QED BY <1>2, <2>1, <4>2, LimitFacts
    <3>3. First(p, w) \in Int
      BY <1>2, <2>1 DEF First
    <3> QED BY <2>1, <3>1, <3>2, <3>3
  <2> QED BY <1>2, <2>1, <2>2, LimitFacts
<1> QED BY <1>3 DEF Account

LEMMA AppendedFacts ==
    ASSUME NEW p \in Seq(0..MaxTime), NEW t \in 0..MaxTime
    PROVE  /\ Append(p, t) \in Seq(0..MaxTime)
           /\ Len(Append(p, t)) = Len(p) + 1
           /\ DOMAIN Append(p, t) = 1..(Len(p) + 1)
           /\ DOMAIN p = 1..Len(p)
           /\ Len(p) \in Nat
           /\ \A i \in DOMAIN p : Append(p, t)[i] = p[i] /\ p[i] \in Nat
           /\ Append(p, t)[Len(p) + 1] = t
BY IngestAssumption, AppendProperties

\* A request is let through, in the window there is or in one that it begins.
LEMMA AccountAllowed ==
    ASSUME NEW p \in Seq(0..MaxTime), NEW w \in Entry \cup {Never}, NEW fs,
           NEW t \in 0..MaxTime, Account(p, w, fs, t), NEW v \in Entry, v # Never,
           \/ /\ w # Never /\ t - w.started < Minute /\ w.count < RateLimit
              /\ v.count = w.count + 1 /\ v.started = w.started
           \/ /\ w # Never => t - w.started >= Minute
              /\ v.count = 1 /\ v.started = t
    PROVE  Account(Append(p, t), v, fs, t)
<1> DEFINE q == Append(p, t)
           n == Len(p)
<1>1. /\ n \in Nat /\ DOMAIN p = 1..n /\ Len(q) = n + 1 /\ DOMAIN q = 1..(n + 1)
      /\ \A i \in 1..n : q[i] = p[i] /\ p[i] \in Nat
      /\ q[n + 1] = t /\ t \in Nat
  BY AppendedFacts, IngestAssumption
<1>2. v.count \in Nat /\ v.started \in Nat /\ (w # Never => w.count \in Nat /\ w.started \in Nat)
  BY DEF Entry
<1>3. /\ \A i, j \in 1..n : i <= j => p[i] <= p[j]
      /\ \A i \in 1..n : p[i] <= t
  BY <1>1 DEF Account, InOrder
<1>4. /\ RateLimit \in Nat /\ RateLimit >= 1 /\ Minute \in Nat /\ Minute >= 1
  BY LimitFacts
<1> HIDE DEF q, n
<1>5. InOrder(q, t)
  <2>1. ASSUME NEW i \in 1..(n + 1), NEW j \in 1..(n + 1), i <= j PROVE q[i] <= q[j]
    <3>1. CASE j = n + 1 /\ i = n + 1
      BY <1>1, <3>1
    <3>2. CASE j = n + 1 /\ i # n + 1
      <4>1. i \in 1..n
        BY <1>1, <3>2
      <4> QED BY <1>1, <1>3, <3>2, <4>1
    <3>3. CASE j # n + 1
      <4>1. i \in 1..n /\ j \in 1..n
        BY <1>1, <2>1, <3>3
      <4> QED BY <1>1, <1>3, <2>1, <4>1
    <3> QED BY <3>1, <3>2, <3>3
  <2>2. ASSUME NEW i \in 1..(n + 1) PROVE q[i] <= t
    <3>1. CASE i = n + 1
      BY <1>1, <3>1
    <3>2. CASE i # n + 1
      <4>1. i \in 1..n
        BY <1>1, <3>2
      <4> QED BY <1>1, <1>3, <4>1
    <3> QED BY <3>1, <3>2
  <2> QED BY <1>1, <2>1, <2>2 DEF InOrder
\* The index of the first request of the window, and what is older by a minute.
<1>6. /\ First(q, v) \in 1..(n + 1)
      /\ First(q, v) = n + 2 - v.count
      /\ q[First(q, v)] = v.started
      /\ v.started <= t
      /\ v.count \in 1..RateLimit /\ v.count <= n + 1
      /\ \A i \in 1..(n + 1) : i >= First(q, v) => q[i] - v.started < Minute
      /\ \A i \in 1..n : i <= First(q, v) - RateLimit => v.started - p[i] >= Minute
  <2>1. First(q, v) = n + 2 - v.count
    <3>1. First(q, v) = (n + 1) - v.count + 1
      BY <1>1 DEF First
    <3>2. n \in Nat /\ v.count \in Nat
      BY <1>1, <1>2
    <3> QED BY <3>1, <3>2
  <2>2. CASE /\ w # Never /\ t - w.started < Minute /\ w.count < RateLimit
             /\ v.count = w.count + 1 /\ v.started = w.started
    <3>1. WindowSound(p, w, t)
      BY <2>2 DEF Account
    <3>2. /\ First(p, w) = n - w.count + 1 /\ First(p, w) \in 1..n
          /\ w.count \in 1..RateLimit /\ w.started <= t /\ w.count <= n
          /\ p[First(p, w)] = w.started
          /\ \A i \in 1..n : i >= First(p, w) => p[i] - w.started < Minute
          /\ First(p, w) - RateLimit >= 1 => w.started - p[First(p, w) - RateLimit] >= Minute
      <4>1. First(p, w) = n - w.count + 1
        BY DEF First, n
      <4>2. w.count \in 1..RateLimit /\ w.count <= n
        BY <3>1 DEF WindowSound, n
      <4>3. First(p, w) \in 1..n
        <5>1. n \in Nat /\ w.count \in Nat /\ w.count >= 1 /\ w.count <= n
          BY <1>1, <1>2, <1>4, <2>2, <4>2
        <5> QED BY <4>1, <5>1
      <4> QED BY <1>1, <3>1, <4>1, <4>2, <4>3 DEF WindowSound
    <3>3. First(q, v) = First(p, w)
      BY <1>1, <1>2, <2>1, <2>2, <3>2
    <3>4. /\ First(q, v) \in 1..(n + 1) /\ q[First(q, v)] = v.started
          /\ v.count \in 1..RateLimit /\ v.count <= n + 1 /\ v.started <= t
      <4>0. n \in Nat /\ w.count \in Nat
        BY <1>1, <1>2, <2>2
      <4>1. First(q, v) \in 1..n
        BY <3>2, <3>3
      <4>2. First(q, v) \in 1..(n + 1)
        BY <4>0, <4>1
      <4>3. q[First(q, v)] = p[First(q, v)]
        BY <1>1, <4>1
      <4>4. q[First(q, v)] = v.started
        BY <2>2, <3>2, <3>3, <4>3
      <4>5. v.count \in 1..RateLimit /\ v.count <= n + 1
        BY <1>4, <2>2, <3>2, <4>0
      <4>6. v.started <= t
        BY <2>2, <3>2
      <4> QED BY <4>2, <4>4, <4>5, <4>6
    <3>5. ASSUME NEW i \in 1..(n + 1), i >= First(q, v) PROVE q[i] - v.started < Minute
      <4>1. CASE i = n + 1
        BY <1>1, <2>2, <4>1
      <4>2. CASE i # n + 1
        <5>1. i \in 1..n
          BY <1>1, <4>2
        <5> QED BY <1>1, <2>2, <3>2, <3>3, <3>5, <5>1
      <4> QED BY <4>1, <4>2
    <3>6. ASSUME NEW i \in 1..n, i <= First(q, v) - RateLimit PROVE v.started - p[i] >= Minute
      <4> DEFINE k == First(p, w) - RateLimit
      <4>0. /\ First(p, w) \in 1..n /\ i \in 1..n
            /\ i <= First(p, w) - RateLimit
        BY <3>2, <3>3, <3>6
      <4>1. k \in 1..n /\ i <= k /\ k >= 1
        BY <1>1, <1>4, <4>0
      <4>2. p[i] <= p[k] /\ w.started - p[k] >= Minute
        BY <1>3, <3>2, <4>1
      <4> HIDE DEF k
      <4> QED BY <1>1, <1>2, <1>4, <2>2, <4>1, <4>2
    <3> QED BY <2>1, <3>4, <3>5, <3>6
  <2>3. CASE /\ w # Never => t - w.started >= Minute
             /\ v.count = 1 /\ v.started = t
    <3>1. First(q, v) = n + 1
      BY <1>1, <2>1, <2>3
    <3>2. ASSUME NEW i \in 1..n, i <= n + 1 - RateLimit PROVE t - p[i] >= Minute
      <4>1. CASE w = Never
        BY <1>1, <4>1 DEF Account, Over
      <4>2. CASE w # Never
        <5>1. WindowSound(p, w, t)
          BY <4>2 DEF Account
        <5>2. /\ First(p, w) = n - w.count + 1 /\ First(p, w) \in 1..n
              /\ w.count \in 1..RateLimit /\ p[First(p, w)] = w.started
          <6>1. First(p, w) = n - w.count + 1
            BY DEF First, n
          <6>2. w.count \in 1..RateLimit /\ w.count <= n
            BY <5>1 DEF WindowSound, n
          <6>3. First(p, w) \in 1..n
            <7>1. n \in Nat /\ w.count \in Nat /\ w.count >= 1 /\ w.count <= n
              BY <1>1, <1>2, <1>4, <4>2, <6>2
            <7> QED BY <6>1, <7>1
          <6> QED BY <5>1, <6>1, <6>2, <6>3 DEF WindowSound
        <5>3. i <= First(p, w)
          BY <1>1, <1>4, <3>2, <5>2
        <5>4. p[i] <= w.started
          BY <1>3, <5>2, <5>3
        <5> QED BY <1>1, <1>2, <1>4, <2>3, <4>2, <5>4
      <4> QED BY <4>1, <4>2
    <3>3. ASSUME NEW i \in 1..(n + 1), i >= First(q, v) PROVE q[i] - v.started < Minute
      <4>1. i = n + 1
        BY <1>1, <3>1, <3>3
      <4> QED BY <1>1, <1>4, <2>3, <4>1
    <3>4. n \in Nat /\ t \in Nat
      BY <1>1
    <3>5. n + 1 \in 1..(n + 1) /\ 1 \in 1..RateLimit /\ 1 <= n + 1 /\ t <= t
      BY <1>4, <3>4
    <3>6. q[First(q, v)] = v.started
      BY <1>1, <2>3, <3>1
    <3>7. ASSUME NEW i \in 1..n, i <= First(q, v) - RateLimit PROVE v.started - p[i] >= Minute
      <4>1. i <= n + 1 - RateLimit
        BY <1>4, <3>1, <3>4, <3>7
      <4>2. t - p[i] >= Minute
        BY <3>2, <4>1
      <4> QED BY <2>3, <4>2
    <3> QED BY <2>1, <2>3, <3>1, <3>3, <3>5, <3>6, <3>7
  <2> QED BY <2>2, <2>3
<1>7. WindowSound(q, v, t)
  <2>1. ASSUME First(q, v) - RateLimit >= 1
        PROVE  v.started - q[First(q, v) - RateLimit] >= Minute
    <3>1. First(q, v) - RateLimit \in 1..n
      <4>1. First(q, v) \in 1..(n + 1)
        BY <1>6
      <4>2. n \in Nat /\ RateLimit \in Nat \ {0}
        BY <1>1, <1>4
      <4> QED BY <2>1, <4>1, <4>2
    <3>2. q[First(q, v) - RateLimit] = p[First(q, v) - RateLimit]
      BY <1>1, <3>1
    <3> QED BY <1>6, <3>1, <3>2
  <2> QED BY <1>1, <1>6, <2>1 DEF WindowSound
<1>8. Spaced(q)
  <2> SUFFICES ASSUME NEW i \in 1..(n + 1), i + 2 * RateLimit - 1 \in 1..(n + 1)
               PROVE  q[i + 2 * RateLimit - 1] - q[i] >= Minute
    BY <1>1 DEF Spaced
  <2>1. CASE i + 2 * RateLimit - 1 = n + 1
    <3>1. i \in 1..n /\ i <= First(q, v) - RateLimit
      <4>1. First(q, v) = n + 2 - v.count /\ v.count \in 1..RateLimit
        BY <1>6
      <4>2. n \in Nat /\ RateLimit \in Nat /\ RateLimit >= 1
        BY <1>1, <1>4
      <4> QED BY <2>1, <4>1, <4>2
    <3>2. v.started - p[i] >= Minute /\ v.started <= t
      BY <1>6, <3>1
    <3>3. t - p[i] >= Minute
      <4>1. p[i] \in Nat
        BY <1>1, <3>1
      <4> QED BY <1>1, <1>2, <1>4, <3>2, <4>1
    <3> QED BY <1>1, <2>1, <3>1, <3>3
  <2>2. CASE i + 2 * RateLimit - 1 # n + 1
    <3>1. i \in 1..n /\ i + 2 * RateLimit - 1 \in 1..n
      BY <1>1, <1>4, <2>2
    <3> QED BY <1>1, <3>1 DEF Account, Spaced
  <2> QED BY <2>1, <2>2
<1>9. UsedUp(q, fs)
  <2> SUFFICES ASSUME NEW f \in fs
               PROVE  /\ f.count \in RateLimit..(n + 1)
                      /\ f.time - q[f.count - RateLimit + 1] < Minute
    BY <1>1 DEF UsedUp
  <2>1. f.count \in RateLimit..n /\ f.time - p[f.count - RateLimit + 1] < Minute
    BY DEF Account, UsedUp, n
  <2>2. f.count - RateLimit + 1 \in 1..n
    BY <1>1, <1>4, <2>1
  <2> QED BY <1>1, <1>4, <2>1, <2>2
<1> QED BY <1>5, <1>7, <1>8, <1>9 DEF Account, q

\* A request is refused: its window is full.
LEMMA AccountRefused ==
    ASSUME NEW p \in Seq(0..MaxTime), NEW w \in Entry, w # Never, NEW fs,
           NEW t \in 0..MaxTime, t - w.started < Minute, w.count >= RateLimit,
           Account(p, w, fs, t)
    PROVE  Account(p, w, fs \cup {[time |-> t, count |-> Len(p)]}, t)
<1>1. /\ w.count \in 1..RateLimit /\ w.count <= Len(p)
      /\ p[Len(p) - w.count + 1] = w.started
  BY DEF Account, WindowSound, First
<1>2. w.count = RateLimit /\ Len(p) \in Nat
  BY <1>1, LimitFacts
<1>3. Len(p) \in RateLimit..Len(p) /\ t - p[Len(p) - RateLimit + 1] < Minute
  BY <1>1, <1>2, LimitFacts
<1>4. UsedUp(p, fs \cup {[time |-> t, count |-> Len(p)]})
  BY <1>3 DEF Account, UsedUp
<1> QED BY <1>4 DEF Account

LEMMA StampsKept ==
    ASSUME IngestInv, NEW r \in Requests, NEW h \in Post, Put(r, h),
           h.stamp <= now, now' = now
    PROVE  StampsPast'
<1>1. handlers \in [Requests -> Post] /\ StampsPast
  BY DEF IngestInv, Fair, IngestTypeOK
<1> SUFFICES ASSUME NEW q \in Requests PROVE handlers'[q].stamp <= now
  BY DEF StampsPast
<1>2. handlers'[q] = h \/ handlers'[q] = handlers[q]
  BY <1>1, PutFacts
<1> QED BY <1>1, <1>2 DEF StampsPast

LEMMA StampTyped ==
    ASSUME IngestInv, NEW r \in Requests
    PROVE  /\ IngestTypeOK /\ now \in Nat
           /\ handlers[r].at \in Nat /\ handlers[r].at + 1 \in Nat
           /\ handlers[r].stamp \in Nat /\ handlers[r].stamp <= now
           /\ handlers[r].reply \in {"none", "accepted", "ignored", "unauthorized", "limited",
                                     "bad", "failed"}
<1>1. IngestTypeOK /\ HandlerSound /\ StampsPast
  BY DEF IngestInv, Safe, Fair
<1>2. /\ handlers[r].at \in Nat /\ handlers[r].stamp \in Nat
      /\ handlers[r].reply \in {"none", "accepted", "ignored", "unauthorized", "limited",
                                "bad", "failed"}
  BY <1>1, HandlerFacts
<1>3. now \in Nat
  BY <1>1, IngestAssumption DEF IngestTypeOK
<1>4. handlers[r].stamp <= now
  BY <1>1 DEF StampsPast
<1> QED BY <1>1, <1>2, <1>3, <1>4

LEMMA ToStamp ==
    ASSUME IngestInv, NEW r \in Requests, NEW step \in {"arrived", "allowed", "next"},
           To(r, step), now' = now
    PROVE  StampsPast'
<1> DEFINE h == Record(step, handlers[r].at, handlers[r].stamp, handlers[r].reply)
<1>1. Put(r, h)
  BY StampTyped, ToFacts
<1>2. h \in Post /\ h.stamp <= now
  BY StampTyped DEF Record, Post
<1> HIDE DEF h
<1> QED BY <1>1, <1>2, StampsKept

LEMMA ReplyStamp ==
    ASSUME IngestInv, NEW r \in Requests,
           NEW reply \in {"accepted", "ignored", "unauthorized", "limited", "bad", "failed"},
           Reply(r, reply), now' = now
    PROVE  StampsPast'
<1> DEFINE h == Record("reply", 1, 0, reply)
<1>1. Put(r, h)
  BY ReplyFacts
<1>2. h \in Post /\ h.stamp <= now
  BY StampTyped DEF Record, Post
<1> HIDE DEF h
<1> QED BY <1>1, <1>2, StampsKept

LEMMA SkipStamp ==
    ASSUME IngestInv, NEW r \in Requests, Skip(r), now' = now
    PROVE  StampsPast'
<1> DEFINE h == Record("next", handlers[r].at + 1, 0, "none")
<1>1. Put(r, h)
  BY SkipFacts
<1>2. h \in Post /\ h.stamp <= now
  BY StampTyped DEF Record, Post
<1> HIDE DEF h
<1> QED BY <1>1, <1>2, StampsKept

LEMMA EndStamp ==
    ASSUME IngestInv, NEW r \in Requests, handlers' = [handlers EXCEPT ![r] = End(r)],
           now' = now
    PROVE  StampsPast'
<1> DEFINE kept == IF handlers[r].reply = "ignored" THEN "ignored" ELSE "none"
           h == Record("done", 1, 0, kept)
<1>1. Put(r, h)
  BY EndFacts DEF Put
<1>2. kept \in {"none", "ignored"}
  OBVIOUS
<1> HIDE DEF kept
<1>3. h \in Post /\ h.stamp <= now
  BY <1>2, StampTyped DEF Record, Post
<1> HIDE DEF h
<1> QED BY <1>1, <1>3, StampsKept

LEMMA ClockStamp ==
    ASSUME IngestInv, NEW r \in Requests, NEW step \in {"timed", "clock", "route"},
           NEW stamp \in {now, 0}, now' = now,
           handlers' = [handlers EXCEPT ![r].step = step, ![r].stamp = stamp]
    PROVE  StampsPast'
<1> DEFINE h == Record(step, handlers[r].at, stamp, handlers[r].reply)
<1>1. Put(r, h)
  BY StampTyped, StampFacts
<1>2. stamp \in Nat /\ stamp <= now
  BY StampTyped
<1>3. h \in Post /\ h.stamp <= now
  BY <1>2, StampTyped DEF Record, Post
<1> HIDE DEF h
<1> QED BY <1>1, <1>3, StampsKept

\* The steps of a request that leave the limiter alone.
LEMMA StampStep ==
    ASSUME IngestInv, NEW r \in Requests,
           \/ PostBatch(r[1], r[2]) \/ Learn(r) \/ LoseAnswer(r)
           \/ ReadLimitClock(r) \/ Ignore(r) \/ Parse(r) \/ ReadClock(r)
           \/ Admit(r) \/ Repeat(r) \/ Route(r) \/ RouteRaises(r) \/ Accept(r)
    PROVE  StampsPast' /\ UNCHANGED <<now, windows, passed, refusals, late>>
<1>1. UNCHANGED <<now, windows, passed, refusals, late>>
  BY DEF PostBatch, Learn, LoseAnswer, ReadLimitClock, Ignore, Parse, ReadClock, Admit,
         Repeat, Route, RouteRaises, Accept, history
<1>2. CASE PostBatch(r[1], r[2])
  <2> DEFINE step == IF r[1] \in Limited THEN "arrived" ELSE "allowed"
  <2>1. To(r, step) /\ step \in {"arrived", "allowed", "next"}
    BY <1>2, RequestFacts DEF PostBatch
  <2> HIDE DEF step
  <2> QED BY <1>1, <2>1, ToStamp
<1>3. CASE Learn(r) \/ LoseAnswer(r)
  <2>1. handlers' = [handlers EXCEPT ![r] = End(r)]
    BY <1>3 DEF Learn, LoseAnswer
  <2> QED BY <1>1, <2>1, EndStamp
<1>4. CASE ReadLimitClock(r) \/ ReadClock(r) \/ Admit(r)
  <2>1. \E step \in {"timed", "clock", "route"}, stamp \in {now, 0} :
            handlers' = [handlers EXCEPT ![r].step = step, ![r].stamp = stamp]
    BY <1>4 DEF ReadLimitClock, ReadClock, Admit
  <2> QED BY <1>1, <2>1, ClockStamp
<1>5. CASE Ignore(r) \/ RouteRaises(r) \/ Accept(r)
  <2>1. \E reply \in {"accepted", "ignored", "bad", "failed"} : Reply(r, reply)
    BY <1>5 DEF Ignore, RouteRaises, Accept
  <2> QED BY <1>1, <2>1, ReplyStamp
<1>6. CASE Parse(r)
  <2>1. Reply(r, "bad") \/ To(r, "next")
    BY <1>6 DEF Parse
  <2> QED BY <1>1, <2>1, ReplyStamp, ToStamp
<1>7. CASE Repeat(r) \/ Route(r)
  <2>1. Skip(r)
    BY <1>7 DEF Repeat, Route
  <2> QED BY <1>1, <2>1, SkipStamp
<1> QED BY <1>1, <1>2, <1>3, <1>4, <1>5, <1>6, <1>7

\* The time is that of the state after the step.
LEMMA AccountsLater ==
    ASSUME IngestInv, UNCHANGED <<windows, passed, refusals, late>>, now' \in Nat, now <= now'
    PROVE  Accounts'
<1> SUFFICES ASSUME NEW c \in Callers \ late
             PROVE  Account(passed[c], windows[c], refusals[c], now')
  BY DEF Accounts
<1>1. /\ passed[c] \in Seq(0..MaxTime) /\ windows[c] \in Entry \cup {Never} /\ now \in Nat
      /\ Account(passed[c], windows[c], refusals[c], now)
  BY IngestAssumption DEF IngestInv, IngestTypeOK, Fair, Accounts
<1> QED BY <1>1, AccountLater

\* What a request that takes the lock makes of the windows of the callers that were
\* never late.
LEMMA KeptAccount ==
    ASSUME IngestInv, NEW t \in Nat, t <= now, NEW c \in Callers \ late
    PROVE  /\ Kept(t)[c] \in Entry \cup {Never}
           /\ Account(passed[c], Kept(t)[c], refusals[c], now)
<1>1. /\ passed[c] \in Seq(0..MaxTime) /\ windows[c] \in Entry \cup {Never} /\ now \in Nat
      /\ Account(passed[c], windows[c], refusals[c], now)
  BY IngestAssumption DEF IngestInv, IngestTypeOK, Fair, Accounts
<1>2. CASE windows[c] # Never /\ t - windows[c].started < 2 * Minute
  <2>1. Kept(t)[c] = windows[c]
    BY <1>2 DEF Kept
  <2> QED BY <1>1, <2>1
<1>3. CASE windows[c] = Never
  <2>1. Kept(t)[c] = windows[c]
    BY <1>3 DEF Kept
  <2> QED BY <1>1, <2>1
<1>4. CASE windows[c] # Never /\ ~(t - windows[c].started < 2 * Minute)
  <2>1. Kept(t)[c] = Never
    BY <1>4 DEF Kept
  <2>2. windows[c] \in Entry /\ windows[c].started \in Nat
    BY <1>1, <1>4 DEF Entry
  <2>3. t - windows[c].started >= 2 * Minute
    BY <1>4, <2>2, LimitFacts
  <2> QED BY <1>1, <1>4, <2>1, <2>2, <2>3, AccountForgotten
<1> QED BY <1>2, <1>3, <1>4

LEMMA TimedFacts ==
    ASSUME IngestInv, NEW r \in Requests, At(r, "timed")
    PROVE  /\ Caller[Sender(r)] \in Callers
           /\ handlers[r].stamp \in Nat
           /\ handlers[r].stamp <= now
           /\ now \in 0..MaxTime
           /\ Caller[Sender(r)] \notin late \cup Late(r) => handlers[r].stamp = now
<1>1. IngestTypeOK /\ HandlerSound /\ StampsPast
  BY DEF IngestInv, Safe, Fair
<1>2. Sender(r) \in Limited /\ handlers[r].stamp \in Nat
  BY <1>1, HandlerFacts DEF At, Sound
<1> QED BY <1>1, <1>2, IngestAssumption DEF StampsPast, IngestTypeOK, Late

LEMMA AllowFair ==
    ASSUME IngestInv, NEW r \in Requests, Allow(r)
    PROVE  Fair'
<1> DEFINE c == Caller[Sender(r)]
           t == handlers[r].stamp
           w == CurrentWindow(c, t)
           v == [w EXCEPT !.count = @ + 1]
<1>0. /\ windows \in [Callers -> Entry \cup {Never}]
      /\ passed \in [Callers -> Seq(0..MaxTime)]
      /\ refusals \in [Callers -> SUBSET Refusal]
  BY DEF IngestInv, IngestTypeOK
<1>1. /\ At(r, "timed") /\ w.count < RateLimit /\ now' = now
      /\ windows' = [Kept(t) EXCEPT ![c] = v]
      /\ handlers' = [handlers EXCEPT ![r] = [Unused EXCEPT !.step = "allowed"]]
      /\ passed' = [passed EXCEPT ![c] = Append(@, now)]
      /\ late' = late \cup Late(r) /\ refusals' = refusals
  BY DEF Allow
<1>2. /\ c \in Callers /\ t \in Nat /\ t <= now /\ now \in 0..MaxTime
      /\ c \notin late' => t = now
  BY <1>1, TimedFacts
<1>3. /\ Kept(t) \in [Callers -> Entry \cup {Never}] /\ w \in Entry
  BY <1>2, WindowFacts DEF IngestInv
<1>4. v \in Entry /\ v.count = w.count + 1 /\ v.started = w.started
  BY <1>3 DEF Entry
<1>5. StampsPast'
  <2> DEFINE h == Record("allowed", 1, 0, "none")
  <2>1. [Unused EXCEPT !.step = "allowed"] = h
    BY DEF Unused, Record
  <2> HIDE DEF h
  <2>2. Put(r, h)
    BY <1>1, <2>1 DEF Put
  <2>3. h \in Post /\ h.stamp <= now
    BY <1>2, IngestAssumption DEF h, Record, Post
  <2> QED BY <1>1, <2>2, <2>3, StampsKept
<1>6. \/ /\ Kept(t)[c] # Never /\ t - Kept(t)[c].started < Minute /\ w = Kept(t)[c]
      \/ /\ Kept(t)[c] # Never => ~(t - Kept(t)[c].started < Minute)
         /\ w.count = 0 /\ w.started = t
  BY DEF CurrentWindow
<1>7. Never \notin Entry
  BY NeverFacts
<1> HIDE DEF v, w, t, c
<1>8. ASSUME NEW d \in Callers, d \notin late'
      PROVE  Account(passed'[d], windows'[d], refusals'[d], now')
  <2>1. /\ Kept(t)[d] \in Entry \cup {Never}
        /\ Account(passed[d], Kept(t)[d], refusals[d], now)
    BY <1>1, <1>2, <1>8, KeptAccount
  <2>2. CASE d # c
    <3>1. windows'[d] = Kept(t)[d] /\ passed'[d] = passed[d]
      BY <1>0, <1>1, <1>3, <2>2
    <3> QED BY <1>1, <2>1, <3>1
  <2>3. CASE d = c
    <3>1. windows'[d] = v /\ passed'[d] = Append(passed[d], now)
      BY <1>0, <1>1, <1>2, <1>3, <2>3
    <3>2. t = now
      BY <1>2, <1>8, <2>3
    <3>3. v # Never /\ passed[d] \in Seq(0..MaxTime)
      BY <1>0, <1>4, <1>7
    <3>4. \/ /\ Kept(t)[d] # Never /\ now - Kept(t)[d].started < Minute
             /\ Kept(t)[d].count < RateLimit
             /\ v.count = Kept(t)[d].count + 1 /\ v.started = Kept(t)[d].started
          \/ /\ Kept(t)[d] # Never => now - Kept(t)[d].started >= Minute
             /\ v.count = 1 /\ v.started = now
      <4>1. CASE /\ Kept(t)[c] # Never /\ t - Kept(t)[c].started < Minute
                 /\ w = Kept(t)[c]
        BY <1>1, <1>4, <2>3, <3>2, <4>1
      <4>2. CASE /\ Kept(t)[c] # Never => ~(t - Kept(t)[c].started < Minute)
                 /\ w.count = 0 /\ w.started = t
        <5>1. ASSUME Kept(t)[d] # Never PROVE now - Kept(t)[d].started >= Minute
          <6>1. Kept(t)[d].started \in Nat
            BY <2>1, <5>1 DEF Entry
          <6> QED BY <1>2, <2>3, <3>2, <4>2, <5>1, <6>1, LimitFacts
        <5> QED BY <1>4, <3>2, <4>2, <5>1
      <4> QED BY <1>6, <4>1, <4>2
    <3>5. Account(Append(passed[d], now), v, refusals[d], now)
      BY <1>2, <1>4, <2>1, <3>3, <3>4, AccountAllowed
    <3> QED BY <1>1, <3>1, <3>5
  <2> QED BY <2>2, <2>3
<1> QED BY <1>5, <1>8 DEF Fair, Accounts

LEMMA LimitFair ==
    ASSUME IngestInv, NEW r \in Requests, Limit(r)
    PROVE  Fair'
<1> DEFINE c == Caller[Sender(r)]
           t == handlers[r].stamp
           w == CurrentWindow(c, t)
           reply == IF Kind[Sender(r)] = "api" THEN "limited" ELSE "unauthorized"
<1>0. /\ windows \in [Callers -> Entry \cup {Never}]
      /\ passed \in [Callers -> Seq(0..MaxTime)]
      /\ refusals \in [Callers -> SUBSET Refusal]
  BY DEF IngestInv, IngestTypeOK
<1>1. /\ At(r, "timed") /\ w.count >= RateLimit /\ now' = now
      /\ windows' = [Kept(t) EXCEPT ![c] = w]
      /\ Reply(r, reply)
      /\ refusals' = [refusals EXCEPT ![c] = @ \cup {Refused(c)}]
      /\ late' = late \cup Late(r) /\ passed' = passed
  BY DEF Limit
<1>2. /\ c \in Callers /\ t \in Nat /\ t <= now /\ now \in 0..MaxTime
      /\ c \notin late' => t = now
  BY <1>1, TimedFacts
<1>3. /\ Kept(t) \in [Callers -> Entry \cup {Never}] /\ w \in Entry
  BY <1>2, WindowFacts DEF IngestInv
<1>4. StampsPast'
  <2>1. reply \in {"limited", "unauthorized"}
    OBVIOUS
  <2> HIDE DEF reply
  <2>2. Put(r, Record("reply", 1, 0, reply))
    BY <1>1, ReplyFacts
  <2>3. Record("reply", 1, 0, reply) \in Post /\ Record("reply", 1, 0, reply).stamp <= now
    BY <1>2, <2>1, IngestAssumption DEF Record, Post
  <2> QED BY <1>1, <2>2, <2>3, StampsKept
\* The window is full, so it is not a new one.
<1>5. Kept(t)[c] # Never /\ t - Kept(t)[c].started < Minute /\ w = Kept(t)[c]
  <2>1. \/ /\ Kept(t)[c] # Never /\ t - Kept(t)[c].started < Minute /\ w = Kept(t)[c]
        \/ w.count = 0
    BY DEF CurrentWindow
  <2> HIDE DEF w
  <2> QED BY <1>1, <2>1, LimitFacts
<1>6. Refused(c) = [time |-> now, count |-> Len(passed[c])]
  BY DEF Refused
<1> HIDE DEF w, t, c
<1>7. ASSUME NEW d \in Callers, d \notin late'
      PROVE  Account(passed'[d], windows'[d], refusals'[d], now')
  <2>1. /\ Kept(t)[d] \in Entry \cup {Never}
        /\ Account(passed[d], Kept(t)[d], refusals[d], now)
    BY <1>1, <1>2, <1>7, KeptAccount
  <2>2. CASE d # c
    <3>1. windows'[d] = Kept(t)[d] /\ refusals'[d] = refusals[d]
      BY <1>0, <1>1, <1>3, <2>2
    <3> QED BY <1>1, <2>1, <3>1
  <2>3. CASE d = c
    <3>1. windows'[d] = Kept(t)[d] /\ refusals'[d] = refusals[d] \cup {Refused(c)}
      BY <1>0, <1>1, <1>2, <1>3, <1>5, <2>3
    <3>2. t = now /\ passed[d] \in Seq(0..MaxTime) /\ Kept(t)[d] \in Entry
      BY <1>0, <1>2, <1>3, <1>5, <1>7, <2>3
    <3>3. /\ Kept(t)[d] # Never /\ now - Kept(t)[d].started < Minute
          /\ Kept(t)[d].count >= RateLimit
      BY <1>1, <1>5, <2>3, <3>2
    <3>4. Account(passed[d], Kept(t)[d],
                  refusals[d] \cup {[time |-> now, count |-> Len(passed[d])]}, now)
      BY <1>2, <2>1, <3>2, <3>3, AccountRefused
    <3> QED BY <1>1, <1>6, <2>3, <3>1, <3>4
  <2> QED BY <2>2, <2>3
<1> QED BY <1>4, <1>7 DEF Fair, Accounts

\* Nobody was let through in the life of the process that begins.
LEMMA StopFair ==
    ASSUME IngestInv, Stop
    PROVE  Fair'
<1>0. IngestTypeOK /\ now \in Nat
  BY IngestAssumption DEF IngestInv, IngestTypeOK
<1>1. StampsPast'
  <2> SUFFICES ASSUME NEW r \in Requests PROVE handlers'[r].stamp <= now'
    BY DEF StampsPast
  <2>1. handlers'[r] = Unused \/ handlers'[r] = End(r)
    BY DEF Stop
  <2>2. Unused.stamp = 0 /\ End(r).stamp = 0
    BY EndFacts DEF Unused, Record
  <2>3. now' = now
    BY DEF Stop
  <2> QED BY <1>0, <2>1, <2>2, <2>3
<1>2. Accounts'
  <2>1. ASSUME NEW c \in Callers PROVE Account(<<>>, Never, {}, now)
    BY LimitFacts DEF Account, InOrder, Over, Spaced, UsedUp
  <2>2. \A c \in Callers : passed'[c] = <<>> /\ windows'[c] = Never /\ refusals'[c] = {}
    BY DEF Stop
  <2>3. now' = now
    BY DEF Stop
  <2> QED BY <2>1, <2>2, <2>3 DEF Accounts
<1> QED BY <1>1, <1>2 DEF Fair

LEMMA NextFair ==
    ASSUME IngestInv, Next
    PROVE  Fair'
<1>0. now \in Nat /\ StampsPast /\ handlers \in [Requests -> Post]
  BY IngestAssumption DEF IngestInv, IngestTypeOK, Fair
<1>1. ASSUME NEW r \in Requests,
             \/ PostBatch(r[1], r[2]) \/ Learn(r) \/ LoseAnswer(r)
             \/ ReadLimitClock(r) \/ Ignore(r) \/ Parse(r) \/ ReadClock(r)
             \/ Admit(r) \/ Repeat(r) \/ Route(r) \/ RouteRaises(r) \/ Accept(r)
      PROVE  Fair'
  BY <1>0, <1>1, StampStep, AccountsLater DEF Fair
<1>2. CASE Stop
  BY <1>2, StopFair
<1>3. CASE Tick
  <2>1. /\ now' = now + 1
        /\ UNCHANGED <<windows, passed, refusals, late, handlers>>
    BY <1>3 DEF Tick, process, history
  <2>2. now' \in Nat /\ now <= now'
    BY <1>0, <2>1
  <2>3. StampsPast'
    <3> SUFFICES ASSUME NEW r \in Requests PROVE handlers[r].stamp <= now'
      BY <2>1 DEF StampsPast
    <3>1. handlers[r].stamp \in Nat /\ handlers[r].stamp <= now
      BY <1>0 DEF StampsPast, Post
    <3> QED BY <1>0, <2>2, <3>1
  <2> QED BY <2>1, <2>2, <2>3, AccountsLater DEF Fair
<1>4. ASSUME NEW r \in Requests, Allow(r) \/ Limit(r) PROVE Fair'
  BY <1>4, AllowFair, LimitFair
<1> QED BY <1>1, <1>2, <1>3, <1>4 DEF Next, Handle

-----------------------------------------------------------------------------
(* The invariant and what follows from it.                                 *)

LEMMA InitInv == Init => IngestInv
<1> SUFFICES ASSUME Init PROVE IngestInv
  OBVIOUS
<1>0. {MaxTime, MaxStops} \subseteq Nat
  BY IngestAssumption
<1>1. \A r \in Requests : handlers[r] = Unused
  BY DEF Init
<1>2. handlers \in [Requests -> Post]
  BY DEF Init, Unused, Post
<1>3. passed \in [Callers -> Seq(0..MaxTime)]
  BY DEF Init
<1>4. admitted \in [Keys -> Seq(0..MaxTime)]
  BY DEF Init
<1>5. IngestTypeOK
  BY <1>0, <1>2, <1>3, <1>4 DEF Init, IngestTypeOK
<1>6. HandlerSound
  BY <1>0, <1>1 DEF HandlerSound, Sound, Unused
<1>7. SeenSound /\ AdmissionsSound /\ RepeatsSound /\ KeysCovered
  BY DEF Init, SeenSound, AdmissionsSound, RepeatsSound, KeysCovered
<1>8. BatchesCovered
  BY <1>1 DEF BatchesCovered, Unused
<1>9. AcceptedInHand
  BY DEF Init, AcceptedInHand
<1>10. StampsPast
  BY <1>1 DEF Init, StampsPast, Unused
<1>11. Accounts
  <2>1. Account(<<>>, Never, {}, now)
    BY LimitFacts DEF Account, InOrder, Over, Spaced, UsedUp
  <2> QED BY <2>1 DEF Init, Accounts
<1> QED BY <1>5, <1>6, <1>7, <1>8, <1>9, <1>10, <1>11 DEF IngestInv, Safe, Fair

LEMMA NextInv == IngestInv /\ [Next]_vars => IngestInv'
<1> SUFFICES ASSUME IngestInv, [Next]_vars PROVE IngestInv'
  OBVIOUS
<1>1. CASE Next
  BY <1>1, NextSafe, NextTypes, NextFair DEF IngestInv
<1>2. CASE UNCHANGED vars
  <2>1. Handling /\ Safe'
    BY <1>2, IdleStep DEF vars, process, history
  <2>2. IngestTypeOK'
    BY <1>2 DEF IngestInv, IngestTypeOK, vars, process, history, Keys
  <2>3. Fair'
    BY <1>2 DEF IngestInv, Fair, StampsPast, Accounts, vars, process, history
  <2> QED BY <2>1, <2>2, <2>3 DEF IngestInv
<1> QED BY <1>1, <1>2

LEMMA InvAlways == Spec => []IngestInv
BY InitInv, NextInv, PTL DEF Spec

\* Every variable keeps its type, for any senders, batches and bounds.
THEOREM IngestTyped == Spec => []IngestTypeOK
<1>1. IngestInv => IngestTypeOK
  BY DEF IngestInv
<1> QED BY <1>1, InvAlways, PTL

\* HTTPServer.duplicate, with any number of requests between the clock and the lock
\* and any number of restarts: a key is admitted again only when the clock has been
\* read a window later, and what is taken for a repetition is one.
THEOREM KeysOncePerWindow == Spec => []OncePerWindow
<1>1. IngestInv => OncePerWindow
  <2> SUFFICES ASSUME IngestInv PROVE OncePerWindow
    OBVIOUS
  <2>1. AdmissionsSound /\ RepeatsSound
    BY DEF IngestInv, Safe
  <2>2. ASSUME NEW k \in Keys, NEW i \in DOMAIN admitted[k], NEW j \in DOMAIN admitted[k],
               i < j
        PROVE  PassedSince(admitted[k][i])
    <3>1. admitted[k] \in Seq(0..MaxTime)
      BY DEF IngestInv, IngestTypeOK
    <3>2. i # Len(admitted[k])
      BY <2>2, <3>1
    <3> QED BY <2>1, <3>2 DEF AdmissionsSound
  <2> QED BY <2>1, <2>2 DEF OncePerWindow
<1> QED BY <1>1, InvAlways, PTL

\* The answer of do_POST: whatever was lost, raised or restarted before, a sender
\* that was told its batch is accepted need not post it again.
THEOREM AcceptedStaysInHand == Spec => []AcceptedInHand
<1>1. IngestInv => AcceptedInHand
  BY DEF IngestInv, Safe
<1> QED BY <1>1, InvAlways, PTL

\* RateLimiter.allow, with any number of callers, late requests of others, restarts
\* and whatever limit: less than a minute never lets through twice the limit, and
\* who is refused had used up the limit in the minute before.
THEOREM LimiterIsFair == Spec => []LimiterBounds
<1>1. IngestInv => LimiterBounds
  <2> SUFFICES ASSUME IngestInv, NEW c \in Callers \ late
               PROVE  TwiceTakesMinute(c) /\ LimitUsedUp(c)
    BY DEF LimiterBounds
  <2>1. Spaced(passed[c]) /\ UsedUp(passed[c], refusals[c])
    BY DEF IngestInv, Fair, Accounts, Account
  <2>2. TwiceTakesMinute(c)
    BY <2>1 DEF TwiceTakesMinute, Spaced
  <2>3. LimitUsedUp(c)
    <3>1. Len(passed[c]) \in Nat /\ refusals[c] \subseteq Refusal
      BY DEF IngestInv, IngestTypeOK
    <3> QED BY <2>1, <3>1, LimitFacts DEF LimitUsedUp, UsedUp, Refusal
  <2> QED BY <2>2, <2>3
<1> QED BY <1>1, InvAlways, PTL

=============================================================================
