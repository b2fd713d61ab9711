------------------------- MODULE ReplicationProofs -------------------------
(***************************************************************************)
(* Every replica is a prefix of its owner's log, for any number of         *)
(* devices, exchanges and failures, when a device appends one entry at a   *)
(* time.  ReplicaIsPrefix alone is not inductive: a handler that passed    *)
(* its check writes a head later, by what it carries and by what the store *)
(* held when it checked.  The invariant therefore also says what every     *)
(* frame and every suspended handler knows of the owner's log.             *)
(***************************************************************************)
EXTENDS Replication, TLAPS

\* appendOwnEntry calls of one device do not overlap.
OneCallerPerDevice == \A b, c \in Caller : DeviceOf[b] = DeviceOf[c] => b = c

\* The first n entries of p's log at store s are the owner's first n.
Agrees(s, p, n) ==
    /\ n <= head[p][p]
    /\ \A i \in 1..n : entry[s][p][i] \in Contents /\ entry[s][p][i] = entry[p][p][i]

\* The entries an exchange carries are the owner's, at their places.
RunAgrees(x) ==
    /\ x.seq + Len(x.run) <= MaxEntries
    /\ \A i \in 1..Len(x.run) : /\ x.seq + i <= head[x.peer][x.peer]
                                /\ x.run[i] = entry[x.peer][x.peer][x.seq + i]

\* Nobody asks for a log of its own.
Asker(x) == IF x.stage \in {"request", "reading"} THEN x.from ELSE x.at

CallOK(x) ==
    /\ x \in Calls
    /\ Asker(x) # x.peer
    /\ RunAgrees(x)
    /\ x.stage \in {"entries", "new", "room", "store"} => x.done = 0
    /\ x.stage = "reading" => Agrees(x.at, x.peer, x.upto)
    /\ x.stage = "writing" => /\ x.done <= Len(x.run)
                              /\ Agrees(x.at, x.peer, x.seq + x.done)

Appending == [stage : {"idle", "entry", "head"}, seq : 0..MaxEntries,
              content : Contents \cup {Missing}]

AppendOK(c) ==
    LET d == DeviceOf[c] IN
    append[c].stage # "idle" =>
        /\ append[c].content \in Contents
        /\ append[c].seq = head[d][d] + 1
        /\ append[c].stage = "head" => entry[d][d][append[c].seq] = append[c].content

StoreTypes ==
    /\ head \in [Store -> [Peer -> 0..MaxEntries]]
    /\ entry \in [Store -> [Peer -> [Seqs -> Contents \cup {Missing}]]]
    /\ appends \in 0..MaxAppends
    /\ append \in [Caller -> Appending]
    /\ call \in [Slot -> Calls \cup {Free}]

AppendsOK == \A c \in Caller : AppendOK(c)
StoresAgree == \A s \in Store, p \in Peer : Agrees(s, p, head[s][p])
CallsOK == \A k \in Slot : call[k] = Free \/ CallOK(call[k])

IInv == StoreTypes /\ AppendsOK /\ StoresAgree /\ CallsOK

\* What a step may do to stored entries: the owner's stay below its head, which
\* does not fall, and a replica's are overwritten with the owner's only.
OwnerKept ==
    \A p \in Peer : /\ head[p][p] <= head'[p][p]
                    /\ \A i \in 1..head[p][p] : entry'[p][p][i] = entry[p][p][i]

ReplicaKept ==
    \A s \in Store, p \in Peer, i \in Seqs :
        s # p => \/ entry'[s][p][i] = entry[s][p][i]
                 \/ i <= head[p][p] /\ entry'[s][p][i] = entry[p][p][i]

-----------------------------------------------------------------------------
(* What was once agreed stays agreed through such a step.                    *)
LEMMA AgreementStable ==
    ASSUME StoreTypes, StoreTypes', StoresAgree, OwnerKept, ReplicaKept,
           NEW s \in Store, NEW p \in Peer, NEW n \in Nat, Agrees(s, p, n)
    PROVE  Agrees(s, p, n)'
<1> USE SyncAssumption
<1>1. p \in Store /\ head[p][p] \in 0..MaxEntries /\ head'[p][p] \in 0..MaxEntries
  BY DEF StoreTypes
<1>2. n <= head[p][p] /\ n <= head'[p][p]
  BY <1>1 DEF Agrees, OwnerKept
<1>3. ASSUME NEW i \in 1..n
      PROVE  entry'[s][p][i] \in Contents /\ entry'[s][p][i] = entry'[p][p][i]
  <2>1. i \in Seqs /\ i \in 1..head[p][p]
    BY <1>1, <1>2 DEF Seqs
  <2>2. entry[s][p][i] \in Contents /\ entry[s][p][i] = entry[p][p][i]
    BY DEF Agrees
  <2>3. entry'[p][p][i] = entry[p][p][i]
    BY <2>1 DEF OwnerKept
  <2>4. s # p => entry'[s][p][i] = entry[p][p][i]
    BY <2>1, <2>2 DEF ReplicaKept
  <2> QED BY <2>2, <2>3, <2>4
<1> QED BY <1>2, <1>3 DEF Agrees

(* So does what an exchange knows.                                           *)
LEMMA CallStable ==
    ASSUME StoreTypes, StoreTypes', StoresAgree, OwnerKept, ReplicaKept,
           NEW x, CallOK(x)
    PROVE  CallOK(x)'
<1> USE SyncAssumption
<1>1. /\ x \in Calls /\ x.peer \in Peer /\ x.peer \in Store /\ x.at \in Store
      /\ x.seq \in Nat /\ x.done \in Nat /\ x.upto \in Nat /\ Len(x.run) \in Nat
  BY DEF CallOK, Calls
<1>2. RunAgrees(x)'
  <2>1. head[x.peer][x.peer] \in 0..MaxEntries /\ head'[x.peer][x.peer] \in 0..MaxEntries
    BY <1>1 DEF StoreTypes
  <2>2. RunAgrees(x)
    BY DEF CallOK
  <2>3. ASSUME NEW i \in 1..Len(x.run)
        PROVE  /\ x.seq + i <= head'[x.peer][x.peer]
               /\ x.run[i] = entry'[x.peer][x.peer][x.seq + i]
    <3>1. x.seq + i <= head[x.peer][x.peer] /\ x.run[i] = entry[x.peer][x.peer][x.seq + i]
      BY <2>2 DEF RunAgrees
    <3>2. x.seq + i \in 1..head[x.peer][x.peer]
      BY <1>1, <2>1, <3>1
    <3> QED BY <1>1, <2>1, <3>1, <3>2, SMTT(30) DEF OwnerKept
  <2> QED BY <2>2, <2>3 DEF RunAgrees
<1>3. x.stage = "reading" => Agrees(x.at, x.peer, x.upto)'
  BY <1>1, AgreementStable DEF CallOK
<1>4. x.stage = "writing" => Agrees(x.at, x.peer, x.seq + x.done)'
  <2>1. x.seq + x.done \in Nat
    BY <1>1
  <2> QED BY <1>1, <2>1, AgreementStable DEF CallOK
<1> QED BY <1>1, <1>2, <1>3, <1>4 DEF CallOK, Asker

LEMMA CallUnchanged ==
    ASSUME head' = head, entry' = entry, NEW x, CallOK(x)
    PROVE  CallOK(x)'
<1>1. RunAgrees(x)' /\ (Asker(x) # x.peer)'
  BY DEF CallOK, RunAgrees, Asker
<1>2. \A n : Agrees(x.at, x.peer, n) => Agrees(x.at, x.peer, n)'
  BY DEF Agrees
<1> QED BY <1>1, <1>2 DEF CallOK

(* An exchange that goes on with what it may know, changing no store.        *)
LEMMA BecomesKeeps ==
    ASSUME IInv, NEW k \in Slot, NEW x, x = Free \/ CallOK(x), Becomes(k, x)
    PROVE  IInv'
<1>1. x \in Calls \cup {Free}
  BY DEF CallOK
<1>2. StoreTypes'
  BY <1>1 DEF IInv, StoreTypes, Becomes
<1>3. \A j \in Slot : call'[j] = IF j = k THEN x ELSE call[j]
  BY DEF Becomes, IInv, StoreTypes
<1>4. \A j \in Slot : call'[j] = Free \/ CallOK(call'[j])
  BY <1>3 DEF IInv, CallsOK
<1>5. \A y : CallOK(y) => CallOK(y)'
  BY CallUnchanged DEF Becomes
<1>6. CallsOK'
  BY <1>4, <1>5 DEF CallsOK
<1>7. AppendsOK' /\ StoresAgree'
  BY DEF Becomes, IInv, AppendsOK, AppendOK, StoresAgree, Agrees
<1> QED BY <1>2, <1>6, <1>7 DEF IInv

-----------------------------------------------------------------------------
(* What an exchange may become.                                              *)

LEMMA StageChange ==
    ASSUME NEW x, CallOK(x), x.stage \notin {"request", "reading"},
           NEW stage \in Stages \ {"request", "reading", "writing"},
           stage \in {"entries", "new", "room", "store"} => x.done = 0
    PROVE  CallOK([x EXCEPT !.stage = stage])
<1> DEFINE y == [x EXCEPT !.stage = stage]
<1>1. x \in Calls
  BY DEF CallOK
<1>2. /\ y \in Calls /\ y.stage = stage /\ y.at = x.at /\ y.from = x.from /\ y.peer = x.peer
      /\ y.seq = x.seq /\ y.run = x.run /\ y.done = x.done
  BY <1>1 DEF Calls
<1>3. Asker(y) # y.peer
  BY <1>2 DEF Asker, CallOK
<1>4. RunAgrees(y)
  BY <1>2 DEF RunAgrees, CallOK
<1>5. CallOK(y)
  <2> HIDE DEF y
  <2> QED BY <1>2, <1>3, <1>4 DEF CallOK
<1> QED BY <1>5

LEMMA NewFrame ==
    ASSUME NEW stage \in {"have", "request"}, NEW at \in Store, NEW from \in Store,
           NEW peer \in Peer, NEW seq \in 0..MaxEntries,
           stage = "request" => from # peer, stage = "have" => at # peer
    PROVE  CallOK(Frame(stage, at, from, peer, seq, <<>>))
<1> USE SyncAssumption
<1> DEFINE y == Frame(stage, at, from, peer, seq, <<>>)
<1>1. /\ y \in Calls /\ y.stage = stage /\ y.at = at /\ y.from = from /\ y.peer = peer
      /\ y.seq = seq /\ y.run = <<>>
  BY DEF Frame, Calls, Stages
<1>2. RunAgrees(y)
  BY <1>1 DEF RunAgrees
<1>3. Asker(y) # y.peer
  BY <1>1 DEF Asker
<1>4. CallOK(y)
  <2> HIDE DEF y
  <2> QED BY <1>1, <1>2, <1>3 DEF CallOK
<1> QED BY <1>4

LEMMA AskingFrame ==
    ASSUME IInv, NEW k \in Slot, call[k] # Free,
           call[k].stage \notin {"request", "reading"}
    PROVE  CallOK(RequestFrom(k, HeadOf(k)))
<1> USE SyncAssumption
<1>1. CallOK(call[k])
  BY DEF IInv, CallsOK
<1>2. call[k] \in Calls /\ call[k].at # call[k].peer
  BY <1>1 DEF CallOK, Asker
<1>3. call[k].at \in Store /\ call[k].from \in Store /\ call[k].peer \in Peer
  BY <1>2 DEF Calls
<1>4. HeadOf(k) \in 0..MaxEntries
  BY <1>3 DEF HeadOf, IInv, StoreTypes
<1> QED BY <1>2, <1>3, <1>4, NewFrame DEF RequestFrom

LEMMA MinOfTwo ==
    ASSUME NEW a \in Nat, NEW b \in Nat
    PROVE  Min({a, b}) \in Nat /\ Min({a, b}) <= a /\ Min({a, b}) <= b
<1>1. \E x \in {a, b} : \A y \in {a, b} : x =< y
  OBVIOUS
<1>2. Min({a, b}) \in {a, b} /\ \A y \in {a, b} : Min({a, b}) =< y
  BY <1>1 DEF Min
<1> QED BY <1>2

(* Agreement is downward closed.                                             *)
LEMMA AgreesBelow ==
    ASSUME NEW s, NEW p, NEW m \in Nat, NEW n \in Nat, m <= n, head[p][p] \in Nat,
           Agrees(s, p, n)
    PROVE  Agrees(s, p, m)
<1>1. m <= head[p][p] /\ \A i \in 1..m : i \in 1..n
  BY DEF Agrees
<1> QED BY <1>1 DEF Agrees

(* handleDataRequest.                                                        *)
LEMMA RequestKeeps ==
    ASSUME IInv, NEW k \in Slot, call[k] # Free, NEW limit \in Nat,
           HandleDataRequest(k, limit)
    PROVE  IInv'
<1> USE SyncAssumption
<1> DEFINE x == call[k]
           y == [x EXCEPT !.stage = "reading", !.upto = Min({HeadOf(k), x.seq + limit})]
<1>1. CallOK(x) /\ x \in Calls /\ x.stage = "request"
  BY DEF IInv, CallsOK, CallOK, HandleDataRequest
<1>2. x.at \in Store /\ x.peer \in Peer /\ x.seq \in 0..MaxEntries
  BY <1>1 DEF Calls
<1>3. HeadOf(k) \in 0..MaxEntries /\ Agrees(x.at, x.peer, HeadOf(k))
  BY <1>2 DEF HeadOf, IInv, StoreTypes, StoresAgree
<1>4. Min({HeadOf(k), x.seq + limit}) \in 0..MaxEntries /\ Min({HeadOf(k), x.seq + limit}) <= HeadOf(k)
  <2>1. HeadOf(k) \in Nat /\ x.seq + limit \in Nat
    BY <1>2, <1>3
  <2>2. /\ Min({HeadOf(k), x.seq + limit}) \in Nat
        /\ Min({HeadOf(k), x.seq + limit}) <= HeadOf(k)
    BY <2>1, MinOfTwo
  <2> QED BY <1>3, <2>2
<1>5. /\ y \in Calls /\ y.stage = "reading" /\ y.at = x.at /\ y.from = x.from /\ y.peer = x.peer
      /\ y.seq = x.seq /\ y.run = x.run /\ y.upto <= HeadOf(k) /\ y.upto \in 0..MaxEntries
  BY <1>1, <1>4 DEF Calls, Stages
<1>6. CallOK(y)
  <2>1. RunAgrees(y)
    BY <1>1, <1>5 DEF RunAgrees, CallOK
  <2>2. Asker(y) # y.peer
    BY <1>1, <1>5 DEF Asker, CallOK
  <2>3. Agrees(y.at, y.peer, y.upto)
    <3>1. x.peer \in Store /\ head[x.peer][x.peer] \in 0..MaxEntries
      BY <1>2 DEF IInv, StoreTypes
    <3> HIDE DEF y
    <3>2. y.upto \in Nat /\ HeadOf(k) \in Nat /\ head[x.peer][x.peer] \in Nat
      BY <1>3, <1>5, <3>1
    <3>3. Agrees(x.at, x.peer, y.upto)
      BY <1>3, <1>5, <3>2, AgreesBelow
    <3> QED BY <1>5, <3>3
  <2> HIDE DEF y
  <2> QED BY <1>5, <2>1, <2>2, <2>3 DEF CallOK
<1>7. Becomes(k, IF HeadOf(k) <= x.seq THEN Free ELSE y)
  BY DEF HandleDataRequest
<1> HIDE DEF y
<1> QED BY <1>6, <1>7, BecomesKeeps

(* Append adds one element, at the end.                                      *)
LEMMA AppendFacts ==
    ASSUME NEW S, NEW s \in Seq(S), NEW e \in S
    PROVE  /\ Append(s, e) \in Seq(S)
           /\ Len(Append(s, e)) = Len(s) + 1
           /\ \A i \in 1..(Len(s) + 1) :
                  Append(s, e)[i] = IF i = Len(s) + 1 THEN e ELSE s[i]
OBVIOUS

(* readRun: an entry below the head that was read is the owner's.            *)
LEMMA ReadRunKeeps ==
    ASSUME IInv, NEW k \in Slot, call[k] # Free, ReadRun(k)
    PROVE  IInv'
<1> USE SyncAssumption
<1> PICK x : x = call[k]
  OBVIOUS
<1> DEFINE next == x.seq + Len(x.run) + 1
           e == entry[x.at][x.peer][next]
           y == [x EXCEPT !.run = Append(x.run, e)]
           z == Frame("entries", x.from, x.at, x.peer, x.seq, x.run)
<1>1. CallOK(x) /\ x \in Calls /\ x.stage = "reading"
  BY DEF IInv, CallsOK, CallOK, ReadRun
<1>2. /\ x.at \in Store /\ x.from \in Store /\ x.peer \in Peer /\ x.peer \in Store
      /\ x.seq \in 0..MaxEntries /\ x.run \in Seq(Contents) /\ x.upto \in 0..MaxEntries
      /\ Len(x.run) \in Nat
  BY <1>1 DEF Calls
<1>3. RunAgrees(x) /\ Agrees(x.at, x.peer, x.upto) /\ x.from # x.peer
  BY <1>1 DEF CallOK, Asker
<1>4. head[x.peer][x.peer] \in 0..MaxEntries
  BY <1>2 DEF IInv, StoreTypes
<1>5. ASSUME next <= x.upto
      PROVE  CallOK(y)
  <2>1. next \in 1..x.upto
    BY <1>2, <1>5
  <2>2. e \in Contents /\ e = entry[x.peer][x.peer][next] /\ next <= head[x.peer][x.peer]
    <3>1. e \in Contents /\ e = entry[x.peer][x.peer][next]
      BY <1>3, <2>1 DEF Agrees
    <3>2. x.upto <= head[x.peer][x.peer]
      BY <1>3 DEF Agrees
    <3>3. next <= head[x.peer][x.peer]
      BY <1>2, <1>4, <1>5, <3>2, SMTT(30)
    <3> QED BY <3>1, <3>3
  <2> PICK r : r = Append(x.run, e)
    OBVIOUS
  <2>a. x.run \in Seq(Contents) /\ e \in Contents
    BY <1>2, <2>2
  <2> HIDE DEF e
  <2>3. r \in Seq(Contents) /\ Len(r) = Len(x.run) + 1
    BY <2>a, AppendFacts
  <2>4. \A i \in 1..(Len(x.run) + 1) :
            r[i] = IF i = Len(x.run) + 1 THEN e ELSE x.run[i]
    BY <2>a, AppendFacts
  <2>5. /\ y \in Calls /\ y.stage = "reading" /\ y.at = x.at /\ y.from = x.from /\ y.peer = x.peer
        /\ y.seq = x.seq /\ y.run = r /\ y.upto = x.upto
    BY <1>1, <2>3 DEF Calls
  <2> HIDE DEF y
  <2>6. RunAgrees(y)
    <3>1. y.seq + Len(y.run) <= MaxEntries
      <4>1. Len(y.run) = Len(x.run) + 1
        BY <2>3, <2>5
      <4>2. y.seq + Len(y.run) = next
        BY <1>2, <2>5, <4>1
      <4> QED BY <1>2, <1>5, <4>2
    <3>2. ASSUME NEW i \in 1..Len(y.run)
          PROVE  /\ y.seq + i <= head[y.peer][y.peer]
                 /\ y.run[i] = entry[y.peer][y.peer][y.seq + i]
      <4>1. CASE i = Len(x.run) + 1
        <5>1. y.run[i] = e /\ y.seq + i = next
          <6>1. y.run[i] = e
            BY <1>2, <2>4, <2>5, <4>1
          <6>2. y.seq + i = next
            BY <1>2, <2>5, <4>1
          <6> QED BY <6>1, <6>2
        <5> QED BY <2>2, <2>5, <5>1
      <4>2. CASE i # Len(x.run) + 1
        <5>1. i \in 1..Len(x.run) /\ y.run[i] = x.run[i]
          BY <1>2, <2>3, <2>4, <2>5, <4>2
        <5> QED BY <1>3, <2>5, <5>1 DEF RunAgrees
      <4> QED BY <4>1, <4>2
    <3> QED BY <3>1, <3>2 DEF RunAgrees
  <2>7. Asker(y) # y.peer /\ Agrees(y.at, y.peer, y.upto)
    BY <1>3, <2>5 DEF Asker
  <2> QED BY <2>5, <2>6, <2>7 DEF CallOK
<1>6. CallOK(z)
  <2>1. /\ z \in Calls /\ z.stage = "entries" /\ z.at = x.from /\ z.peer = x.peer
        /\ z.seq = x.seq /\ z.run = x.run /\ z.done = 0
    BY <1>2 DEF Frame, Calls, Stages
  <2> HIDE DEF z
  <2>2. RunAgrees(z) /\ Asker(z) # z.peer
    BY <1>3, <2>1 DEF RunAgrees, Asker
  <2> QED BY <2>1, <2>2 DEF CallOK
<1>7. Becomes(k, IF next <= x.upto /\ e # Missing THEN y ELSE IF x.run = <<>> THEN Free ELSE z)
  BY DEF ReadRun
<1> HIDE DEF y, z, next, e
<1> QED BY <1>5, <1>6, <1>7, BecomesKeeps

(* handleDataEntries: at the moment of the check the store agrees with the   *)
(* owner up to where the frame starts.                                       *)
LEMMA EntriesKeeps ==
    ASSUME IInv, NEW k \in Slot, call[k] # Free, call[k].stage \in {"entries", "store"},
           HandleDataEntries(k)
    PROVE  IInv'
<1> USE SyncAssumption
<1> PICK x : x = call[k]
  OBVIOUS
<1> DEFINE y == [x EXCEPT !.stage = "writing"]
<1>1. CallOK(x) /\ x \in Calls /\ x.done = 0 /\ x.at # x.peer
  BY DEF IInv, CallsOK, CallOK, Asker
<1>2. /\ x.at \in Store /\ x.peer \in Peer /\ x.seq \in 0..MaxEntries /\ Len(x.run) \in Nat
  BY <1>1 DEF Calls
<1>3. ASSUME x.seq = HeadOf(k)
      PROVE  CallOK(y)
  <2>1. /\ y \in Calls /\ y.stage = "writing" /\ y.at = x.at /\ y.peer = x.peer
        /\ y.seq = x.seq /\ y.run = x.run /\ y.done = 0
    BY <1>1 DEF Calls, Stages
  <2>2. Agrees(x.at, x.peer, x.seq)
    BY <1>2, <1>3 DEF HeadOf, IInv, StoresAgree
  <2>3. y.done <= Len(y.run) /\ y.seq + y.done = x.seq
    BY <1>2, <2>1
  <2>4. RunAgrees(y) /\ Asker(y) # y.peer
    BY <1>1, <2>1 DEF RunAgrees, Asker, CallOK
  <2> HIDE DEF y
  <2> QED BY <2>1, <2>2, <2>3, <2>4 DEF CallOK
<1>4. Becomes(k, IF x.seq # HeadOf(k) THEN Free ELSE y)
  BY DEF HandleDataEntries
<1> HIDE DEF y
<1> QED BY <1>3, <1>4, BecomesKeeps

(* One entry of a checked frame is stored: the owner's, at its place.        *)
LEMMA WriteEntryKeeps ==
    ASSUME IInv, NEW k \in Slot, call[k] # Free, WriteEntry(k)
    PROVE  IInv'
<1> USE SyncAssumption
<1> PICK x : x = call[k]
  OBVIOUS
<1> DEFINE place == x.seq + x.done + 1
           y == [x EXCEPT !.done = x.done + 1]
<1>1. CallOK(x) /\ x \in Calls /\ x.stage = "writing" /\ x.at # x.peer /\ x.done < Len(x.run)
  BY DEF IInv, CallsOK, CallOK, Asker, WriteEntry
<1>2. /\ x.at \in Store /\ x.peer \in Peer /\ x.peer \in Store /\ x.seq \in 0..MaxEntries
      /\ x.run \in Seq(Contents) /\ x.done \in 0..MaxEntries /\ Len(x.run) \in Nat
  BY <1>1 DEF Calls
<1>3. RunAgrees(x) /\ Agrees(x.at, x.peer, x.seq + x.done)
  BY <1>1 DEF CallOK
<1>4. x.done + 1 \in 1..Len(x.run) /\ x.seq + (x.done + 1) = place
  BY <1>1, <1>2
<1>5. place <= head[x.peer][x.peer] /\ x.run[x.done + 1] = entry[x.peer][x.peer][place]
  BY <1>3, <1>4 DEF RunAgrees
<1>6. x.run[x.done + 1] \in Contents /\ place \in Seqs /\ x.done + 1 \in 0..MaxEntries
  <2>1. x.run[x.done + 1] \in Contents
    BY <1>2, <1>4
  <2>2. x.seq + Len(x.run) <= MaxEntries
    BY <1>3 DEF RunAgrees
  <2>3. x.seq \in Nat /\ x.done \in Nat /\ MaxEntries \in Nat /\ x.done + 1 <= Len(x.run)
    BY <1>2, <1>4
  <2>4. x.seq + x.done + 1 <= MaxEntries /\ x.seq + x.done + 1 >= 1 /\ x.done + 1 <= MaxEntries
    BY <1>2, <2>2, <2>3, SMTT(30)
  <2> QED BY <2>1, <2>3, <2>4 DEF Seqs
<1>7. /\ entry' = [entry EXCEPT ![x.at][x.peer][place] = x.run[x.done + 1]]
      /\ call' = [call EXCEPT ![k] = y]
      /\ head' = head /\ append' = append /\ appends' = appends
  BY DEF WriteEntry
<1>8. y \in Calls
  BY <1>1, <1>6 DEF Calls
<1> HIDE DEF place, y
<1>9. StoreTypes'
  <2>1. entry' \in [Store -> [Peer -> [Seqs -> Contents \cup {Missing}]]]
    BY <1>2, <1>6, <1>7 DEF IInv, StoreTypes
  <2>2. call' \in [Slot -> Calls \cup {Free}]
    BY <1>7, <1>8 DEF IInv, StoreTypes
  <2> QED BY <1>7, <2>1, <2>2 DEF IInv, StoreTypes
<1>10. \A s \in Store, p \in Peer, i \in Seqs :
          entry'[s][p][i] = IF s = x.at /\ p = x.peer /\ i = place
                            THEN x.run[x.done + 1] ELSE entry[s][p][i]
  BY <1>2, <1>6, <1>7 DEF IInv, StoreTypes
<1>11. OwnerKept
  <2>1. \A p \in Peer : head[p][p] \in 0..MaxEntries
    BY DEF IInv, StoreTypes
  <2>2. \A p \in Peer : \A i \in 1..head[p][p] : i \in Seqs
    BY <2>1 DEF Seqs
  <2>3. \A p \in Peer, i \in Seqs : entry'[p][p][i] = entry[p][p][i]
    BY <1>1, <1>10
  <2>4. ASSUME NEW p \in Peer
        PROVE  /\ head[p][p] <= head'[p][p]
               /\ \A i \in 1..head[p][p] : entry'[p][p][i] = entry[p][p][i]
    <3>1. head'[p][p] = head[p][p] /\ head[p][p] \in Nat
      BY <1>7, <2>1
    <3> QED BY <2>2, <2>3, <3>1
  <2> QED BY <2>4 DEF OwnerKept
<1>12. ReplicaKept
  BY <1>5, <1>10 DEF ReplicaKept
<1>13. StoresAgree'
  <2>1. \A s \in Store, p \in Peer : head[s][p] \in Nat
    BY DEF IInv, StoreTypes
  <2> QED BY <1>7, <1>9, <1>11, <1>12, <2>1, AgreementStable DEF IInv, StoresAgree
<1>14. CallsOK'
  <2>1. \A z : CallOK(z) => CallOK(z)'
    BY <1>9, <1>11, <1>12, CallStable DEF IInv
  <2>2. Agrees(x.at, x.peer, x.seq + (x.done + 1))'
    <3>1. x.seq + x.done \in Nat
      BY <1>2
    <3>2. Agrees(x.at, x.peer, x.seq + x.done)'
      BY <1>2, <1>3, <1>9, <1>11, <1>12, <3>1, AgreementStable DEF IInv
    <3>3. entry'[x.at][x.peer][place] = entry'[x.peer][x.peer][place]
      BY <1>1, <1>2, <1>5, <1>6, <1>10
    <3>4. entry'[x.at][x.peer][place] \in Contents
      BY <1>2, <1>6, <1>10
    <3>5. x.seq + (x.done + 1) = place /\ \A i \in 1..place : i = place \/ i \in 1..(x.seq + x.done)
      <4>1. x.seq \in Nat /\ x.done \in Nat
        BY <1>2
      <4> QED BY <4>1 DEF place
    <3> QED BY <1>5, <1>7, <3>2, <3>3, <3>4, <3>5 DEF Agrees
  <2>3. CallOK(y)'
    <3>1. /\ y.stage = "writing" /\ y.at = x.at /\ y.from = x.from /\ y.peer = x.peer
          /\ y.seq = x.seq /\ y.run = x.run /\ y.done = x.done + 1
      BY <1>1 DEF y, Calls
    <3>2. CallOK(x)'
      BY <1>1, <2>1
    <3>3. RunAgrees(y)' /\ (Asker(y) # y.peer)'
      BY <1>1, <3>1, <3>2 DEF CallOK, RunAgrees, Asker
    <3>4. y.done <= Len(y.run) /\ Agrees(y.at, y.peer, y.seq + y.done)'
      BY <1>4, <2>2, <3>1
    <3> QED BY <1>8, <3>1, <3>3, <3>4 DEF CallOK
  <2>4. \A j \in Slot : call'[j] = IF j = k THEN y ELSE call[j]
    BY <1>7 DEF IInv, StoreTypes
  <2> QED BY <2>1, <2>3, <2>4 DEF IInv, CallsOK
<1>15. AppendsOK'
  <2> SUFFICES ASSUME NEW c \in Caller PROVE AppendOK(c)'
    BY DEF AppendsOK
  <2>1. AppendOK(c) /\ DeviceOf[c] \in Peer /\ DeviceOf[c] \in Store
    BY DEF IInv, AppendsOK
  <2>2. append[c].seq \in 0..MaxEntries /\ head[DeviceOf[c]][DeviceOf[c]] \in Nat
    BY <2>1 DEF IInv, StoreTypes, Appending
  <2>3. append[c].stage # "idle" => append[c].seq \in Seqs
    BY <2>1, <2>2 DEF AppendOK, Seqs
  <2>4. \A i \in Seqs : entry'[DeviceOf[c]][DeviceOf[c]][i] = entry[DeviceOf[c]][DeviceOf[c]][i]
    BY <1>1, <1>10, <2>1
  <2> QED BY <1>7, <2>1, <2>3, <2>4 DEF AppendOK
<1> QED BY <1>9, <1>13, <1>14, <1>15 DEF IInv

(* The head of a checked frame: by then every entry below it is stored.      *)
LEMMA WriteHeadKeeps ==
    ASSUME IInv, NEW k \in Slot, call[k] # Free, NEW then \in {"free", "bytes", "again"},
           WriteHead(k, then)
    PROVE  IInv'
<1> USE SyncAssumption
<1> PICK x : x = call[k]
  OBVIOUS
<1> PICK last : last = x.seq + Len(x.run)
  OBVIOUS
<1> PICK y : y = IF then = "free" THEN Free ELSE [x EXCEPT !.stage = then]
  OBVIOUS
<1>1. CallOK(x) /\ x \in Calls /\ x.stage = "writing" /\ x.at # x.peer /\ x.done = Len(x.run)
  BY DEF IInv, CallsOK, CallOK, Asker, WriteHead
<1>2. /\ x.at \in Store /\ x.peer \in Peer /\ x.peer \in Store /\ x.seq \in 0..MaxEntries
      /\ Len(x.run) \in Nat
  BY <1>1 DEF Calls
<1>3. Agrees(x.at, x.peer, last) /\ last \in 0..MaxEntries
  BY <1>1, <1>2 DEF CallOK, RunAgrees
<1>4. /\ head' = [head EXCEPT ![x.at][x.peer] = last]
      /\ call' = [call EXCEPT ![k] = y]
      /\ entry' = entry /\ append' = append /\ appends' = appends
  BY DEF WriteHead
<1>5. y = Free \/ CallOK(y)
  <2>1. then # "free" => /\ then \in Stages \ {"request", "reading", "writing"}
                         /\ then \notin {"entries", "new", "room", "store"}
    BY DEF Stages
  <2> QED BY <1>1, <2>1, StageChange
<1>6. StoreTypes'
  BY <1>2, <1>3, <1>4, <1>5 DEF IInv, StoreTypes, CallOK
<1>7. \A s \in Store, p \in Peer :
          head'[s][p] = IF s = x.at /\ p = x.peer THEN last ELSE head[s][p]
  BY <1>2, <1>4 DEF IInv, StoreTypes
<1>8. OwnerKept /\ ReplicaKept
  <2>1. \A p \in Peer : head'[p][p] = head[p][p] /\ head[p][p] \in Nat
    BY <1>1, <1>7 DEF IInv, StoreTypes
  <2> QED BY <1>4, <2>1 DEF OwnerKept, ReplicaKept
<1>9. StoresAgree'
  <2> SUFFICES ASSUME NEW s \in Store, NEW p \in Peer
               PROVE  Agrees(s, p, head[s][p])'
    BY DEF StoresAgree
  <2> PICK n : n = head'[s][p]
    OBVIOUS
  <2>1. Agrees(s, p, n) /\ n \in Nat
    <3>1. Agrees(s, p, head[s][p]) /\ head[s][p] \in Nat
      BY DEF IInv, StoresAgree, StoreTypes
    <3>2. n = IF s = x.at /\ p = x.peer THEN last ELSE head[s][p]
      BY <1>7
    <3> QED BY <1>3, <3>1, <3>2
  <2>2. Agrees(s, p, n)'
    BY <1>6, <1>8, <2>1, AgreementStable DEF IInv
  <2> QED BY <2>2
<1>10. CallsOK'
  <2>1. \A z : CallOK(z) => CallOK(z)'
    BY <1>6, <1>8, CallStable DEF IInv
  <2>2. \A j \in Slot : call'[j] = IF j = k THEN y ELSE call[j]
    BY <1>4 DEF IInv, StoreTypes
  <2> QED BY <1>5, <2>1, <2>2 DEF IInv, CallsOK
<1>11. AppendsOK'
  <2> SUFFICES ASSUME NEW c \in Caller PROVE AppendOK(c)'
    BY DEF AppendsOK
  <2>1. AppendOK(c) /\ DeviceOf[c] \in Peer /\ DeviceOf[c] \in Store
    BY DEF IInv, AppendsOK
  <2>2. head'[DeviceOf[c]][DeviceOf[c]] = head[DeviceOf[c]][DeviceOf[c]]
    BY <1>1, <1>7, <2>1
  <2> QED BY <1>4, <2>1, <2>2 DEF AppendOK
<1> QED BY <1>6, <1>9, <1>10, <1>11 DEF IInv

-----------------------------------------------------------------------------
(* The steps of appendOwnEntry.                                              *)

LEMMA AppendBegins ==
    ASSUME IInv, NEW c \in Caller, AppendOwnEntry(c) \/ AbandonAppend(c)
    PROVE  IInv'
<1> USE SyncAssumption
<1>1. head' = head /\ entry' = entry /\ call' = call
  BY DEF AppendOwnEntry, AbandonAppend
<1>2. DeviceOf[c] \in Peer /\ DeviceOf[c] \in Store
  OBVIOUS
<1>3. head[DeviceOf[c]][DeviceOf[c]] \in 0..MaxEntries /\ appends \in 0..MaxAppends
  BY <1>2 DEF IInv, StoreTypes
<1>4. PICK a \in Appending : /\ append' = [append EXCEPT ![c] = a]
                             /\ \/ a.stage = "idle"
                                \/ /\ a.stage = "entry" /\ a.content \in Contents
                                   /\ a.seq = head[DeviceOf[c]][DeviceOf[c]] + 1
  <2>1. CASE AppendOwnEntry(c)
    <3> DEFINE a == [stage |-> "entry", seq |-> head[DeviceOf[c]][DeviceOf[c]] + 1,
                     content |-> appends + 1]
    <3>1. a \in Appending /\ a.stage = "entry" /\ a.content \in Contents
          /\ a.seq = head[DeviceOf[c]][DeviceOf[c]] + 1
      BY <1>3, <2>1 DEF AppendOwnEntry, Appending, Contents
    <3>2. append' = [append EXCEPT ![c] = a]
      BY <2>1 DEF AppendOwnEntry
    <3> HIDE DEF a
    <3> QED BY <3>1, <3>2
  <2>2. CASE AbandonAppend(c)
    <3>1. NoAppend \in Appending /\ NoAppend.stage = "idle"
      BY DEF NoAppend, Appending
    <3> QED BY <2>2, <3>1 DEF AbandonAppend
  <2> QED BY <2>1, <2>2
<1>5. appends' \in 0..MaxAppends
  BY <1>3 DEF AppendOwnEntry, AbandonAppend
<1>6. StoreTypes'
  BY <1>1, <1>4, <1>5 DEF IInv, StoreTypes
<1>7. \A b \in Caller : append'[b] = IF b = c THEN a ELSE append[b]
  BY <1>4 DEF IInv, StoreTypes
<1>8. AppendsOK'
  BY <1>1, <1>4, <1>7 DEF IInv, AppendsOK, AppendOK
<1>9. StoresAgree'
  BY <1>1 DEF IInv, StoresAgree, Agrees
<1>10. CallsOK'
  BY <1>1, CallUnchanged DEF IInv, CallsOK
<1> QED BY <1>6, <1>8, <1>9, <1>10 DEF IInv

LEMMA AppendWriteEntryKeeps ==
    ASSUME IInv, OneCallerPerDevice, NEW c \in Caller, AppendWriteEntry(c)
    PROVE  IInv'
<1> USE SyncAssumption
<1> PICK d : d = DeviceOf[c]
  OBVIOUS
<1> PICK a : a = append[c]
  OBVIOUS
<1>1. d \in Peer /\ d \in Store /\ head[d][d] \in 0..MaxEntries
  BY DEF IInv, StoreTypes
<1>2. a \in Appending /\ a.stage = "entry" /\ a.content \in Contents /\ a.seq = head[d][d] + 1
  BY DEF IInv, StoreTypes, AppendsOK, AppendOK, AppendWriteEntry
<1>3. a.seq \in Seqs
  BY <1>1, <1>2 DEF Appending, Seqs
<1>4. /\ entry' = [entry EXCEPT ![d][d][a.seq] = a.content]
      /\ append' = [append EXCEPT ![c] = [a EXCEPT !.stage = "head"]]
      /\ head' = head /\ call' = call /\ appends' = appends
  BY DEF AppendWriteEntry
<1>5. [a EXCEPT !.stage = "head"] \in Appending
  BY <1>2 DEF Appending
<1>6. StoreTypes'
  BY <1>1, <1>2, <1>3, <1>4, <1>5 DEF IInv, StoreTypes
<1>7. \A s \in Store, p \in Peer, i \in Seqs :
          entry'[s][p][i] = IF s = d /\ p = d /\ i = a.seq THEN a.content ELSE entry[s][p][i]
  BY <1>1, <1>3, <1>4 DEF IInv, StoreTypes
<1>8. OwnerKept /\ ReplicaKept
  <2>1. \A p \in Peer : head[p][p] \in 0..MaxEntries /\ head'[p][p] = head[p][p]
    BY <1>4 DEF IInv, StoreTypes
  <2>2. \A p \in Peer : \A i \in 1..head[p][p] : i \in Seqs /\ (p = d => i # a.seq)
    BY <1>2, <2>1 DEF Seqs
  <2>3. OwnerKept
    BY <1>7, <2>1, <2>2 DEF OwnerKept
  <2>4. ReplicaKept
    BY <1>7 DEF ReplicaKept
  <2> QED BY <2>3, <2>4
<1>9. StoresAgree'
  <2>1. \A s \in Store, p \in Peer : head[s][p] \in Nat
    BY DEF IInv, StoreTypes
  <2> QED BY <1>4, <1>6, <1>8, <2>1, AgreementStable DEF IInv, StoresAgree
<1>10. CallsOK'
  <2>1. \A z : CallOK(z) => CallOK(z)'
    BY <1>6, <1>8, CallStable DEF IInv
  <2> QED BY <1>4, <2>1 DEF IInv, CallsOK
<1>11. AppendsOK'
  <2> SUFFICES ASSUME NEW b \in Caller PROVE AppendOK(b)'
    BY DEF AppendsOK
  <2>1. CASE b = c
    <3>1. append'[c].seq = a.seq /\ append'[c].content = a.content
      BY <1>2, <1>4 DEF IInv, StoreTypes, Appending
    <3>2. entry'[d][d][a.seq] = a.content
      BY <1>1, <1>3, <1>7
    <3> QED BY <1>2, <1>4, <2>1, <3>1, <3>2 DEF AppendOK
  <2>2. CASE b # c
    <3>1. DeviceOf[b] # d /\ DeviceOf[b] \in Peer /\ DeviceOf[b] \in Store
      BY <2>2 DEF OneCallerPerDevice
    <3>2. append'[b] = append[b] /\ AppendOK(b)
      BY <1>4, <2>2 DEF IInv, StoreTypes, AppendsOK
    <3>3. entry'[DeviceOf[b]] = entry[DeviceOf[b]]
      BY <1>1, <1>4, <3>1 DEF IInv, StoreTypes
    <3> QED BY <1>4, <3>2, <3>3 DEF AppendOK
  <2> QED BY <2>1, <2>2
<1> QED BY <1>6, <1>9, <1>10, <1>11 DEF IInv

LEMMA AppendWriteHeadKeeps ==
    ASSUME IInv, OneCallerPerDevice, NEW c \in Caller, AppendWriteHead(c)
    PROVE  IInv'
<1> USE SyncAssumption
<1> PICK d : d = DeviceOf[c]
  OBVIOUS
<1> PICK a : a = append[c]
  OBVIOUS
<1>1. d \in Peer /\ d \in Store /\ head[d][d] \in 0..MaxEntries
  BY DEF IInv, StoreTypes
<1>2. /\ a \in Appending /\ a.stage = "head" /\ a.content \in Contents
      /\ a.seq = head[d][d] + 1 /\ entry[d][d][a.seq] = a.content
  BY DEF IInv, StoreTypes, AppendsOK, AppendOK, AppendWriteHead
<1>3. a.seq \in 0..MaxEntries
  BY <1>2 DEF Appending
<1>4. /\ head' = [head EXCEPT ![d][d] = a.seq]
      /\ append' = [append EXCEPT ![c] = NoAppend]
      /\ entry' = entry /\ call' = call /\ appends' = appends
  BY DEF AppendWriteHead
<1>5. NoAppend \in Appending /\ NoAppend.stage = "idle"
  BY DEF NoAppend, Appending
<1>6. StoreTypes'
  BY <1>1, <1>3, <1>4, <1>5 DEF IInv, StoreTypes
<1>7. \A s \in Store, p \in Peer :
          head'[s][p] = IF s = d /\ p = d THEN a.seq ELSE head[s][p]
  BY <1>1, <1>4 DEF IInv, StoreTypes
<1>8. OwnerKept /\ ReplicaKept
  <2>1. \A p \in Peer : head[p][p] \in 0..MaxEntries /\ head[p][p] <= head'[p][p]
    <3>1. \A p \in Peer : p \in Store /\ head[p][p] \in 0..MaxEntries
      BY DEF IInv, StoreTypes
    <3>2. \A p \in Peer : head'[p][p] = IF p = d THEN head[d][d] + 1 ELSE head[p][p]
      BY <1>2, <1>7, <3>1
    <3> QED BY <3>1, <3>2
  <2> QED BY <1>4, <2>1 DEF OwnerKept, ReplicaKept
<1>9. StoresAgree'
  <2> SUFFICES ASSUME NEW s \in Store, NEW p \in Peer
               PROVE  Agrees(s, p, head[s][p])'
    BY DEF StoresAgree
  <2>1. CASE s = d /\ p = d
    <3>1. Agrees(d, d, head[d][d])
      BY <1>1 DEF IInv, StoresAgree
    <3>2. \A i \in 1..a.seq : i = a.seq \/ i \in 1..head[d][d]
      BY <1>1, <1>2
    <3>3. \A i \in 1..a.seq : entry[d][d][i] \in Contents
      BY <1>2, <3>1, <3>2 DEF Agrees
    <3>4. head'[d][d] = a.seq
      BY <1>1, <1>7
    <3> QED BY <1>3, <1>4, <2>1, <3>3, <3>4 DEF Agrees
  <2>2. CASE ~(s = d /\ p = d)
    <3> PICK n : n = head[s][p]
      OBVIOUS
    <3>1. Agrees(s, p, n) /\ n \in Nat /\ head'[s][p] = n
      BY <1>7, <2>2 DEF IInv, StoresAgree, StoreTypes
    <3>2. Agrees(s, p, n)'
      BY <1>6, <1>8, <3>1, AgreementStable DEF IInv
    <3> QED BY <3>1, <3>2
  <2> QED BY <2>1, <2>2
<1>10. CallsOK'
  <2>1. \A z : CallOK(z) => CallOK(z)'
    BY <1>6, <1>8, CallStable DEF IInv
  <2> QED BY <1>4, <2>1 DEF IInv, CallsOK
<1>11. AppendsOK'
  <2> SUFFICES ASSUME NEW b \in Caller PROVE AppendOK(b)'
    BY DEF AppendsOK
  <2>1. CASE b = c
    BY <1>4, <1>5, <2>1 DEF AppendOK, IInv, StoreTypes
  <2>2. CASE b # c
    <3>1. DeviceOf[b] # d /\ DeviceOf[b] \in Peer /\ DeviceOf[b] \in Store
      BY <2>2 DEF OneCallerPerDevice
    <3>2. append'[b] = append[b] /\ AppendOK(b)
      BY <1>4, <2>2 DEF IInv, StoreTypes, AppendsOK
    <3>3. head'[DeviceOf[b]][DeviceOf[b]] = head[DeviceOf[b]][DeviceOf[b]]
      BY <1>7, <3>1
    <3> QED BY <1>4, <3>2, <3>3 DEF AppendOK
  <2> QED BY <2>1, <2>2
<1> QED BY <1>6, <1>9, <1>10, <1>11 DEF IInv

-----------------------------------------------------------------------------
(* The steps of the hub and of the devices.                                  *)

LEMMA HubStepKeeps ==
    ASSUME IInv, NEW k \in Slot, HubStep(k)
    PROVE  IInv'
<1> USE SyncAssumption, MailboxAssumption
<1>0. call[k] # Free
  BY DEF HubStep, HubHave, HubHaveRoom, HubHaveOpen, HubEntries, HubIsNewLog, HubRoom, HubStore,
         HubStored, HubBytes, HubReadCount, HubWriteCount, AtHub, Free
<1> PICK x : x = call[k]
  OBVIOUS
<1>1. CallOK(x)
  BY <1>0 DEF IInv, CallsOK
<1>2. CASE HubHave(k)
  <2>1. x.stage = "have"
    BY <1>2 DEF HubHave, AtHub
  <2>2. CallOK([x EXCEPT !.stage = "haveRoom"]) /\ CallOK([x EXCEPT !.stage = "haveOpen"])
    BY <1>1, <2>1, StageChange DEF Stages
  <2> QED BY <1>2, <2>2, BecomesKeeps DEF HubHave
<1>3. CASE HubHaveRoom(k)
  <2>1. x.stage = "haveRoom"
    BY <1>3 DEF HubHaveRoom, AtHub
  <2>2. CallOK([x EXCEPT !.stage = "haveOpen"])
    BY <1>1, <2>1, StageChange DEF Stages
  <2> QED BY <1>3, <2>2, BecomesKeeps DEF HubHaveRoom
<1>4. CASE HubHaveOpen(k)
  <2>1. x.stage = "haveOpen"
    BY <1>4 DEF HubHaveOpen, AtHub
  <2>2. CallOK(RequestFrom(k, HeadOf(k)))
    BY <1>0, <2>1, AskingFrame
  <2> QED BY <1>4, <2>2, BecomesKeeps DEF HubHaveOpen, HandleDataHave
<1>5. CASE HubEntries(k)
  <2>1. x.stage = "entries" /\ x.done = 0
    BY <1>1, <1>5 DEF HubEntries, AtHub, CallOK
  <2>2. CallOK([x EXCEPT !.stage = "new"])
    BY <1>1, <2>1, StageChange DEF Stages
  <2> QED BY <1>5, <2>2, BecomesKeeps DEF HubEntries
<1>6. CASE HubIsNewLog(k)
  <2>1. x.stage = "new" /\ x.done = 0
    BY <1>1, <1>6 DEF HubIsNewLog, AtHub, CallOK
  <2>2. CallOK([x EXCEPT !.stage = "room"]) /\ CallOK([x EXCEPT !.stage = "store"])
    BY <1>1, <2>1, StageChange DEF Stages
  <2> QED BY <1>6, <2>2, BecomesKeeps DEF HubIsNewLog
<1>7. CASE HubRoom(k)
  <2>1. x.stage = "room" /\ x.done = 0
    BY <1>1, <1>7 DEF HubRoom, AtHub, CallOK
  <2>2. CallOK([x EXCEPT !.stage = "store"])
    BY <1>1, <2>1, StageChange DEF Stages
  <2> QED BY <1>7, <2>2, BecomesKeeps DEF HubRoom
<1>8. CASE HubStore(k)
  BY <1>0, <1>8, EntriesKeeps DEF HubStore, AtHub
<1>9. CASE HubStored(k)
  BY <1>0, <1>9, WriteHeadKeeps DEF HubStored
<1>10. CASE HubBytes(k)
  <2>1. x.stage = "bytes"
    BY <1>10 DEF HubBytes, AtHub
  <2>2. CallOK([x EXCEPT !.stage = "count"])
    BY <1>1, <2>1, StageChange DEF Stages
  <2> QED BY <1>10, <2>2, BecomesKeeps DEF HubBytes
<1>11. CASE HubReadCount(k)
  <2>1. x.stage = "count"
    BY <1>11 DEF HubReadCount, AtHub
  <2>2. CallOK([x EXCEPT !.stage = "counted"])
    BY <1>1, <2>1, StageChange DEF Stages
  <2> QED BY <1>11, <2>2, BecomesKeeps DEF HubReadCount
<1>12. CASE HubWriteCount(k)
  BY <1>12, BecomesKeeps DEF HubWriteCount
<1>13. CASE HandleDataRequest(k, ReadBatch) \/ ReadRun(k) \/ WriteEntry(k)
  BY <1>0, <1>13, RequestKeeps, ReadRunKeeps, WriteEntryKeeps
<1> QED BY <1>2, <1>3, <1>4, <1>5, <1>6, <1>7, <1>8, <1>9, <1>10, <1>11, <1>12, <1>13 DEF HubStep

LEMMA DeviceTakesKeeps ==
    ASSUME IInv, NEW k \in Slot, DeviceTakes(k)
    PROVE  IInv'
<1> USE SyncAssumption, ReplicationAssumption
<1>0. call[k] # Free
  BY DEF DeviceTakes, Free
<1>1. CASE DeviceHave(k)
  <2>1. CallOK(RequestFrom(k, HeadOf(k)))
    BY <1>0, <1>1, AskingFrame DEF DeviceHave
  <2> QED BY <1>1, <2>1, BecomesKeeps DEF DeviceHave
<1>2. CASE DeviceAsksAgain(k)
  <2>1. CallOK(RequestFrom(k, HeadOf(k)))
    BY <1>0, <1>2, AskingFrame DEF DeviceAsksAgain
  <2> QED BY <1>2, <2>1, BecomesKeeps DEF DeviceAsksAgain
<1>3. CASE DeviceEntries(k)
  BY <1>0, <1>3, EntriesKeeps DEF DeviceEntries
<1>4. CASE DeviceStored(k)
  <2>1. \E then \in {"free", "bytes", "again"} : WriteHead(k, then)
    BY <1>4 DEF DeviceStored
  <2> QED BY <1>0, <2>1, WriteHeadKeeps
<1>5. CASE HandleDataRequest(k, CatchUpBatchLimit) \/ ReadRun(k) \/ WriteEntry(k)
  BY <1>0, <1>5, RequestKeeps, ReadRunKeeps, WriteEntryKeeps
<1> QED BY <1>1, <1>2, <1>3, <1>4, <1>5 DEF DeviceTakes

(* Nothing outside the logs disturbs the invariant, and every step keeps it. *)
LEMMA StepKeeps ==
    ASSUME OneCallerPerDevice, IInv, [Next]_vars
    PROVE  IInv'
<1> USE SyncAssumption, MailboxAssumption
<1>1. CASE \E c \in Caller : Post(c)
  BY <1>1, AppendBegins, AppendWriteEntryKeeps, AppendWriteHeadKeeps DEF Post
<1>2. CASE \E k \in Slot : HubTakes(k)
  BY <1>2, HubStepKeeps DEF HubTakes
<1>3. CASE \E k \in Slot : DeviceTakes(k)
  BY <1>3, DeviceTakesKeeps
<1>4. CASE \E k \in Slot, d \in Peer, to \in Store : AnnounceOwnLog(k, d, to)
  <2>1. PICK k \in Slot, d \in Peer, to \in Store : AnnounceOwnLog(k, d, to)
    BY <1>4
  <2>2. head[d][d] \in 0..MaxEntries /\ to # d /\ d \in Store
    BY <2>1 DEF IInv, StoreTypes, AnnounceOwnLog
  <2>3. CallOK(Frame("have", to, d, d, head[d][d], <<>>))
    BY <2>2, NewFrame
  <2> QED BY <2>1, <2>3, BecomesKeeps DEF AnnounceOwnLog
<1>5. CASE \E k \in Slot, d \in Device, to \in Store, p \in Peer : RequestCatchUp(k, d, to, p)
  <2>1. PICK k \in Slot, d \in Device, to \in Store, p \in Peer : RequestCatchUp(k, d, to, p)
    BY <1>5
  <2>2. head[d][p] \in 0..MaxEntries /\ p # d /\ d \in Store
    BY <2>1 DEF IInv, StoreTypes, RequestCatchUp, Device
  <2>3. CallOK(Frame("request", to, d, p, head[d][p], <<>>))
    BY <2>2, NewFrame
  <2> QED BY <2>1, <2>3, BecomesKeeps DEF RequestCatchUp
<1>6. CASE Fails
  BY <1>6, BecomesKeeps, AppendBegins DEF Fails, HubAbandon, Abandon
<1>7. CASE UNCHANGED vars
  <2>1. head' = head /\ entry' = entry /\ call' = call /\ append' = append /\ appends' = appends
    BY <1>7 DEF vars
  <2>2. StoreTypes' /\ AppendsOK'
    BY <2>1 DEF IInv, StoreTypes, AppendsOK, AppendOK
  <2>3. StoresAgree'
    BY <2>1 DEF IInv, StoresAgree, Agrees
  <2>4. CallsOK'
    BY <2>1, CallUnchanged DEF IInv, CallsOK
  <2> QED BY <2>2, <2>3, <2>4 DEF IInv
<1> QED BY <1>1, <1>2, <1>3, <1>4, <1>5, <1>6, <1>7 DEF Next

(* Whatever interleaves and wherever a handler is cut short, the entries     *)
(* below every store's head are the owner's own, in order and without a      *)
(* hole, for any devices, exchanges, batch sizes and failures.               *)
THEOREM ReplicasArePrefixes ==
    ASSUME OneCallerPerDevice
    PROVE  Spec => []ReplicaIsPrefix
<1> USE SyncAssumption
<1>1. Init => IInv
  <2> SUFFICES ASSUME Init PROVE IInv
    OBVIOUS
  <2>1. Free \in Calls \cup {Free} /\ NoAppend \in Appending /\ NoAppend.stage = "idle"
    BY DEF NoAppend, Appending
  <2>2. StoreTypes
    BY <2>1 DEF Init, SyncInit, StoreTypes, Seqs
  <2>3. AppendsOK
    BY <2>1 DEF Init, SyncInit, AppendsOK, AppendOK
  <2>4. StoresAgree
    BY DEF Init, SyncInit, StoresAgree, Agrees
  <2>5. CallsOK
    BY DEF Init, CallsOK
  <2> QED BY <2>2, <2>3, <2>4, <2>5 DEF IInv
<1>2. IInv /\ [Next]_vars => IInv'
  BY StepKeeps
<1>3. IInv => ReplicaIsPrefix
  <2>1. Missing \notin Contents
    BY DEF Missing, Contents
  <2> QED BY <2>1 DEF IInv, StoresAgree, Agrees, ReplicaIsPrefix
<1> QED BY <1>1, <1>2, <1>3, PTL DEF Spec

=============================================================================
