---- MODULE CertificateRotation ----
(***************************************************************************)
(* The pinned certificates of a node that serves WebTransport              *)
(* (node/adapters/certificate-schedule.ts, webtransport-transport.ts) and  *)
(* the console that dials it by their hashes, remembers what it announces  *)
(* and asks its user about what it does not know (certificate-memory.ts,   *)
(* certificate-trust.ts, use-certificate-trust.ts and the console's        *)
(* webtransport-transport.ts).                                             *)
(*                                                                         *)
(* Time goes by ticks: a certificate is served for Serving of them and     *)
(* valid for twice as long.  A certificate is its start and the schedule it  *)
(* belongs to.                                                             *)
(***************************************************************************)
EXTENDS Integers, SequencesExt

CONSTANTS
    Serving,    \* ticks a certificate is served for
    Advertised, \* ADVERTISED_CERTIFICATES
    LastTick    \* bound: the clock stops there

VARIABLES
    now,
    stored,     \* the certificates in the node's storage
    schedule,   \* what advanceCertificateSchedule last returned
    running,    \* the certificate the server was started with, or NoCert
    rotation,   \* when the timer goes off, or a state of the listener
    minted,     \* how many schedules were begun
    given,      \* the address the console was given: the hashes it lists
    dialling,   \* the hashes it dials with, once they are confirmed
    memory,     \* the hashes it remembers for the node
    announced,  \* what its connection announced, if anything
    linked,     \* it is connected
    prompt      \* it waits for its user

certVars == <<now, stored, schedule, running, rotation, minted,
              given, dialling, memory, announced, linked, prompt>>

NoCert == [from |-> 0, id |-> 0]
NoSchedule == <<>>

\* The timer, when it is not armed.
Down == -1
Retired == -2

CertInit ==
    /\ now = 0
    /\ stored = <<>>
    /\ schedule = NoSchedule
    /\ running = NoCert
    /\ rotation = Down
    /\ minted = 0
    /\ given = <<>> /\ dialling = <<>> /\ memory = <<>> /\ announced = <<>>
    /\ linked = FALSE
    /\ prompt = FALSE

(***************************************************************************)
(* The node.                                                               *)
(***************************************************************************)
\* The certificates from the one serving now on: the last that has started,
\* of those still valid, or a new one.
Started ==
    LET valid == SelectSeq(stored, LAMBDA c : c.from + 2 * Serving > now)
        begun == {i \in DOMAIN valid : valid[i].from <= now}
    IN  IF begun = {} THEN <<[from |-> now, id |-> minted + 1]>>
        ELSE SubSeq(valid, CHOOSE i \in begun : \A j \in begun : j <= i, Len(valid))

\* Variant: the schedule is not written back.
AdvanceUnsaved ==
    LET missing == Advertised + 1 - Len(Started)
        last == Started[Len(Started)]
        fresh == [i \in 1 .. missing |->
                    [from |-> last.from + Serving * i, id |-> last.id]]
    IN  /\ schedule' = Started \o fresh
        /\ minted' = IF last.id > minted THEN last.id ELSE minted
        /\ UNCHANGED stored

\* advanceCertificateSchedule: successors one serving period apart, all of it
\* written back.
Advance ==
    LET missing == Advertised + 1 - Len(Started)
        last == Started[Len(Started)]
        fresh == [i \in 1 .. missing |->
                    [from |-> last.from + Serving * i, id |-> last.id]]
    IN  /\ schedule' = Started \o fresh
        /\ stored' = schedule'
        /\ minted' = IF last.id > minted THEN last.id ELSE minted

\* What an address lists, and when the next certificate takes over.
AdvertisedNow == SubSeq(schedule, 1, Advertised)
RotatesAt == schedule[2].from

\* listen: the schedule, then the server.
Listen ==
    /\ rotation = Down
    /\ Advance
    /\ running' = schedule'[1]
    /\ rotation' = schedule'[2].from
    /\ UNCHANGED <<now, given, dialling, memory, announced, linked, prompt>>

\* The timer goes off: the schedule is advanced and the server retired, its
\* sessions ended.
RotationFires ==
    /\ rotation >= 0
    /\ now >= rotation
    /\ Advance
    /\ running' = NoCert
    /\ rotation' = Retired
    /\ linked' = FALSE
    /\ UNCHANGED <<now, given, dialling, memory, announced, prompt>>

\* startServer again; a failure is tried again shortly, from the schedule on.
StartServer(ok) ==
    /\ rotation = Retired
    /\ running' = IF ok THEN schedule[1] ELSE NoCert
    /\ rotation' = IF ok THEN RotatesAt ELSE now
    /\ UNCHANGED <<now, stored, schedule, minted, given, dialling, memory, announced,
                   linked, prompt>>

\* close(), or the process ends: the storage stays.
Close ==
    /\ rotation # Down
    /\ rotation' = Down
    /\ running' = NoCert
    /\ schedule' = NoSchedule
    /\ linked' = FALSE
    /\ UNCHANGED <<now, stored, minted, given, dialling, memory, announced, prompt>>

Tick ==
    /\ now < LastTick
    /\ now' = now + 1
    /\ UNCHANGED <<stored, schedule, running, rotation, minted, given, dialling, memory,
                   announced, linked, prompt>>

(***************************************************************************)
(* The console.                                                            *)
(***************************************************************************)
\* Its user gets the address the node advertises and enters it.
GiveAddress ==
    /\ running # NoCert
    /\ ~ prompt
    /\ given' = AdvertisedNow
    /\ dialling' = <<>>
    /\ UNCHANGED <<now, stored, schedule, running, rotation, minted, memory, announced,
                   linked, prompt>>

\* assessCertificates.
Assessment ==
    IF memory = <<>> THEN "first-use"
    ELSE IF ToSet(given) \intersect ToSet(memory) # {} THEN "known" ELSE "changed"

\* confirmAddress: a node that is known is dialled by the hashes that are;
\* otherwise the user is asked, and one question is asked once.
ConfirmAddress ==
    /\ given # <<>>
    /\ dialling = <<>>
    /\ ~ prompt
    /\ IF Assessment = "known"
       THEN /\ dialling' = SelectSeq(given, LAMBDA c : c \in ToSet(memory))
            /\ UNCHANGED prompt
       ELSE /\ prompt' = TRUE
            /\ UNCHANGED dialling
    /\ UNCHANGED <<now, stored, schedule, running, rotation, minted, given, memory,
                   announced, linked>>

\* createCertificateMemory: what is remembered of a node is replaced.
Remember(list) == memory' = list

\* decide: trusted, the hashes are remembered; refused, the address is dropped.
Decide(trusted) ==
    /\ prompt
    /\ prompt' = FALSE
    /\ dialling' = IF trusted THEN given ELSE <<>>
    /\ Remember(IF trusted THEN given ELSE memory)
    /\ given' = IF trusted THEN given ELSE <<>>
    /\ UNCHANGED <<now, stored, schedule, running, rotation, minted, announced, linked>>

\* connect: the browser accepts a certificate that matches any pin, the
\* address's or the remembered ones.  The redial address is what was announced.
Pinned ==
    ToSet(IF announced # <<>> THEN announced ELSE dialling) \union ToSet(memory)
Connect ==
    /\ ~ linked
    /\ dialling # <<>>
    /\ running # NoCert
    /\ running \in Pinned
    /\ linked' = TRUE
    /\ UNCHANGED <<now, stored, schedule, running, rotation, minted, given, dialling,
                   memory, announced, prompt>>

\* readAnnouncement: what the node serves now and next, remembered.
ReadAnnouncement ==
    /\ linked
    /\ announced' = AdvertisedNow
    /\ Remember(AdvertisedNow)
    /\ UNCHANGED <<now, stored, schedule, running, rotation, minted, given, dialling,
                   linked, prompt>>

Disconnect ==
    /\ linked
    /\ linked' = FALSE
    /\ UNCHANGED <<now, stored, schedule, running, rotation, minted, given, dialling,
                   memory, announced, prompt>>

CertNext ==
    \/ Listen
    \/ RotationFires
    \/ \E ok \in BOOLEAN : StartServer(ok)
    \/ Close
    \/ Tick
    \/ GiveAddress
    \/ ConfirmAddress
    \/ \E trusted \in BOOLEAN : Decide(trusted)
    \/ Connect
    \/ ReadAnnouncement
    \/ Disconnect

(***************************************************************************)
(* Properties.                                                             *)
(***************************************************************************)
\* A list of hashes a node handed out, in an address or an announcement,
\* holds the certificate it serves for as many rotation intervals as it lists
\* certificates, however often the node is restarted, stays down or fails to
\* start again in between (ADVERTISED_CERTIFICATES in certificate-schedule.ts).
ListsOutliveRotations ==
    \A list \in {given, memory, announced} :
        (list # <<>> /\ running # NoCert /\ now < list[1].from + Advertised * Serving)
            => running \in ToSet(list)
====
