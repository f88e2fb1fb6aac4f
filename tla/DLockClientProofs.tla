------------------------- MODULE DLockClientProofs -------------------------
(***************************************************************************)
(* What a client of the lock service may rely on, proved for every set of  *)
(* locks and clients and every value of the bounds.                        *)
(*                                                                         *)
(* The argument: what a call is told is about an entry that the leader     *)
(* logged for it.  Within one leadership the entry stays in the log, and   *)
(* once it is durable it stays for good.  Where all entries of the lock    *)
(* are accepted there is only one with its nonce, so that a later release  *)
(* with the next nonce was built on that entry: after its lease, or by a   *)
(* request of the client itself.                                           *)
(***************************************************************************)
EXTENDS DLockClient, LeaseLockProofs

(* All entries of the lock up to d continue its nonces. *)
LockAccepted(l, lg, d) == \A i \in 1 .. d : lg[i].lock = l => Accepted(lg, i)

(* Entry i grants l to c with nonce n, and is released only after its      *)
(* lease.                                                                  *)
Keeps(lg, c, l, n, i) ==
    /\ lg[i].lock = l /\ lg[i].nonce = n /\ lg[i].owner = c
    /\ \A j \in i + 1 .. Len(lg) :
          lg[j].lock = l /\ lg[j].nonce = n + 1 /\ lg[j].owner = NoOwner =>
              lg[i].ts + lg[i].expire <= lg[j].ts

(* From entry j on the lock is not c's. *)
Gone(lg, c, l, j) ==
    /\ lg[j].lock = l
    /\ \A k \in j .. Len(lg) : lg[k].lock = l => lg[k].owner # c

(* What holds for client c, in call cl, with outcome oc of its last call,  *)
(* when the log is lg, durable up to d.                                    *)
CallType(cl) ==
    /\ cl.phase \in {"refresh", "query", "poll", "confirm"} => cl.lock \in Lock
    /\ cl.phase \in {"query", "confirm"} => cl.nonce \in Nat

QueryKept(c, cl, lt, lg) ==
    /\ cl.phase = "query" /\ cl.nonce > 0 /\ <<c, "release">> \notin lt
    /\ LockAccepted(cl.lock, lg, Len(lg))
    =>
        \E i \in 1 .. Len(lg) : Keeps(lg, c, cl.lock, cl.nonce, i)

ConfirmKept(c, cl, lt, lg) ==
    cl.phase = "confirm" /\ <<c, "acquire">> \notin lt /\ LockAccepted(cl.lock, lg, Len(lg)) =>
        \E j \in 1 .. Len(lg) : lg[j].nonce = cl.nonce /\ Gone(lg, c, cl.lock, j)

AcquiredKept(c, oc, lt, lg, d) ==
    oc.op = "acquired" =>
        /\ oc.lock \in Lock /\ oc.nonce \in Nat
        /\ oc.nonce > 0 /\ oc.sound /\ <<c, "release">> \notin lt =>
              \E i \in 1 .. d : Keeps(lg, c, oc.lock, oc.nonce, i)

ReleasedKept(c, oc, lt, lg, d) ==
    oc.op = "released" =>
        /\ oc.lock \in Lock
        /\ oc.sound /\ <<c, "acquire">> \notin lt => \E j \in 1 .. d : Gone(lg, c, oc.lock, j)

ClientOK(c, cl, oc, lt, lg, d) ==
    /\ CallType(cl)
    /\ oc = NoOutcome \/ cl = Idle
    /\ QueryKept(c, cl, lt, lg) /\ ConfirmKept(c, cl, lt, lg)
    /\ AcquiredKept(c, oc, lt, lg, d) /\ ReleasedKept(c, oc, lt, lg, d)

(* The inductive invariant behind both properties.  The properties speak   *)
(* of a call that has returned; the call has to be followed from its first *)
(* request, and the entries after the promised one also while they are not *)
(* durable yet.                                                            *)
ClientInv ==
    /\ DOMAIN call = Client /\ DOMAIN outcome = Client
    /\ \A c \in Client : ClientOK(c, call[c], outcome[c], late, log, Durable)

-----------------------------------------------------------------------------
LEMMA EntryFields ==
    ASSUME NEW lg \in Seq(Entry), NEW i \in 1 .. Len(lg)
    PROVE  /\ lg[i] \in Entry /\ lg[i].lock \in Lock
           /\ lg[i].nonce \in Nat /\ lg[i].ts \in Nat /\ lg[i].expire \in Nat
<1>1. lg[i] \in Entry
  BY ElementOfSeq
<1> QED BY <1>1 DEF Entry

(* One entry of a lock per nonce. *)
LEMMA SameNonceSameEntry ==
    ASSUME NEW lg \in Seq(Entry), NEW d \in Nat, d <= Len(lg), NEW l,
           LockAccepted(l, lg, d)
    PROVE  \A i, j \in 1 .. d :
               lg[i].lock = l /\ lg[j].lock = l /\ lg[i].nonce = lg[j].nonce => i = j
<1> SUFFICES ASSUME NEW i \in 1 .. d, NEW j \in 1 .. d,
                    lg[i].lock = l, lg[j].lock = l, lg[i].nonce = lg[j].nonce
             PROVE  i = j
  OBVIOUS
<1>1. Len(lg) \in Nat /\ d \in Nat
  BY LenProperties
<1>2. \A k \in 1 .. d : lg[k].nonce \in Nat
  BY <1>1, EntryFields
<1>3. \A x \in 1 .. d : \A y \in 1 .. x - 1 :
         lg[y].lock = l /\ lg[x].lock = l => lg[y].nonce < lg[x].nonce
  BY <1>1, <1>2, LockNoncesIncrease DEF LockAccepted
<1>4. CASE i < j
  BY <1>1, <1>2, <1>3, <1>4
<1>5. CASE j < i
  BY <1>1, <1>2, <1>3, <1>5
<1> QED BY <1>1, <1>4, <1>5

(* The releases in lg2 behind index len follow durable states of lg, after *)
(* the lease or not owned by c.                                            *)
Justified(c, lg, lg2, len, d) ==
    \A j \in len + 1 .. Len(lg2) : lg2[j].owner = NoOwner =>
        \E q \in 1 .. d :
            /\ lg[q].lock = lg2[j].lock /\ lg2[j].nonce = lg[q].nonce + 1
            /\ lg[q].ts + lg[q].expire <= lg2[j].ts \/ lg[q].owner # c

NoGrant(c, lg2, len) == \A j \in len + 1 .. Len(lg2) : lg2[j].owner # c

(* lg2 has the first len entries of lg. *)
Shares(lg, lg2, len) == len <= Len(lg2) /\ \A i \in 1 .. len : lg2[i] = lg[i]

(* A grant is still kept after justified releases, whose states are among  *)
(* the first a entries, all accepted.                                      *)
LEMMA KeepsExtends ==
    ASSUME NEW lg \in Seq(Entry), NEW lg2 \in Seq(Entry),
           NEW a \in Nat, a <= Len(lg), NEW d \in Nat, d <= a, NEW len \in Nat, len <= Len(lg),
           Shares(lg, lg2, len), NEW c, NEW l, NEW n, Justified(c, lg, lg2, len, d),
           LockAccepted(l, lg, a),
           NEW i \in 1 .. a, i <= len, Keeps(lg, c, l, n, i)
    PROVE  Keeps(lg2, c, l, n, i)
<1>1. Len(lg) \in Nat /\ Len(lg2) \in Nat /\ lg2[i] = lg[i]
  BY LenProperties DEF Shares
<1>2. \A k \in 1 .. Len(lg) : lg[k].nonce \in Nat
  BY EntryFields
<1>3. ASSUME NEW j \in i + 1 .. Len(lg2),
             lg2[j].lock = l, lg2[j].nonce = n + 1, lg2[j].owner = NoOwner
      PROVE  lg[i].ts + lg[i].expire <= lg2[j].ts
  <2>1. CASE j <= len
    BY <1>1, <1>3, <2>1 DEF Shares, Keeps
  <2>2. CASE j > len
    <3>1. j \in len + 1 .. Len(lg2)
      BY <1>1, <2>2
    <3>2. PICK q \in 1 .. d :
            /\ lg[q].lock = l /\ n + 1 = lg[q].nonce + 1
            /\ lg[q].ts + lg[q].expire <= lg2[j].ts \/ lg[q].owner # c
      BY <1>3, <3>1 DEF Justified
    <3>3. lg[i].lock = l /\ lg[i].nonce = n /\ lg[i].owner = c
      BY DEF Keeps
    <3>4. q \in 1 .. a /\ q \in 1 .. Len(lg) /\ i \in 1 .. Len(lg)
      BY <1>1
    <3>5. lg[q].nonce = n
      <4>1. n \in Nat /\ lg[q].nonce \in Nat
        BY <1>2, <3>3, <3>4
      <4> QED BY <3>2, <4>1
    <3>6. q = i
      <4>1. \A x, y \in 1 .. a :
               lg[x].lock = l /\ lg[y].lock = l /\ lg[x].nonce = lg[y].nonce => x = y
        BY SameNonceSameEntry
      <4> QED BY <3>2, <3>3, <3>4, <3>5, <4>1
    <3> QED BY <3>2, <3>3, <3>6
  <2> QED BY <1>1, <2>1, <2>2
<1> QED BY <1>1, <1>3 DEF Keeps

LEMMA GoneExtends ==
    ASSUME NEW lg \in Seq(Entry), NEW lg2 \in Seq(Entry),
           NEW len \in Nat, len <= Len(lg),
           Shares(lg, lg2, len), NEW c, NEW l, NoGrant(c, lg2, len),
           NEW j \in 1 .. len, Gone(lg, c, l, j)
    PROVE  Gone(lg2, c, l, j)
<1>1. Len(lg) \in Nat /\ Len(lg2) \in Nat
  BY LenProperties
<1>2. ASSUME NEW k \in j .. Len(lg2), lg2[k].lock = l PROVE lg2[k].owner # c
  <2>1. CASE k <= len
    BY <1>1, <1>2, <2>1 DEF Shares, Gone
  <2>2. CASE k > len
    BY <1>1, <2>2 DEF NoGrant
  <2> QED BY <1>1, <2>1, <2>2
<1> QED BY <1>2 DEF Gone, Shares

(* A log that is accepted was accepted when it was shorter. *)
LEMMA LockAcceptedBefore ==
    ASSUME NEW lg \in Seq(Entry), NEW lg2 \in Seq(Entry), Shares(lg, lg2, Len(lg)),
           NEW l, LockAccepted(l, lg2, Len(lg2))
    PROVE  LockAccepted(l, lg, Len(lg))
<1>1. Len(lg) \in Nat /\ Len(lg2) \in Nat /\ Len(lg) <= Len(lg2)
  BY LenProperties DEF Shares
<1>2. ASSUME NEW i \in 1 .. Len(lg), lg[i].lock = l PROVE Accepted(lg, i)
  <2>1. i \in Nat \ {0} /\ \A j \in 1 .. i : lg[j] = lg2[j]
    BY <1>1 DEF Shares
  <2>2. Accepted(lg2, i)
    BY <1>1, <1>2, <2>1 DEF LockAccepted
  <2> QED BY <2>1, <2>2, SameAccepted
<1> QED BY <1>2 DEF LockAccepted

-----------------------------------------------------------------------------
(* A step that the client does not take part in *)

(* What lg2 adds to lg behind len does not concern client c, but for the   *)
(* late acquirements and releases of c that are in lt.                     *)
Foreign(c, lt, lg, lg2, len, d) ==
    /\ Shares(lg, lg2, len)
    /\ <<c, "acquire">> \in lt \/ NoGrant(c, lg2, len)
    /\ <<c, "release">> \in lt \/ Justified(c, lg, lg2, len, d)

LEMMA QueryFrame ==
    ASSUME NEW lg \in Seq(Entry), NEW lg2 \in Seq(Entry), NEW d \in Nat, d <= Len(lg),
           NEW c, NEW cl, NEW lt, NEW lt2, lt \subseteq lt2,
           Foreign(c, lt2, lg, lg2, Len(lg), d), QueryKept(c, cl, lt, lg)
    PROVE  QueryKept(c, cl, lt2, lg2)
<1> SUFFICES ASSUME cl.phase = "query", cl.nonce > 0, <<c, "release">> \notin lt2,
                    LockAccepted(cl.lock, lg2, Len(lg2))
             PROVE  \E i \in 1 .. Len(lg2) : Keeps(lg2, c, cl.lock, cl.nonce, i)
  BY DEF QueryKept
<1>1. Len(lg) \in Nat /\ Len(lg2) \in Nat /\ Len(lg) <= Len(lg2)
  BY LenProperties DEF Foreign, Shares
<1>2. Shares(lg, lg2, Len(lg)) /\ Justified(c, lg, lg2, Len(lg), d)
  BY DEF Foreign
<1>3. LockAccepted(cl.lock, lg, Len(lg))
  BY <1>2, LockAcceptedBefore
<1>4. PICK i \in 1 .. Len(lg) : Keeps(lg, c, cl.lock, cl.nonce, i)
  BY <1>3 DEF QueryKept
<1>5. Keeps(lg2, c, cl.lock, cl.nonce, i)
  BY <1>1, <1>2, <1>3, <1>4, KeepsExtends
<1> QED BY <1>1, <1>5

LEMMA ConfirmFrame ==
    ASSUME NEW lg \in Seq(Entry), NEW lg2 \in Seq(Entry), NEW d,
           NEW c, NEW cl, NEW lt, NEW lt2, lt \subseteq lt2,
           Foreign(c, lt2, lg, lg2, Len(lg), d), ConfirmKept(c, cl, lt, lg)
    PROVE  ConfirmKept(c, cl, lt2, lg2)
<1> SUFFICES ASSUME cl.phase = "confirm", <<c, "acquire">> \notin lt2,
                    LockAccepted(cl.lock, lg2, Len(lg2))
             PROVE  \E j \in 1 .. Len(lg2) : lg2[j].nonce = cl.nonce /\ Gone(lg2, c, cl.lock, j)
  BY DEF ConfirmKept
<1>1. /\ Len(lg) \in Nat /\ Len(lg2) \in Nat /\ Len(lg) <= Len(lg2)
      /\ Shares(lg, lg2, Len(lg)) /\ NoGrant(c, lg2, Len(lg))
  BY LenProperties DEF Foreign, Shares
<1>2. LockAccepted(cl.lock, lg, Len(lg))
  BY <1>1, LockAcceptedBefore
<1>3. PICK j \in 1 .. Len(lg) : lg[j].nonce = cl.nonce /\ Gone(lg, c, cl.lock, j)
  BY <1>2 DEF ConfirmKept
<1>4. Gone(lg2, c, cl.lock, j)
  BY <1>1, <1>3, GoneExtends
<1> QED BY <1>1, <1>3, <1>4 DEF Shares

LEMMA OutcomeFrame ==
    ASSUME NEW lg \in Seq(Entry), NEW lg2 \in Seq(Entry), NEW d \in Nat, d <= Len(lg),
           NEW len \in Nat, len <= Len(lg), d <= len, NEW d2 \in Nat, d <= d2,
           \A i \in 1 .. d : Accepted(lg, i),
           NEW c, NEW oc, NEW lt, NEW lt2, lt \subseteq lt2,
           Foreign(c, lt2, lg, lg2, len, d),
           AcquiredKept(c, oc, lt, lg, d), ReleasedKept(c, oc, lt, lg, d)
    PROVE  AcquiredKept(c, oc, lt2, lg2, d2) /\ ReleasedKept(c, oc, lt2, lg2, d2)
<1>1. ASSUME oc.op = "acquired" PROVE AcquiredKept(c, oc, lt2, lg2, d2)
  <2> SUFFICES ASSUME oc.nonce > 0, oc.sound, <<c, "release">> \notin lt2
               PROVE  \E i \in 1 .. d2 : Keeps(lg2, c, oc.lock, oc.nonce, i)
    BY <1>1 DEF AcquiredKept
  <2>1. PICK i \in 1 .. d : Keeps(lg, c, oc.lock, oc.nonce, i)
    BY <1>1 DEF AcquiredKept
  <2>2. LockAccepted(oc.lock, lg, d) /\ i <= len /\ i \in 1 .. d2
    BY DEF LockAccepted
  <2>3. Shares(lg, lg2, len) /\ Justified(c, lg, lg2, len, d)
    BY DEF Foreign
  <2>4. Keeps(lg2, c, oc.lock, oc.nonce, i)
    BY <2>1, <2>2, <2>3, KeepsExtends
  <2> QED BY <2>2, <2>4
<1>2. ASSUME oc.op = "released" PROVE ReleasedKept(c, oc, lt2, lg2, d2)
  <2> SUFFICES ASSUME oc.sound, <<c, "acquire">> \notin lt2
               PROVE  \E j \in 1 .. d2 : Gone(lg2, c, oc.lock, j)
    BY <1>2 DEF ReleasedKept
  <2>2. PICK j \in 1 .. d : Gone(lg, c, oc.lock, j)
    BY <1>2 DEF ReleasedKept
  <2>3. j \in 1 .. len /\ j \in 1 .. d2
    OBVIOUS
  <2>4. Gone(lg2, c, oc.lock, j)
    BY <2>2, <2>3, GoneExtends DEF Foreign
  <2> QED BY <2>3, <2>4
<1> QED BY <1>1, <1>2 DEF AcquiredKept, ReleasedKept

(* Nothing is claimed of a client without call and outcome. *)
LEMMA IdleIsKept ==
    ASSUME NEW c, NEW lt, NEW lg, NEW d
    PROVE  /\ CallType(Idle) /\ QueryKept(c, Idle, lt, lg) /\ ConfirmKept(c, Idle, lt, lg)
           /\ AcquiredKept(c, NoOutcome, lt, lg, d) /\ ReleasedKept(c, NoOutcome, lt, lg, d)
BY DEF Idle, NoOutcome, CallType, QueryKept, ConfirmKept, AcquiredKept, ReleasedKept

LEMMA ClientFrame ==
    ASSUME NEW lg \in Seq(Entry), NEW lg2 \in Seq(Entry), NEW d \in Nat, d <= Len(lg),
           NEW len \in Nat, len <= Len(lg), d <= len, NEW d2 \in Nat, d <= d2,
           \A i \in 1 .. d : Accepted(lg, i),
           NEW c, NEW lt, NEW lt2, lt \subseteq lt2,
           Foreign(c, lt2, lg, lg2, len, d),
           NEW cl, NEW cl2, cl2 = Idle \/ (cl2 = cl /\ len = Len(lg)),
           NEW oc, NEW oc2, oc2 \in {oc, NoOutcome},
           ClientOK(c, cl, oc, lt, lg, d)
    PROVE  ClientOK(c, cl2, oc2, lt2, lg2, d2)
<1>1. CallType(cl2) /\ QueryKept(c, cl2, lt2, lg2) /\ ConfirmKept(c, cl2, lt2, lg2)
  <2>1. CASE cl2 = Idle
    BY <2>1, IdleIsKept
  <2>2. CASE cl2 = cl /\ len = Len(lg)
    BY <2>2, QueryFrame, ConfirmFrame DEF ClientOK
  <2> QED BY <2>1, <2>2
<1>2. AcquiredKept(c, oc2, lt2, lg2, d2) /\ ReleasedKept(c, oc2, lt2, lg2, d2)
  <2>1. CASE oc2 = NoOutcome
    BY <2>1, IdleIsKept
  <2>2. CASE oc2 = oc
    BY <2>2, OutcomeFrame DEF ClientOK
  <2> QED BY <2>1, <2>2
<1>3. oc2 = NoOutcome \/ cl2 = Idle
  BY DEF ClientOK
<1> QED BY <1>1, <1>2, <1>3 DEF ClientOK

-----------------------------------------------------------------------------
(* What the operations of the service log *)

(* The map's entries are durable. *)
LEMMA DurableFacts ==
    ASSUME LeaseInv
    PROVE  /\ Durable \in Nat /\ Durable <= committed /\ Durable <= Len(log)
           /\ committed \in Nat /\ Len(log) \in Nat /\ committed <= Len(log)
           /\ \A i \in 1 .. Durable : Accepted(log, i)
           /\ prevIndex \in Nat /\ prevIndex <= Durable
           /\ AppliedIndex \in Nat /\ AppliedIndex <= Durable
           /\ \A k \in 0 .. committed : (\A i \in 1 .. k : Accepted(log, i)) => k <= Durable
<1>1. /\ committed \in Nat /\ Len(log) \in Nat /\ committed <= Len(log)
      /\ prevIndex \in 0 .. committed /\ commitIndex \in 0 .. committed
  BY LenProperties DEF LeaseInv, TypeOK, IndexOrder
<1>2. /\ Durable \in 0 .. committed /\ \A i \in 1 .. Durable : Accepted(log, i)
      /\ \A k \in 0 .. committed : (\A i \in 1 .. k : Accepted(log, i)) => k <= Durable
  BY <1>1, AppliedUpToProperties DEF Durable
<1>3. prevIndex <= Durable
  BY <1>1, <1>2 DEF LeaseInv, MapAccepted
<1>4. AppliedIndex \in 0 .. committed /\ \A i \in 1 .. AppliedIndex : Accepted(log, i)
  BY <1>1, AppliedIndexProperties
<1>5. AppliedIndex <= Durable
  BY <1>2, <1>4
<1> QED BY <1>1, <1>2, <1>3, <1>4, <1>5

(* lg2 is lg with one more entry, which gives l to o with nonce n. *)
LogsOne(lg, lg2, l, n, o) ==
    /\ Shares(lg, lg2, Len(lg)) /\ Len(lg2) = Len(lg) + 1
    /\ lg2[Len(lg2)].lock = l /\ lg2[Len(lg2)].nonce = n /\ lg2[Len(lg2)].owner = o

LEMMA InsertLogsOne ==
    ASSUME LeaseInv, NEW l \in Lock, NEW n \in Nat, NEW o \in Client \cup {NoOwner},
           NEW expire \in Nat, InsertLogEntry(LogEntry(l, n, o, expire))
    PROVE  LogsOne(log, log', l, n, o)
<1> DEFINE e == LogEntry(l, n, o, expire)
<1>1. e \in Entry /\ e.lock = l /\ e.nonce = n /\ e.owner = o
  BY LogEntryType DEF LeaseInv
<1>2. log \in Seq(Entry) /\ log' = Append(log, e)
  BY DEF InsertLogEntry, LeaseInv, TypeOK
<1> HIDE DEF e
<1>3. /\ Len(log) \in Nat /\ Len(log') = Len(log) + 1 /\ log'[Len(log) + 1] = e
      /\ \A i \in 1 .. Len(log) : log'[i] = log[i]
  BY <1>1, <1>2, AppendProperties, LenProperties
<1> QED BY <1>1, <1>3 DEF LogsOne, Shares

(* lg2 is lg and grants for c. *)
OnlyGrants(c, lg, lg2) ==
    Shares(lg, lg2, Len(lg)) /\ \A j \in Len(lg) + 1 .. Len(lg2) : lg2[j].owner = c

(* lg2 is lg and releases of what c holds in the first d entries. *)
OnlyReleases(c, lg, lg2, d) ==
    /\ Shares(lg, lg2, Len(lg))
    /\ \A j \in Len(lg) + 1 .. Len(lg2) :
          /\ lg2[j].owner = NoOwner
          /\ \E q \in 1 .. d : /\ lg[q].lock = lg2[j].lock /\ lg[q].owner = c
                               /\ lg2[j].nonce = lg[q].nonce + 1

LEMMA SameLog ==
    ASSUME NEW lg \in Seq(Entry)
    PROVE  /\ Shares(lg, lg, Len(lg)) /\ \A c : OnlyGrants(c, lg, lg)
           /\ \A c, d : OnlyReleases(c, lg, lg, d)
<1>1. Len(lg) \in Nat /\ Len(lg) + 1 .. Len(lg) = {}
  BY LenProperties
<1> QED BY <1>1 DEF Shares, OnlyGrants, OnlyReleases

LEMMA OneGrant ==
    ASSUME NEW lg \in Seq(Entry), NEW lg2, NEW l, NEW n, NEW c, LogsOne(lg, lg2, l, n, c)
    PROVE  OnlyGrants(c, lg, lg2)
<1>1. Len(lg) \in Nat
  BY LenProperties
<1> QED BY <1>1 DEF LogsOne, OnlyGrants

LEMMA GrantsAreForeign ==
    ASSUME NEW c \in Client, NEW b \in Client, NEW lt, b # c \/ <<b, "acquire">> \in lt,
           NEW lg, NEW lg2, NEW d, OnlyGrants(c, lg, lg2)
    PROVE  Foreign(b, lt, lg, lg2, Len(lg), d)
BY LockAssumption DEF OnlyGrants, Foreign, NoGrant, Justified

LEMMA ReleasesAreForeign ==
    ASSUME NEW c \in Client, NEW b \in Client, NEW lt, b # c \/ <<b, "release">> \in lt,
           NEW lg, NEW lg2, NEW d, OnlyReleases(c, lg, lg2, d)
    PROVE  Foreign(b, lt, lg, lg2, Len(lg), d)
<1>1. NoGrant(b, lg2, Len(lg)) /\ Shares(lg, lg2, Len(lg))
  BY LockAssumption DEF OnlyReleases, NoGrant
<1>2. b # c => Justified(b, lg, lg2, Len(lg), d)
  BY DEF OnlyReleases, Justified
<1> QED BY <1>1, <1>2 DEF Foreign

LEMMA RefreshSpecificLogs ==
    ASSUME LeaseInv, NEW l \in Lock, NEW h \in Handler, NEW s, NEW c \in Client,
           RefreshSpecificDLock(l, h, s, c)
    PROVE  /\ OnlyGrants(c, log, log')
           /\ Grantable(h, s, c) => LogsOne(log, log', l, h.appended + 1, c)
<1>1. log \in Seq(Entry) /\ h.queue \in Seq(Waiter) /\ h.appended + 1 \in Nat
  BY DEF LeaseInv, TypeOK, Handler
<1>2. CASE Grantable(h, s, c)
  <2>1. h.queue # <<>> /\ InsertLogEntry(LogEntry(l, h.appended + 1, c, Head(h.queue).expire))
    BY <1>2 DEF RefreshSpecificDLock, Grantable
  <2>2. Head(h.queue) \in Waiter
    BY <1>1, <2>1, HeadTailProperties
  <2>3. Head(h.queue).expire \in Nat
    BY <2>2 DEF Waiter
  <2>4. LogsOne(log, log', l, h.appended + 1, c)
    BY <1>1, <2>1, <2>3, InsertLogsOne
  <2> QED BY <1>1, <2>4, OneGrant
<1>3. CASE ~Grantable(h, s, c)
  BY <1>1, <1>3, SameLog DEF RefreshSpecificDLock
<1> QED BY <1>2, <1>3

(* An acquirement logs nothing but a grant for its client, and when it is  *)
(* answered at once the grant has the nonce of the answer.                 *)
LEMMA AcquireLogs ==
    ASSUME LeaseInv, NEW c \in Client, NEW l \in Lock, NEW expire \in Expires,
           AcquireDLock(c, l, expire)
    PROVE  /\ OnlyGrants(c, log, log')
           /\ AcquiredAtOnce(l, AppliedIndex) =>
                 /\ pending'[l].appended \in Nat
                 /\ LogsOne(log, log', l, pending'[l].appended, c)
<1> DEFINE p == AppliedIndex
           s == LockState(l, log, p)
<1>1. /\ TypeOK /\ expire \in Nat /\ now \in Nat /\ log \in Seq(Entry)
      /\ pending \in [Lock -> Handler] /\ pending[l] \in Handler
  BY TimeAssumption DEF LeaseInv, TypeOK
<1>2. p \in Nat /\ p <= Len(log)
  BY DurableFacts
<1>3. \/ AcquireFirst(c, l, expire, p) \/ AcquireBehindFirst(c, l, expire, p)
      \/ AcquireDirectly(c, l, expire, p) \/ AcquireWaiting(c, l, expire, p)
      \/ AcquireFails(l, p)
  BY DEF AcquireDLock
<1> HIDE DEF p
<1>4. CASE AcquireFirst(c, l, expire, p)
  <2>1. InsertLogEntry(LogEntry(l, 1, c, expire)) /\ SetHandler(l, NewHandler(1))
    BY <1>4 DEF AcquireFirst
  <2>2. LogsOne(log, log', l, 1, c)
    BY <1>1, <2>1, InsertLogsOne
  <2>3. pending'[l] = NewHandler(1)
    BY <1>1, <2>1 DEF SetHandler
  <2>4. pending'[l].appended = 1
    BY <2>3 DEF NewHandler
  <2> QED BY <1>1, <2>2, <2>4, OneGrant
<1>5. CASE AcquireBehindFirst(c, l, expire, p)
  <2>1. log' = log /\ ~AcquiredAtOnce(l, p)
    BY <1>5 DEF AcquireBehindFirst, AcquiredAtOnce
  <2> QED BY <1>1, <2>1, SameLog DEF p
<1>6. CASE AcquireDirectly(c, l, expire, p)
  <2> DEFINE h == [pending[l] EXCEPT !.appended = @ + 1]
  <2>1. /\ HasState(l, log, p) /\ DirectlyFree(pending[l], s)
        /\ InsertLogEntry(LogEntry(l, s.nonce + 1, c, expire))
    BY <1>6 DEF AcquireDirectly
  <2>2. SetHandler(l, h)
    BY <1>6, Zenon DEF AcquireDirectly
  <2>3. s \in Entry
    BY <1>1, <1>2, <2>1, StateInLog
  <2>4. s.nonce + 1 \in Nat /\ pending[l].appended + 1 = s.nonce + 1
    <3> HIDE DEF s
    <3> QED BY <2>1, <2>3 DEF Entry, DirectlyFree
  <2>5. h.appended = pending[l].appended + 1
    <3>1. pending[l].appended + 1 \in Nat
      BY <1>1 DEF Handler
    <3> QED BY <1>1, <3>1, WithAppended, Zenon
  <2> HIDE DEF h, s
  <2>6. pending'[l] = h
    BY <1>1, <2>2 DEF SetHandler
  <2>7. LogsOne(log, log', l, s.nonce + 1, c)
    BY <1>1, <2>1, <2>4, InsertLogsOne
  <2> QED BY <1>1, <2>4, <2>5, <2>6, <2>7, OneGrant
<1>7. CASE AcquireWaiting(c, l, expire, p)
  <2>1. InsertNewAcquirement(pending[l], c, expire, now) \in Handler
    BY <1>1, InsertType
  <2>2. OnlyGrants(c, log, log')
    BY <1>7, <2>1, RefreshSpecificLogs DEF AcquireWaiting
  <2>3. ~AcquiredAtOnce(l, p)
    BY <1>7 DEF AcquireWaiting, AcquiredAtOnce
  <2> QED BY <2>2, <2>3 DEF p
<1>8. CASE AcquireFails(l, p)
  <2>1. log' = log /\ ~AcquiredAtOnce(l, p)
    BY <1>8 DEF AcquireFails, AcquiredAtOnce
  <2> QED BY <1>1, <2>1, SameLog DEF p
<1> QED BY <1>3, <1>4, <1>5, <1>6, <1>7, <1>8

(* So does a refresh, and the list it is granted from has the nonce before *)
(* the promised one.                                                       *)
LEMMA RefreshLogs ==
    ASSUME LeaseInv, NEW c \in Client, NEW l \in Lock, NEW seq,
           RefreshAcquirementBySequence(c, l, seq),
           NEW h1, h1 = AbandonExpiredAcquirement(pending[l], now)
    PROVE  /\ OnlyGrants(c, log, log') /\ h1.appended \in Nat
           /\ /\ l \in handled /\ Refreshable(h1, seq, now) /\ HasState(l, log, AppliedIndex)
              /\ Grantable(RefreshAcquirement(h1, seq, now), LockState(l, log, AppliedIndex), c)
              => LogsOne(log, log', l, h1.appended + 1, c)
<1> DEFINE p == AppliedIndex
           h2 == RefreshAcquirement(h1, seq, now)
<1>1. TypeOK /\ now \in Nat /\ pending[l] \in Handler /\ log \in Seq(Entry)
  BY DEF LeaseInv, TypeOK
<1>2. h1 \in Handler
  BY <1>1, AbandonType
<1>3. h1.appended \in Nat /\ h1.processed \in Nat
  BY <1>2 DEF Handler
<1>4. \/ RefreshLive(c, l, seq, p) \/ RefreshObsolete(l, seq)
      \/ l \notin handled /\ UNCHANGED <<log, acqVars>>
  BY DEF RefreshAcquirementBySequence
<1>5. CASE RefreshLive(c, l, seq, p)
  <2>1. /\ Refreshable(h1, seq, now)
        /\ IF HasState(l, log, p) THEN RefreshSpecificDLock(l, h2, LockState(l, log, p), c)
           ELSE SetHandler(l, h2) /\ UNCHANGED log
    BY <1>5 DEF RefreshLive
  <2>2. seq \in Nat
    BY <1>2, <1>3, <2>1 DEF Refreshable
  <2>3. h2 \in Handler /\ h2.appended = h1.appended
    BY <1>1, <1>2, <2>1, <2>2, RefreshType
  <2> HIDE DEF h2, p
  <2>4. CASE HasState(l, log, p)
    <3>1. RefreshSpecificDLock(l, h2, LockState(l, log, p), c)
      BY <2>1, <2>4
    <3>2. /\ OnlyGrants(c, log, log')
          /\ Grantable(h2, LockState(l, log, p), c) => LogsOne(log, log', l, h2.appended + 1, c)
      BY <2>3, <3>1, RefreshSpecificLogs
    <3> QED BY <1>3, <2>3, <3>2 DEF h2, p
  <2>5. CASE ~HasState(l, log, p)
    BY <1>1, <1>3, <2>1, <2>5, SameLog DEF p
  <2> QED BY <2>4, <2>5
<1>6. CASE RefreshObsolete(l, seq)
  <2>1. log' = log /\ ~Refreshable(h1, seq, now)
    BY <1>6 DEF RefreshObsolete
  <2> QED BY <1>1, <1>3, <2>1, SameLog
<1>7. CASE l \notin handled /\ UNCHANGED <<log, acqVars>>
  BY <1>1, <1>3, <1>7, SameLog
<1> QED BY <1>4, <1>5, <1>6, <1>7

(* A release request or a poll logs nothing, or a release of what its      *)
(* client holds, built on the applied state.                               *)
LEMMA LogReleaseLogs ==
    ASSUME LeaseInv, NEW c \in Client, NEW l \in Lock, LogRelease(c, l, AppliedIndex)
    PROVE  /\ OnlyReleases(c, log, log', Durable)
           /\ LockState(l, log, AppliedIndex).nonce \in Nat
           /\ LogsOne(log, log', l, LockState(l, log, AppliedIndex).nonce + 1, NoOwner)
<1> DEFINE p == AppliedIndex
           s == LockState(l, log, p)
<1>1. log \in Seq(Entry) /\ p \in Nat /\ p <= Durable /\ p <= Len(log) /\ Durable \in Nat
  BY DurableFacts DEF LeaseInv, TypeOK
<1>2. HasState(l, log, p) /\ s.owner = c
  BY DEF LogRelease, ReleaseOver, ReleaseLater, ReleaseFails
<1>3. InsertLogEntry(LogEntry(l, s.nonce + 1, NoOwner, 0))
  BY DEF LogRelease
<1> HIDE DEF p
<1>4. PICK q \in 1 .. Len(log) : q \in 1 .. p /\ s = log[q] /\ log[q] \in Entry /\ log[q].lock = l
  BY <1>1, <1>2, StateInLog
<1> HIDE DEF s
<1>5. s.nonce \in Nat /\ s.nonce + 1 \in Nat
  BY <1>4 DEF Entry
<1>6. LogsOne(log, log', l, s.nonce + 1, NoOwner)
  BY <1>3, <1>5, InsertLogsOne
<1>7. Len(log) \in Nat /\ q \in 1 .. Durable
  BY <1>1, <1>4, LenProperties
<1>8. OnlyReleases(c, log, log', Durable)
  <2>1. Shares(log, log', Len(log)) /\ Len(log') = Len(log) + 1
    BY <1>6 DEF LogsOne
  <2>2. ASSUME NEW j \in Len(log) + 1 .. Len(log')
        PROVE  /\ log'[j].owner = NoOwner /\ log[q].lock = log'[j].lock
               /\ log[q].owner = c /\ log'[j].nonce = log[q].nonce + 1
    <3>1. j = Len(log')
      BY <1>7, <2>1
    <3> QED BY <1>2, <1>4, <1>6, <3>1 DEF LogsOne
  <2> QED BY <1>7, <2>1, <2>2 DEF OnlyReleases
<1> QED BY <1>5, <1>6, <1>8 DEF s, p

LEMMA ReleaseLogs ==
    ASSUME LeaseInv, NEW c \in Client, NEW l \in Lock, ReleaseDLock(c, l) \/ PollRelease(c, l)
    PROVE  OnlyReleases(c, log, log', Durable)
<1>1. log \in Seq(Entry)
  BY DEF LeaseInv, TypeOK
<1>2. LogRelease(c, l, AppliedIndex) \/ log' = log
  BY DEF ReleaseDLock, PollRelease
<1> QED BY <1>1, <1>2, LogReleaseLogs, SameLog

(* A scan of the first entries of the log, lg, of which the map has        *)
(* applied p, releases what has expired.                                   *)
LEMMA ScanLogs ==
    ASSUME LeaseInv, NEW lg \in Seq(Entry), Len(lg) <= Len(log),
           \A i \in 1 .. Len(lg) : lg[i] = log[i],
           NEW p \in Nat, p <= Len(lg), p <= Durable, NEW hd, NEW hs,
           ScanDLockStateMap(lg, p, hd, hs), NEW c \in Client, NEW lt
    PROVE  Foreign(c, lt, log, log', Len(lg), Durable)
<1> DEFINE due == ToRelease(lg, p, Scanned(lg, p, hd, hs))
<1>1. /\ TypeOK /\ Len(lg) \in Nat /\ Len(log) \in Nat /\ Durable \in Nat
      /\ log \in Seq(Entry) /\ \A i \in 1 .. Len(lg) : lg[i].ts <= now
  <2>1. /\ TypeOK /\ Len(lg) \in Nat /\ Len(log) \in Nat /\ Durable \in Nat
    BY DurableFacts, LenProperties DEF LeaseInv
  <2>2. \A i \in 1 .. Len(lg) : i \in 1 .. Len(log) /\ lg[i].ts <= now
    BY <2>1 DEF LeaseInv, WellBuilt
  <2> QED BY <2>1, <2>2 DEF TypeOK
<1>2. /\ Continues(lg, log')
      /\ \A j \in Len(lg) + 1 .. Len(log') :
            \E l \in due : log'[j] = ReleaseOf(l, lg, p) /\ log'[j].lock = l
  <2>1. due = ToRelease(lg, p, Scanned(lg, p, hd, hs))
    OBVIOUS
  <2> HIDE DEF due
  <2> QED BY <1>1, <2>1, ScanDetails
<1>3. Shares(log, log', Len(lg))
  BY <1>1, <1>2 DEF Continues, Shares
<1>4. ASSUME NEW j \in Len(lg) + 1 .. Len(log')
      PROVE  /\ log'[j].owner = NoOwner
             /\ \E q \in 1 .. Durable :
                   /\ log[q].lock = log'[j].lock /\ log'[j].nonce = log[q].nonce + 1
                   /\ log[q].ts + log[q].expire <= log'[j].ts
  <2>1. PICK l \in due : log'[j] = ReleaseOf(l, lg, p) /\ log'[j].lock = l
    BY <1>2
  <2>2. /\ l \in Lock /\ HasState(l, lg, p)
        /\ LockState(l, lg, p).ts + LockState(l, lg, p).expire < now
    BY DEF ToRelease
  <2> DEFINE s == LockState(l, lg, p)
  <2> HIDE DEF due
  <2>3. PICK q \in 1 .. Len(lg) : q \in 1 .. p /\ s = lg[q] /\ lg[q] \in Entry /\ lg[q].lock = l
    BY <2>2, StateInLog
  <2>4. log'[j].nonce = s.nonce + 1 /\ log'[j].owner = NoOwner /\ log'[j].ts = now
    BY <2>1 DEF ReleaseOf, LogEntry
  <2> HIDE DEF s
  <2>5. s \in Entry /\ log[q] = s
    BY <2>3
  <2>6. s.ts \in Nat /\ s.expire \in Nat
    BY <2>5 DEF Entry
  <2>7. q \in 1 .. Durable
    BY <1>1, <2>3
  <2>8. s.ts + s.expire <= now
    <3>1. now \in Nat
      BY <1>1 DEF TypeOK
    <3> QED BY <2>2, <2>6, <3>1 DEF s
  <2> QED BY <2>1, <2>3, <2>4, <2>5, <2>7, <2>8
<1> HIDE DEF due
<1>5. NoGrant(c, log', Len(lg)) /\ Justified(c, log, log', Len(lg), Durable)
  BY <1>4, LockAssumption DEF NoGrant, Justified
<1> QED BY <1>3, <1>5 DEF Foreign

-----------------------------------------------------------------------------
(* The library's steps are steps of the service *)

LEMMA AbandonKeepsAssigned ==
    ASSUME NEW h \in Handler, NEW t
    PROVE  Assigned(AbandonExpiredAcquirement(h, t)) = Assigned(h) /\ Assigned(h) \in Nat
<1> DEFINE S == {k \in 0 .. Len(h.queue) : \A i \in 1 .. k : Outdated(h.queue[i], t)}
           gone == LastOf(S)
           q2 == SubSeq(h.queue, gone + 1, Len(h.queue))
           p2 == h.processed + gone
<1>1. h.queue \in Seq(Waiter) /\ h.processed \in Nat
  BY DEF Handler
<1>2. Len(h.queue) \in Nat
  BY <1>1, LenProperties
<1>3. gone \in 0 .. Len(h.queue)
  <2>1. S \in SUBSET Nat /\ 0 \in S /\ \A k \in S : k <= Len(h.queue)
    BY <1>2
  <2>2. S \subseteq 0 .. Len(h.queue)
    OBVIOUS
  <2> HIDE DEF S
  <2> QED BY <1>2, <2>1, <2>2, LastOfIsLargest
<1>4. AbandonExpiredAcquirement(h, t) = [h EXCEPT !.processed = p2, !.queue = q2]
  BY Zenon DEF AbandonExpiredAcquirement
<1> HIDE DEF gone
<1>5. p2 \in Nat /\ Len(q2) = Len(h.queue) - gone
  <2>1. \A i \in gone + 1 .. Len(h.queue) : h.queue[i] \in Waiter
    BY <1>1, <1>2, <1>3, ElementOfSeq
  <2> QED BY <1>1, <1>2, <1>3, <2>1, SubSeqProperties
<1>6. AbandonExpiredAcquirement(h, t).processed = p2 /\ AbandonExpiredAcquirement(h, t).queue = q2
  <2> HIDE DEF p2, q2
  <2> QED BY <1>4, Zenon DEF Handler
<1> QED BY <1>1, <1>2, <1>3, <1>5, <1>6 DEF Assigned

(* A sequence number that the list never gave out has the same effect as   *)
(* any that is not in it.                                                  *)
LEMMA RefreshIsRequest ==
    ASSUME LeaseInv, NEW c \in Client, NEW l \in Lock, NEW seq,
           RefreshAcquirementBySequence(c, l, seq)
    PROVE  ClientRequest(c, l)
<1> DEFINE h1 == AbandonExpiredAcquirement(pending[l], now)
           top == Assigned(pending[l])
<1>1. pending[l] \in Handler
  BY DEF LeaseInv, TypeOK
<1>2. h1 \in Handler /\ Assigned(h1) = top /\ top \in Nat
  BY <1>1, AbandonType, AbandonKeepsAssigned
<1>3. h1.processed \in Nat
  BY <1>2 DEF Handler
<1>4. CASE Refreshable(h1, seq, now)
  <2>1. seq \in 1 .. top + 1
    <3> HIDE DEF top, h1
    <3> QED BY <1>2, <1>3, <1>4 DEF Refreshable
  <2> QED BY <2>1 DEF ClientRequest
<1>5. CASE ~Refreshable(h1, seq, now)
  <2>1. ~Refreshable(h1, top + 1, now) /\ top + 1 \in 1 .. top + 1
    <3> HIDE DEF top, h1
    <3> QED BY <1>2, <1>3 DEF Refreshable
  <2>2. RefreshAcquirementBySequence(c, l, top + 1)
    BY <1>5, <2>1 DEF RefreshAcquirementBySequence, RefreshLive, RefreshObsolete
  <2> QED BY <2>1, <2>2 DEF ClientRequest
<1> QED BY <1>4, <1>5

LEMMA ClientNextIsNext ==
    ASSUME LeaseInv, ClientInv, [ClientNext]_clientSystemVars
    PROVE  [Next]_vars
<1>1. CASE UNCHANGED clientSystemVars
  BY <1>1 DEF clientSystemVars
<1>2. ASSUME NEW c \in Client, RefreshRequest(c) PROVE Next
  <2>1. call[c].lock \in Lock
    BY <1>2 DEF RefreshRequest, ClientInv, ClientOK, CallType
  <2>2. RefreshAcquirementBySequence(c, call[c].lock, call[c].seq)
    BY <1>2 DEF RefreshRequest
  <2>3. ClientRequest(c, call[c].lock)
    BY <2>1, <2>2, RefreshIsRequest
  <2> QED BY <2>1, <2>3 DEF Next
<1>3. ASSUME NEW c \in Client, AcquireConfirmed(c) \/ ReleaseConfirmed(c) \/ GiveUp(c)
      PROVE  UNCHANGED vars
  BY <1>3 DEF AcquireConfirmed, ReleaseConfirmed, GiveUp
<1>4. ASSUME NEW c \in Client, NEW l \in Lock, NEW expire \in Expires,
             AcquireRequest(c, l, expire) \/ LateAcquire(c, l, expire)
      PROVE  Next
  BY <1>4 DEF AcquireRequest, LateAcquire, Next, ClientRequest
<1>5. ASSUME NEW c \in Client, NEW l \in Lock,
             \/ ReleaseRequest(c, l) \/ PollRequest(c, l) \/ PollGivenUp(c, l)
             \/ LateRelease(c, l)
      PROVE  Next
  BY <1>5 DEF ReleaseRequest, PollRequest, PollGivenUp, LateRelease, Next, ClientRequest
<1>6. ASSUME NEW length \in committed .. Len(log), NEW known \in 0 .. committed,
             ChangeOfLeader(length, known)
      PROVE  Next
  BY <1>6 DEF ChangeOfLeader, Next
<1>7. CASE ReleaseExpiredDLockPeriodically \/ CommitToStateMap \/ Commit \/ Tick
  BY <1>7 DEF Next
<1>8. ASSUME NEW c \in Client, NEW l \in Lock, NEW seq, LateRefresh(c, l, seq)
      PROVE  Next
  <2>1. ClientRequest(c, l)
    BY <1>8, RefreshIsRequest DEF LateRefresh
  <2> QED BY <2>1 DEF Next
<1> QED BY <1>1, <1>2, <1>3, <1>4, <1>5, <1>6, <1>7, <1>8 DEF ClientNext, LibraryStep

-----------------------------------------------------------------------------
(* Every step preserves ClientInv *)

(* What ClientInv' says if dd is Durable'. *)
ClientsKept(dd) ==
    /\ DOMAIN call' = Client /\ DOMAIN outcome' = Client
    /\ \A c \in Client : ClientOK(c, call'[c], outcome'[c], late', log', dd)

(* A step that concerns nobody: calls go on or end, and outcomes stay. *)
LEMMA NobodyConcerned ==
    ASSUME LeaseInv, ClientInv, log' \in Seq(Entry), NEW dd \in Nat, Durable <= dd,
           NEW len \in Nat, Durable <= len, len <= Len(log),
           DOMAIN call' = Client, outcome' = outcome, late \subseteq late',
           \A c \in Client : /\ Foreign(c, late', log, log', len, Durable)
                             /\ call'[c] = Idle \/ (call'[c] = call[c] /\ len = Len(log))
    PROVE  ClientsKept(dd)
<1>1. /\ log \in Seq(Entry) /\ Durable \in Nat /\ Durable <= Len(log)
      /\ \A i \in 1 .. Durable : Accepted(log, i)
  BY DurableFacts DEF LeaseInv, TypeOK
<1>2. ASSUME NEW c \in Client PROVE ClientOK(c, call'[c], outcome'[c], late', log', dd)
  <2>1. /\ ClientOK(c, call[c], outcome[c], late, log, Durable)
        /\ Foreign(c, late', log, log', len, Durable)
        /\ call'[c] = Idle \/ (call'[c] = call[c] /\ len = Len(log))
        /\ outcome'[c] \in {outcome[c], NoOutcome}
    BY DEF ClientInv
  <2> DEFINE cl == call[c]
             cl2 == call'[c]
             oc == outcome[c]
             oc2 == outcome'[c]
             lt2 == late'
             lg2 == log'
             d == Durable
  <2>2. /\ ClientOK(c, cl, oc, late, log, d) /\ Foreign(c, lt2, log, lg2, len, d)
        /\ cl2 = Idle \/ (cl2 = cl /\ len = Len(log))
        /\ oc2 \in {oc, NoOutcome} /\ late \subseteq lt2 /\ lg2 \in Seq(Entry)
        /\ d \in Nat /\ d <= Len(log) /\ d <= len /\ d <= dd
        /\ \A i \in 1 .. d : Accepted(log, i)
    BY <1>1, <2>1
  <2> HIDE DEF cl, cl2, oc, oc2, lt2, lg2, d
  <2>3. ClientOK(c, cl2, oc2, lt2, lg2, dd)
    BY <1>1, <2>2, ClientFrame
  <2> QED BY <2>3 DEF cl2, oc2, lt2, lg2
<1>3. DOMAIN outcome' = Client
  BY DEF ClientInv
<1> QED BY <1>2, <1>3 DEF ClientsKept

LEMMA SameLogIsForeign ==
    ASSUME NEW lg \in Seq(Entry), NEW c, NEW lt, NEW d
    PROVE  Foreign(c, lt, lg, lg, Len(lg), d)
<1>1. Len(lg) \in Nat /\ Len(lg) + 1 .. Len(lg) = {}
  BY LenProperties
<1> QED BY <1>1, SameLog DEF Foreign, NoGrant, Justified

(* The special case in which nothing is logged. *)
LEMMA NothingConcerns ==
    ASSUME LeaseInv, ClientInv, log' = log, NEW dd \in Nat, Durable <= dd,
           DOMAIN call' = Client, outcome' = outcome, late \subseteq late',
           \A c \in Client : call'[c] \in {Idle, call[c]}
    PROVE  ClientsKept(dd)
<1>1. log \in Seq(Entry) /\ Len(log) \in Nat /\ Durable <= Len(log)
  BY DurableFacts DEF LeaseInv, TypeOK
<1>2. \A c \in Client : Foreign(c, late', log, log, Len(log), Durable)
  BY <1>1, SameLogIsForeign
<1> QED BY <1>1, <1>2, NobodyConcerned

(* A step of client c: the others go on as they were. *)
OnlyOf(c) ==
    /\ DOMAIN call' = Client /\ DOMAIN outcome' = Client /\ late \subseteq late'
    /\ \A b \in Client : b # c => call'[b] = call[b] /\ outcome'[b] = outcome[b]

LEMMA OneConcerned ==
    ASSUME LeaseInv, ClientInv, log' \in Seq(Entry), NEW dd \in Nat, Durable <= dd,
           NEW c \in Client, OnlyGrants(c, log, log') \/ OnlyReleases(c, log, log', Durable),
           OnlyOf(c), ClientOK(c, call'[c], outcome'[c], late', log', dd)
    PROVE  ClientsKept(dd)
<1>1. /\ log \in Seq(Entry) /\ Durable \in Nat /\ Durable <= Len(log) /\ Len(log) \in Nat
      /\ \A i \in 1 .. Durable : Accepted(log, i)
  BY DurableFacts DEF LeaseInv, TypeOK
<1>2. ASSUME NEW b \in Client, b # c
      PROVE  ClientOK(b, call[b], outcome[b], late', log', dd)
  <2> DEFINE cl1 == call[b]
             oc1 == outcome[b]
             lt2 == late'
             lg2 == log'
             d == Durable
  <2>1. Foreign(b, lt2, log, lg2, Len(log), d)
    BY <1>2, GrantsAreForeign, ReleasesAreForeign
  <2>2. /\ ClientOK(b, cl1, oc1, late, log, d)
        /\ late \subseteq lt2 /\ lg2 \in Seq(Entry)
        /\ d \in Nat /\ d <= Len(log) /\ d <= dd
        /\ \A i \in 1 .. d : Accepted(log, i)
    BY <1>1 DEF ClientInv, OnlyOf
  <2> HIDE DEF cl1, oc1, lt2, lg2, d
  <2>3. ClientOK(b, cl1, oc1, lt2, lg2, dd)
    BY <1>1, <2>1, <2>2, ClientFrame
  <2> QED BY <2>3 DEF cl1, oc1, lt2, lg2
<1> QED BY <1>2 DEF ClientsKept, OnlyOf

(* The ways in which a call begins, goes on and ends. *)
LEMMA CallSteps ==
    ASSUME ClientInv, NEW c \in Client
    PROVE  /\ \A cl : Begins(c, cl) =>
                  OnlyOf(c) /\ call'[c] = cl /\ outcome'[c] = NoOutcome /\ late' = late
           /\ \A cl : GoesOn(c, cl) =>
                  OnlyOf(c) /\ call'[c] = cl /\ outcome'[c] = outcome[c] /\ late' = late
           /\ \A o : Succeeds(c, o) =>
                  OnlyOf(c) /\ call'[c] = Idle /\ outcome'[c] = o /\ late' = late
           /\ UNCHANGED clientVars =>
                  OnlyOf(c) /\ call'[c] = call[c] /\ outcome'[c] = outcome[c] /\ late' = late
BY DEF ClientInv, OnlyOf, Begins, GoesOn, Succeeds, Enter, clientVars

-----------------------------------------------------------------------------
(* The client that takes the step *)

LEMMA InCall ==
    ASSUME NEW c, NEW cl, CallType(cl), NEW lt, NEW lg, NEW d,
           QueryKept(c, cl, lt, lg), ConfirmKept(c, cl, lt, lg)
    PROVE  ClientOK(c, cl, NoOutcome, lt, lg, d)
BY IdleIsKept DEF ClientOK

LEMMA IdleOK ==
    ASSUME NEW c, NEW lt, NEW lg, NEW d
    PROVE  ClientOK(c, Idle, NoOutcome, lt, lg, d)
BY IdleIsKept DEF ClientOK

LEMMA WaitingOK ==
    ASSUME NEW c, NEW l \in Lock, NEW seq, NEW lt, NEW lg, NEW d
    PROVE  /\ ClientOK(c, Refreshing(l, seq), NoOutcome, lt, lg, d)
           /\ ClientOK(c, Polling(l), NoOutcome, lt, lg, d)
           /\ ClientOK(c, Querying(l, 0), NoOutcome, lt, lg, d)
<1>1. ASSUME NEW cl, cl \in {Refreshing(l, seq), Polling(l), Querying(l, 0)}
      PROVE  CallType(cl) /\ QueryKept(c, cl, lt, lg) /\ ConfirmKept(c, cl, lt, lg)
  BY <1>1 DEF Refreshing, Polling, Querying, CallType, QueryKept, ConfirmKept
<1> QED BY <1>1, InCall

(* The promised grant is the last entry. *)
LEMMA QueryingOK ==
    ASSUME NEW lg \in Seq(Entry), NEW lg2, NEW l \in Lock, NEW n \in Nat, NEW c, NEW lt, NEW d,
           LogsOne(lg, lg2, l, n, c)
    PROVE  ClientOK(c, Querying(l, n), NoOutcome, lt, lg2, d)
<1>1. Len(lg) \in Nat /\ Len(lg2) = Len(lg) + 1
  BY LenProperties DEF LogsOne
<1>2. Keeps(lg2, c, l, n, Len(lg2))
  BY <1>1 DEF LogsOne, Keeps
<1>3. QueryKept(c, Querying(l, n), lt, lg2)
  BY <1>1, <1>2 DEF Querying, QueryKept
<1> QED BY <1>3, InCall DEF Querying, CallType, ConfirmKept

(* The release to be confirmed is the last entry. *)
LEMMA ConfirmingOK ==
    ASSUME NEW lg \in Seq(Entry), NEW lg2, NEW l \in Lock, NEW n \in Nat, NEW c \in Client,
           NEW lt, NEW d, LogsOne(lg, lg2, l, n, NoOwner)
    PROVE  ClientOK(c, Confirming(l, n), NoOutcome, lt, lg2, d)
<1>1. Len(lg) \in Nat /\ Len(lg2) = Len(lg) + 1
  BY LenProperties DEF LogsOne
<1>2. Gone(lg2, c, l, Len(lg2)) /\ lg2[Len(lg2)].nonce = n
  BY <1>1, LockAssumption DEF LogsOne, Gone
<1>3. ConfirmKept(c, Confirming(l, n), lt, lg2)
  BY <1>1, <1>2 DEF Confirming, ConfirmKept
<1> QED BY <1>3, InCall DEF Confirming, CallType, QueryKept

LEMMA AcquireRequestStep ==
    ASSUME LeaseInv, ClientInv, log' \in Seq(Entry), NEW dd \in Nat, Durable <= dd,
           NEW c \in Client, NEW l \in Lock, NEW expire \in Expires,
           AcquireRequest(c, l, expire)
    PROVE  ClientsKept(dd)
<1> DEFINE p == AppliedIndex
           seq == SequenceOf(c, InsertNewAcquirement(pending[l], c, expire, now))
<1>1. log \in Seq(Entry)
  BY DEF LeaseInv, TypeOK
<1>2. AcquireDLock(c, l, expire)
  BY DEF AcquireRequest
<1>3. /\ OnlyGrants(c, log, log')
      /\ AcquiredAtOnce(l, p) => /\ pending'[l].appended \in Nat
                                 /\ LogsOne(log, log', l, pending'[l].appended, c)
  BY <1>2, AcquireLogs
<1>4. PICK cl : Begins(c, cl) /\ \/ AcquiredAtOnce(l, p) /\ cl = Querying(l, pending'[l].appended)
                                 \/ cl = Idle
                                 \/ cl = Refreshing(l, seq)
  BY DEF AcquireRequest
<1> HIDE DEF p, seq
<1>5. ClientOK(c, cl, NoOutcome, late', log', dd)
  <2>1. CASE cl = Idle
    BY <2>1, IdleOK
  <2>2. CASE cl = Refreshing(l, seq)
    BY <2>2, WaitingOK
  <2>3. CASE AcquiredAtOnce(l, p) /\ cl = Querying(l, pending'[l].appended)
    <3> DEFINE n == pending'[l].appended
    <3>1. n \in Nat /\ LogsOne(log, log', l, n, c) /\ cl = Querying(l, n)
      BY <1>3, <2>3
    <3> HIDE DEF n
    <3> QED BY <1>1, <3>1, QueryingOK
  <2> QED BY <1>4, <2>1, <2>2, <2>3
<1>6. OnlyOf(c) /\ call'[c] = cl /\ outcome'[c] = NoOutcome
  BY <1>4, CallSteps
<1> QED BY <1>3, <1>5, <1>6, OneConcerned

(* A client in a call has no outcome. *)
LEMMA NoOutcomeInCall ==
    ASSUME ClientInv, NEW c \in Client, call[c].phase # "idle"
    PROVE  outcome[c] = NoOutcome
<1>1. call[c] # Idle
  BY DEF Idle
<1> QED BY <1>1 DEF ClientInv, ClientOK

LEMMA RefreshRequestStep ==
    ASSUME LeaseInv, ClientInv, log' \in Seq(Entry), NEW dd \in Nat, Durable <= dd,
           NEW c \in Client, RefreshRequest(c)
    PROVE  ClientsKept(dd)
<1> DEFINE l == call[c].lock
           seq == call[c].seq
           p == AppliedIndex
           h1 == AbandonExpiredAcquirement(pending[l], now)
           won == /\ Refreshable(h1, seq, now) /\ HasState(l, log, p)
                  /\ Grantable(RefreshAcquirement(h1, seq, now), LockState(l, log, p), c)
<1>1. log \in Seq(Entry) /\ call[c].phase = "refresh" /\ l \in Lock
  BY DEF LeaseInv, TypeOK, RefreshRequest, ClientInv, ClientOK, CallType
<1>2. RefreshAcquirementBySequence(c, l, seq)
  BY DEF RefreshRequest
<1>3. outcome[c] = NoOutcome
  BY <1>1, NoOutcomeInCall
<1>4. \/ GoesOn(c, Querying(l, 0)) \/ GoesOn(c, Idle)
      \/ l \in handled /\ won /\ GoesOn(c, Querying(l, h1.appended + 1))
      \/ UNCHANGED clientVars
  BY DEF RefreshRequest
<1>5. /\ OnlyGrants(c, log, log') /\ h1.appended \in Nat
      /\ l \in handled /\ won => LogsOne(log, log', l, h1.appended + 1, c)
  <2>1. h1 = AbandonExpiredAcquirement(pending[l], now)
    OBVIOUS
  <2> HIDE DEF l, seq, h1
  <2> QED BY <1>1, <1>2, <2>1, RefreshLogs
<1>6. CASE UNCHANGED clientVars
  <2>1. OnlyOf(c) /\ call'[c] = call[c] /\ outcome'[c] = NoOutcome
    BY <1>3, <1>6, CallSteps
  <2>2. /\ CallType(call[c]) /\ QueryKept(c, call[c], late', log')
        /\ ConfirmKept(c, call[c], late', log')
    BY <1>1 DEF ClientInv, ClientOK, QueryKept, ConfirmKept
  <2>3. ClientOK(c, call[c], NoOutcome, late', log', dd)
    BY <2>2, InCall
  <2> QED BY <1>5, <2>1, <2>3, OneConcerned
<1>7. ASSUME NEW cl, GoesOn(c, cl), ClientOK(c, cl, NoOutcome, late', log', dd)
      PROVE  ClientsKept(dd)
  <2>1. OnlyOf(c) /\ call'[c] = cl /\ outcome'[c] = NoOutcome
    BY <1>3, <1>7, CallSteps
  <2> QED BY <1>5, <1>7, <2>1, OneConcerned
<1>8. CASE GoesOn(c, Querying(l, 0))
  BY <1>1, <1>7, <1>8, WaitingOK
<1>9. CASE GoesOn(c, Idle)
  BY <1>7, <1>9, IdleOK
<1>10. CASE l \in handled /\ won /\ GoesOn(c, Querying(l, h1.appended + 1))
  <2> DEFINE n == h1.appended + 1
  <2>1. LogsOne(log, log', l, n, c) /\ n \in Nat /\ GoesOn(c, Querying(l, n))
    BY <1>5, <1>10
  <2> HIDE DEF n, won, h1
  <2>2. ClientOK(c, Querying(l, n), NoOutcome, late', log', dd)
    BY <1>1, <2>1, QueryingOK
  <2> QED BY <1>7, <2>1, <2>2
<1> QED BY <1>4, <1>6, <1>8, <1>9, <1>10

(* When a query is answered with nonce n or a higher one, the entry with   *)
(* nonce n is durable.                                                     *)
LEMMA ConfirmedIsDurable ==
    ASSUME LeaseInv, NEW l \in Lock, NEW n \in Nat, QuerySatisfied(l, n, prevIndex),
           LockAccepted(l, log, Len(log)),
           NEW i \in 1 .. Len(log), log[i].lock = l, log[i].nonce = n
    PROVE  i \in 1 .. Durable
<1>1. /\ log \in Seq(Entry) /\ Len(log) \in Nat /\ Durable \in Nat /\ Durable <= Len(log)
      /\ prevIndex \in Nat /\ prevIndex <= Durable /\ prevIndex <= Len(log)
  BY DurableFacts DEF LeaseInv, TypeOK
<1>2. HasState(l, log, prevIndex) /\ LockState(l, log, prevIndex).nonce >= n
  BY DEF QuerySatisfied
<1>3. PICK r \in 1 .. Len(log) : /\ r \in 1 .. prevIndex
                                 /\ LockState(l, log, prevIndex) = log[r] /\ log[r].lock = l
  BY <1>1, <1>2, StateInLog
<1>4. \A k \in 1 .. Len(log) : log[k].nonce \in Nat
  BY <1>1, EntryFields
<1>5. \A x \in 1 .. Len(log) : \A y \in 1 .. x - 1 :
         log[y].lock = l /\ log[x].lock = l => log[y].nonce < log[x].nonce
  BY <1>1, <1>4, LockNoncesIncrease DEF LockAccepted
<1>6. log[r].nonce >= n /\ log[r].nonce \in Nat
  BY <1>2, <1>3, <1>4
<1>7. ~(r < i)
  <2> SUFFICES ASSUME r < i PROVE FALSE
    OBVIOUS
  <2>1. r \in 1 .. i - 1
    BY <1>1
  <2>2. log[r].nonce < log[i].nonce
    BY <1>3, <1>5, <2>1
  <2> QED BY <1>6, <2>2
<1> QED BY <1>1, <1>3, <1>7

LEMMA WellPromisedAccepted ==
    ASSUME NEW q, WellPromised(q)
    PROVE  LockAccepted(q.lock, log, Len(log))
BY DEF WellPromised, LockAccepted, EntriesOf

LEMMA OutcomeFields ==
    ASSUME NEW l, NEW n, NEW sound \in BOOLEAN
    PROVE  /\ Acquired(l, n, sound).op = "acquired" /\ Acquired(l, n, sound).lock = l
           /\ Acquired(l, n, sound).nonce = n /\ Acquired(l, n, sound).sound = sound
           /\ Released(l, sound).op = "released" /\ Released(l, sound).lock = l
           /\ Released(l, sound).sound = sound
BY DEF Acquired, Released

LEMMA AcquireConfirmedStep ==
    ASSUME LeaseInv, ClientInv, NEW dd \in Nat, Durable <= dd,
           NEW c \in Client, AcquireConfirmed(c)
    PROVE  ClientsKept(dd)
<1> DEFINE q == call[c]
           w == WellPromised(q)
           o == Acquired(q.lock, q.nonce, w)
<1>1. /\ q.phase = "query" /\ QuerySatisfied(q.lock, q.nonce, prevIndex)
      /\ Succeeds(c, o) /\ log' = log
  BY DEF AcquireConfirmed, Confirmed, vars, logVars
<1>2. /\ q.lock \in Lock /\ q.nonce \in Nat
      /\ QueryKept(c, q, late, log)
  BY <1>1 DEF ClientInv, ClientOK, CallType
<1>3. /\ log \in Seq(Entry) /\ Durable \in Nat
  BY DurableFacts DEF LeaseInv, TypeOK
<1>4. w \in BOOLEAN
  BY DEF WellPromised
<1>5. o.op = "acquired" /\ o.lock = q.lock /\ o.nonce = q.nonce /\ o.sound = w
  <2> HIDE DEF q, w
  <2> QED BY <1>4, OutcomeFields
<1>6. OnlyOf(c) /\ call'[c] = Idle /\ outcome'[c] = o /\ late' = late
  BY <1>1, CallSteps
<1>7. ASSUME q.nonce > 0, w, <<c, "release">> \notin late
      PROVE  \E i \in 1 .. dd : Keeps(log, c, q.lock, q.nonce, i)
  <2>1. LockAccepted(q.lock, log, Len(log))
    BY <1>7, WellPromisedAccepted
  <2> HIDE DEF q, o, w
  <2>2. PICK i \in 1 .. Len(log) : Keeps(log, c, q.lock, q.nonce, i)
    BY <1>1, <1>2, <1>7, <2>1 DEF QueryKept
  <2>3. i \in 1 .. Durable
    BY <1>1, <1>2, <2>1, <2>2, ConfirmedIsDurable DEF Keeps
  <2>4. i \in 1 .. dd
    BY <1>3, <2>3
  <2> QED BY <2>2, <2>4
<1> HIDE DEF q, w, o
<1>8. AcquiredKept(c, o, late, log, dd) /\ ReleasedKept(c, o, late, log, dd)
  BY <1>2, <1>5, <1>7 DEF AcquiredKept, ReleasedKept
<1>9. ClientOK(c, Idle, o, late, log, dd)
  BY <1>8, IdleIsKept DEF ClientOK
<1> QED BY <1>1, <1>3, <1>6, <1>9, SameLog, OneConcerned

LEMMA ReleaseConfirmedStep ==
    ASSUME LeaseInv, ClientInv, NEW dd \in Nat, Durable <= dd,
           NEW c \in Client, ReleaseConfirmed(c)
    PROVE  ClientsKept(dd)
<1> DEFINE q == call[c]
           w == WellPromised(q)
           o == Released(q.lock, w)
<1>1. /\ q.phase = "confirm" /\ QuerySatisfied(q.lock, q.nonce, prevIndex)
      /\ Succeeds(c, o) /\ log' = log
  BY DEF ReleaseConfirmed, Confirmed, vars, logVars
<1>2. q.lock \in Lock /\ q.nonce \in Nat /\ ConfirmKept(c, q, late, log)
  BY <1>1 DEF ClientInv, ClientOK, CallType
<1>3. log \in Seq(Entry) /\ Durable \in Nat
  BY DurableFacts DEF LeaseInv, TypeOK
<1>4. w \in BOOLEAN
  BY DEF WellPromised
<1>5. o.op = "released" /\ o.lock = q.lock /\ o.sound = w
  <2> HIDE DEF q, w
  <2> QED BY <1>4, OutcomeFields
<1>6. OnlyOf(c) /\ call'[c] = Idle /\ outcome'[c] = o /\ late' = late
  BY <1>1, CallSteps
<1>7. ASSUME w, <<c, "acquire">> \notin late
      PROVE  \E j \in 1 .. dd : Gone(log, c, q.lock, j)
  <2>1. LockAccepted(q.lock, log, Len(log))
    BY <1>7, WellPromisedAccepted
  <2> HIDE DEF q, o, w
  <2>2. PICK j \in 1 .. Len(log) : log[j].nonce = q.nonce /\ Gone(log, c, q.lock, j)
    BY <1>1, <1>2, <1>7, <2>1 DEF ConfirmKept
  <2>3. j \in 1 .. Durable
    BY <1>1, <1>2, <2>1, <2>2, ConfirmedIsDurable DEF Gone
  <2>4. j \in 1 .. dd
    BY <1>3, <2>3
  <2> QED BY <2>2, <2>4
<1> HIDE DEF q, w, o
<1>8. AcquiredKept(c, o, late, log, dd) /\ ReleasedKept(c, o, late, log, dd)
  BY <1>2, <1>5, <1>7 DEF AcquiredKept, ReleasedKept
<1>9. ClientOK(c, Idle, o, late, log, dd)
  BY <1>8, IdleIsKept DEF ClientOK
<1> QED BY <1>1, <1>3, <1>6, <1>9, SameLog, OneConcerned

LEMMA ReleaseRequestStep ==
    ASSUME LeaseInv, ClientInv, log' \in Seq(Entry), NEW dd \in Nat, Durable <= dd,
           NEW c \in Client, NEW l \in Lock, ReleaseRequest(c, l)
    PROVE  ClientsKept(dd)
<1> DEFINE p == AppliedIndex
           n == LockState(l, log, p).nonce + 1
<1>1. log \in Seq(Entry) /\ OnlyReleases(c, log, log', Durable)
  BY ReleaseLogs DEF LeaseInv, TypeOK, ReleaseRequest
<1>2. PICK cl : Begins(c, cl) /\ \/ cl = Idle \/ cl = Polling(l)
                                 \/ LogRelease(c, l, p) /\ cl = Confirming(l, n)
  BY DEF ReleaseRequest, ReleaseDLock
<1>3. LogRelease(c, l, p) => n \in Nat /\ LogsOne(log, log', l, n, NoOwner)
  BY LogReleaseLogs
<1> HIDE DEF n, p
<1>4. ClientOK(c, cl, NoOutcome, late', log', dd)
  <2>1. CASE cl = Idle
    BY <2>1, IdleOK
  <2>2. CASE cl = Polling(l)
    BY <2>2, WaitingOK
  <2>3. CASE LogRelease(c, l, p) /\ cl = Confirming(l, n)
    BY <1>1, <1>3, <2>3, ConfirmingOK
  <2> QED BY <1>2, <2>1, <2>2, <2>3
<1>5. OnlyOf(c) /\ call'[c] = cl /\ outcome'[c] = NoOutcome
  BY <1>2, CallSteps
<1> QED BY <1>1, <1>4, <1>5, OneConcerned

(* A request that is served for nobody: late then says so. *)
LEMMA ServedLateStep ==
    ASSUME LeaseInv, ClientInv, log' \in Seq(Entry), NEW dd \in Nat, Durable <= dd,
           NEW c \in Client,
           \/ OnlyReleases(c, log, log', Durable) /\ ServedLate(c, "release")
           \/ OnlyGrants(c, log, log') /\ ServedLate(c, "acquire")
    PROVE  ClientsKept(dd)
<1>1. call' = call /\ outcome' = outcome /\ late \subseteq late'
  BY DEF ServedLate
<1>2. Len(log) \in Nat /\ Durable <= Len(log)
  BY DurableFacts
<1>3. ASSUME NEW b \in Client PROVE Foreign(b, late', log, log', Len(log), Durable)
  <2>1. CASE OnlyReleases(c, log, log', Durable) /\ ServedLate(c, "release")
    <3>1. b # c \/ <<b, "release">> \in late'
      BY <2>1 DEF ServedLate
    <3> QED BY <2>1, <3>1, ReleasesAreForeign
  <2>2. CASE OnlyGrants(c, log, log') /\ ServedLate(c, "acquire")
    <3>1. b # c \/ <<b, "acquire">> \in late'
      BY <2>2 DEF ServedLate
    <3> QED BY <2>2, <3>1, GrantsAreForeign
  <2> QED BY <2>1, <2>2
<1>4. DOMAIN call' = Client /\ outcome' = outcome /\ late \subseteq late'
  BY <1>1 DEF ClientInv
<1>5. \A b \in Client : /\ Foreign(b, late', log, log', Len(log), Durable)
                        /\ call'[b] = call[b]
  BY <1>1, <1>3
<1> QED BY <1>2, <1>4, <1>5, NobodyConcerned

LEMMA PollRequestStep ==
    ASSUME LeaseInv, ClientInv, log' \in Seq(Entry), NEW dd \in Nat, Durable <= dd,
           NEW c \in Client, NEW l \in Lock, PollRequest(c, l)
    PROVE  ClientsKept(dd)
<1> DEFINE p == AppliedIndex
           n == LockState(l, log, p).nonce + 1
<1>1. log \in Seq(Entry) /\ OnlyReleases(c, log, log', Durable)
  BY ReleaseLogs DEF LeaseInv, TypeOK, PollRequest
<1>2. \/ log' = log /\ UNCHANGED clientVars
      \/ /\ call[c] = Polling(l)
         /\ \/ GoesOn(c, Idle)
            \/ LogRelease(c, l, p) /\ GoesOn(c, Confirming(l, n))
      \/ ServedLate(c, "release")
  BY DEF PollRequest, PollRelease
<1>3. LogRelease(c, l, p) => n \in Nat /\ LogsOne(log, log', l, n, NoOwner)
  BY LogReleaseLogs
<1> HIDE DEF n, p
<1>4. CASE log' = log /\ UNCHANGED clientVars
  <2>1. call' = call /\ outcome' = outcome /\ late' = late /\ DOMAIN call' = Client
    BY <1>4 DEF clientVars, ClientInv
  <2> QED BY <1>4, <2>1, NothingConcerns
<1>5. ASSUME NEW cl, call[c] = Polling(l), GoesOn(c, cl),
             ClientOK(c, cl, NoOutcome, late', log', dd)
      PROVE  ClientsKept(dd)
  <2>1. call[c].phase # "idle"
    BY <1>5 DEF Polling
  <2>2. outcome[c] = NoOutcome
    BY <2>1, NoOutcomeInCall
  <2>3. OnlyOf(c) /\ call'[c] = cl /\ outcome'[c] = NoOutcome
    BY <1>5, <2>2, CallSteps
  <2> QED BY <1>1, <1>5, <2>3, OneConcerned
<1>6. CASE call[c] = Polling(l) /\ GoesOn(c, Idle)
  BY <1>5, <1>6, IdleOK
<1>7. CASE call[c] = Polling(l) /\ LogRelease(c, l, p) /\ GoesOn(c, Confirming(l, n))
  BY <1>1, <1>3, <1>5, <1>7, ConfirmingOK
<1>8. CASE ServedLate(c, "release")
  BY <1>1, <1>8, ServedLateStep
<1> QED BY <1>2, <1>4, <1>6, <1>7, <1>8

(* A client or a loop of the service that gives up. *)
LEMMA GivenUpStep ==
    ASSUME LeaseInv, ClientInv, NEW dd \in Nat, Durable <= dd, NEW c \in Client,
           GiveUp(c) \/ \E l \in Lock : PollGivenUp(c, l)
    PROVE  ClientsKept(dd)
<1>1. log' = log
  BY DEF GiveUp, PollGivenUp, PollTimeout, vars, logVars
<1>2. GoesOn(c, Idle) \/ UNCHANGED clientVars
  BY DEF GiveUp, PollGivenUp
<1>3. /\ DOMAIN call' = Client /\ outcome' = outcome /\ late \subseteq late'
      /\ \A b \in Client : call'[b] \in {Idle, call[b]}
  BY <1>2 DEF GoesOn, Enter, clientVars, ClientInv
<1> QED BY <1>1, <1>3, NothingConcerns

LEMMA ChangeOfLeaderStep ==
    ASSUME LeaseInv, ClientInv, log' \in Seq(Entry), NEW dd \in Nat, Durable <= dd,
           NEW length \in committed .. Len(log), NEW known \in 0 .. committed,
           ChangeOfLeader(length, known)
    PROVE  ClientsKept(dd)
<1> DEFINE lg == SubSeq(log, 1, length)
           p == AppliedUpTo(lg, 0, known)
           hs == [l \in Lock |-> NewHandler(0)]
<1>1. /\ committed \in Nat /\ Len(log) \in Nat /\ committed <= Len(log)
      /\ Durable \in Nat /\ Durable <= committed
      /\ \A k \in 0 .. committed : (\A i \in 1 .. k : Accepted(log, i)) => k <= Durable
  BY DurableFacts
<1>2. /\ known \in Nat /\ length \in Nat /\ length \in 0 .. Len(log) /\ known <= length
      /\ known <= committed /\ Durable <= length /\ length <= Len(log)
  BY <1>1
<1>3. lg \in Seq(Entry) /\ Len(lg) = length /\ \A i \in 1 .. length : lg[i] = log[i]
  BY <1>2, PrefixWellBuilt
<1>4. p \in 0 .. known /\ \A i \in 1 .. p : Accepted(lg, i)
  BY <1>2, AppliedUpToProperties
<1>5. ScanDLockStateMap(lg, p, {}, hs)
  BY DEF ChangeOfLeader, BecomeLeader
<1> HIDE DEF lg, p, hs
<1>6. p \in Nat /\ p <= length /\ p <= Durable
  <2>1. p \in 0 .. committed /\ p \in Nat /\ p <= length
    BY <1>1, <1>2, <1>4
  <2>2. ASSUME NEW i \in 1 .. p PROVE Accepted(log, i)
    <3>1. i \in Nat \ {0} /\ \A j \in 1 .. i : lg[j] = log[j]
      BY <1>2, <1>3, <2>1
    <3> QED BY <1>4, <3>1, SameAccepted
  <2> QED BY <1>1, <2>1, <2>2
<1>7. ASSUME NEW c \in Client
      PROVE  Foreign(c, late', log, log', length, Durable)
  <2>1. Len(lg) <= Len(log) /\ \A i \in 1 .. Len(lg) : lg[i] = log[i]
    BY <1>2, <1>3
  <2> DEFINE lt2 == late'
  <2> HIDE DEF lt2
  <2>2. Foreign(c, lt2, log, log', Len(lg), Durable)
    BY <1>3, <1>5, <1>6, <2>1, ScanLogs
  <2> QED BY <1>3, <2>2 DEF lt2
<1>8. /\ DOMAIN call' = Client /\ outcome' = outcome /\ late' = late
      /\ \A c \in Client : call'[c] = Idle
  BY DEF ChangeOfLeader
<1> QED BY <1>1, <1>2, <1>7, <1>8, NobodyConcerned

LEMMA BackgroundStep ==
    ASSUME LeaseInv, ClientInv, log' \in Seq(Entry), NEW dd \in Nat, Durable <= dd,
           ReleaseExpiredDLockPeriodically \/ CommitToStateMap \/ Commit \/ Tick,
           UNCHANGED clientVars
    PROVE  ClientsKept(dd)
<1>1. call' = call /\ outcome' = outcome /\ late' = late /\ DOMAIN call' = Client
  BY DEF clientVars, ClientInv
<1>2. CASE ReleaseExpiredDLockPeriodically
  <2>1. /\ log \in Seq(Entry) /\ AppliedIndex \in Nat /\ AppliedIndex <= Len(log)
        /\ AppliedIndex <= Durable /\ Len(log) \in Nat /\ Durable <= Len(log)
    BY DurableFacts DEF LeaseInv, TypeOK
  <2>2. ScanDLockStateMap(log, AppliedIndex, handled, pending)
    BY <1>2 DEF ReleaseExpiredDLockPeriodically
  <2>3. \A c \in Client : Foreign(c, late, log, log', Len(log), Durable)
    BY <2>1, <2>2, ScanLogs
  <2> QED BY <1>1, <2>1, <2>3, NobodyConcerned
<1>3. CASE CommitToStateMap \/ Commit \/ Tick
  <2>1. log' = log
    BY <1>3 DEF CommitToStateMap, Commit, Tick, logVars
  <2> QED BY <1>1, <2>1, NothingConcerns
<1> QED BY <1>2, <1>3

LEMMA ClientInvInit == ClientInit => ClientInv
BY IdleOK DEF ClientInit, ClientInv

LEMMA ClientInvNext ==
    ASSUME LeaseInv, LeaseInv', DurableChained', ClientInv, [ClientNext]_clientSystemVars
    PROVE  ClientInv'
<1> DEFINE dd == Durable'
<1>1. log' \in Seq(Entry) /\ dd \in Nat
  BY DEF DurableChained, Chained
<1>2. Durable <= dd
  BY ClientNextIsNext, DurableGrows
<1>3. ClientsKept(dd) => ClientInv'
  BY DEF ClientsKept, ClientInv
<1> HIDE DEF dd
<1>4. ClientsKept(dd)
  <2>1. CASE UNCHANGED clientSystemVars
    <3>1. log' = log /\ call' = call /\ outcome' = outcome /\ late' = late
      BY <2>1 DEF clientSystemVars, clientVars, vars, logVars
    <3>2. DOMAIN call' = Client
      BY <3>1 DEF ClientInv
    <3> QED BY <1>1, <1>2, <3>1, <3>2, NothingConcerns
  <2>2. ASSUME NEW c \in Client, LibraryStep(c) PROVE ClientsKept(dd)
    <3>1. CASE RefreshRequest(c)
      BY <1>1, <1>2, <3>1, RefreshRequestStep
    <3>2. CASE AcquireConfirmed(c) \/ ReleaseConfirmed(c)
      BY <1>1, <1>2, <3>2, AcquireConfirmedStep, ReleaseConfirmedStep
    <3>3. CASE GiveUp(c) \/ \E l \in Lock : PollGivenUp(c, l)
      BY <1>1, <1>2, <3>3, GivenUpStep
    <3>4. ASSUME NEW l \in Lock, NEW expire \in Expires, AcquireRequest(c, l, expire)
          PROVE  ClientsKept(dd)
      BY <1>1, <1>2, <3>4, AcquireRequestStep
    <3>5. ASSUME NEW l \in Lock, ReleaseRequest(c, l) PROVE ClientsKept(dd)
      BY <1>1, <1>2, <3>5, ReleaseRequestStep
    <3>6. ASSUME NEW l \in Lock, PollRequest(c, l) PROVE ClientsKept(dd)
      BY <1>1, <1>2, <3>6, PollRequestStep
    <3>7. ASSUME NEW l \in Lock, LateRelease(c, l) PROVE ClientsKept(dd)
      <4>1. OnlyReleases(c, log, log', Durable) /\ ServedLate(c, "release")
        BY <3>7, ReleaseLogs DEF LateRelease
      <4> QED BY <1>1, <1>2, <4>1, ServedLateStep
    <3>8. ASSUME NEW l \in Lock, NEW expire \in Expires, LateAcquire(c, l, expire)
          PROVE  ClientsKept(dd)
      <4>1. OnlyGrants(c, log, log') /\ ServedLate(c, "acquire")
        BY <3>8, AcquireLogs DEF LateAcquire
      <4> QED BY <1>1, <1>2, <4>1, ServedLateStep
    <3>9. ASSUME NEW l \in Lock, NEW seq, LateRefresh(c, l, seq) PROVE ClientsKept(dd)
      <4>1. OnlyGrants(c, log, log') /\ ServedLate(c, "acquire")
        BY <3>9, RefreshLogs DEF LateRefresh
      <4> QED BY <1>1, <1>2, <4>1, ServedLateStep
    <3> QED BY <2>2, <3>1, <3>2, <3>3, <3>4, <3>5, <3>6, <3>7, <3>8, <3>9 DEF LibraryStep
  <2>3. ASSUME NEW length \in committed .. Len(log), NEW known \in 0 .. committed,
               ChangeOfLeader(length, known)
        PROVE  ClientsKept(dd)
    BY <1>1, <1>2, <2>3, ChangeOfLeaderStep
  <2>4. CASE /\ ReleaseExpiredDLockPeriodically \/ CommitToStateMap \/ Commit \/ Tick
             /\ UNCHANGED clientVars
    BY <1>1, <1>2, <2>4, BackgroundStep
  <2> QED BY <2>1, <2>2, <2>3, <2>4 DEF ClientNext
<1> QED BY <1>3, <1>4

-----------------------------------------------------------------------------
(* What the invariant means for a client *)

(* A durable grant that is released only after its lease is the last       *)
(* durable state of its lock until then: the next one would follow it.     *)
LEMMA KeptIsLast ==
    ASSUME LeaseInv, DurableChained, NEW c, NEW l, NEW n, NEW i \in 1 .. Durable,
           Keeps(log, c, l, n, i), now < log[i].ts + log[i].expire
    PROVE  i = LastOf(EntriesOf(l, log, Durable))
<1>1. /\ Durable \in Nat /\ Durable <= Len(log) /\ Len(log) \in Nat /\ log \in Seq(Entry)
      /\ now \in Nat /\ i \in Nat /\ i \in 1 .. Len(log) /\ log[i].lock = l
  BY DurableFacts DEF LeaseInv, TypeOK, Keeps
<1>2. ASSUME NEW j \in i + 1 .. Durable, log[j].lock = l PROVE FALSE
  <2> DEFINE S == {k \in i + 1 .. Durable : log[k].lock = l}
  <2>1. S \in SUBSET Nat /\ S # {}
    BY <1>1, <1>2
  <2>2. PICK f \in S : \A k \in S : f <= k
    <3> HIDE DEF S
    <3> QED BY <2>1, SmallestExists
  <2>3. /\ f \in 1 .. Durable /\ f \in 1 .. Len(log) /\ f \in i + 1 .. Len(log)
        /\ f \in Nat \ {0} /\ i \in 1 .. f - 1 /\ log[f].lock = l
    BY <1>1
  <2>4. IsLast(l, log, f - 1, i)
    BY <1>1, <2>2, <2>3 DEF IsLast
  <2> HIDE DEF S
  <2>5. Accepted(log, f) /\ Follows(log[i], log[f])
    BY <2>3, <2>4 DEF DurableChained, Chained
  <2>6. log[f].nonce = log[i].nonce + 1
    BY <2>3, <2>4, <2>5, AcceptedIff
  <2>7. log[f].ts <= now /\ log[f].ts \in Nat /\ log[i].ts \in Nat /\ log[i].expire \in Nat
    BY <1>1, <2>3, EntryFields DEF LeaseInv, WellBuilt
  <2>8. log[i].ts + log[i].expire <= log[f].ts
    BY <2>3, <2>5, <2>6 DEF Follows, Keeps
  <2> QED BY <1>1, <2>7, <2>8
<1>3. /\ EntriesOf(l, log, Durable) \in SUBSET Nat /\ i \in EntriesOf(l, log, Durable)
      /\ \A k \in EntriesOf(l, log, Durable) : k <= i
  BY <1>1, <1>2 DEF EntriesOf
<1> QED BY <1>3, LastOfIs

LEMMA InvKeepsLease ==
    ASSUME LeaseInv, DurableChained, ClientInv
    PROVE  PromisedLeaseKept
<1> SUFFICES ASSUME NEW c \in Client, NEW o, o = outcome[c],
                    o.op = "acquired", o.nonce > 0, o.sound, <<c, "release">> \notin late
             PROVE  \E i \in EntriesOf(o.lock, log, Durable) :
                        /\ log[i].nonce = o.nonce
                        /\ log[i].owner = c
                        /\ now < log[i].ts + log[i].expire =>
                              i = LastOf(EntriesOf(o.lock, log, Durable))
  BY DEF PromisedLeaseKept
<1>1. PICK i \in 1 .. Durable : Keeps(log, c, o.lock, o.nonce, i)
  BY DEF ClientInv, ClientOK, AcquiredKept
<1>2. i \in EntriesOf(o.lock, log, Durable) /\ log[i].nonce = o.nonce /\ log[i].owner = c
  BY <1>1 DEF Keeps, EntriesOf
<1>3. now < log[i].ts + log[i].expire => i = LastOf(EntriesOf(o.lock, log, Durable))
  BY <1>1, KeptIsLast
<1> QED BY <1>2, <1>3

LEMMA InvKeepsReleased ==
    ASSUME LeaseInv, ClientInv
    PROVE  ReleasedMeansGone
<1> SUFFICES ASSUME NEW c \in Client, NEW o, o = outcome[c], o.op = "released", o.sound,
                    <<c, "acquire">> \notin late,
                    NEW k \in Durable .. Len(log), HasState(o.lock, log, k)
             PROVE  LockState(o.lock, log, k).owner # c
  BY DEF ReleasedMeansGone, NotOwner
<1>1. PICK j \in 1 .. Durable : Gone(log, c, o.lock, j)
  BY DEF ClientInv, ClientOK, ReleasedKept
<1>2. Durable \in Nat /\ Len(log) \in Nat /\ k \in Nat /\ k <= Len(log) /\ j \in 1 .. k
  BY DurableFacts
<1>3. PICK q \in 1 .. k : IsLast(o.lock, log, k, q) /\ LockState(o.lock, log, k) = log[q]
  BY <1>2, LastExists
<1>4. q \in j .. Len(log) /\ log[q].lock = o.lock
  BY <1>1, <1>2, <1>3 DEF IsLast, Gone
<1> QED BY <1>1, <1>3, <1>4 DEF Gone

LEMMA ClientInvHolds == ClientSpec => [](LeaseInv /\ DurableChained /\ ClientInv)
<1>1. ClientInit => LeaseInv /\ ClientInv
  BY LeaseInvInit, ClientInvInit DEF ClientInit
<1>2. LeaseInv /\ ClientInv /\ [ClientNext]_clientSystemVars => LeaseInv'
  BY ClientNextIsNext, LeaseInvNext
<1>3. LeaseInv /\ LeaseInv' /\ DurableChained' /\ ClientInv /\ [ClientNext]_clientSystemVars
        => ClientInv'
  BY ClientInvNext
<1> QED BY <1>1, <1>2, <1>3, DurableIsChained, PTL DEF ClientSpec

(* A lock that the leader promised with a nonce and confirmed, on a sound  *)
(* answer, stays with its client for the whole lease, unless a release     *)
(* request of the client itself comes late; for every set of clients and   *)
(* locks and any number of later changes of leader                         *)
(* (dlock_raft_client_API.go AcquireDLock).                                *)
THEOREM PromisedLeaseIsKept == ClientSpec => []PromisedLeaseKept
BY ClientInvHolds, InvKeepsLease, PTL

(* A client whose ReleaseDLock returned true on a sound answer does not    *)
(* own the lock any more, and does not get it back before it asks again,   *)
(* unless an acquirement of its own comes late                             *)
(* (dlock_raft_client_API.go ReleaseDLock).                                *)
THEOREM ReleasedLockIsGone == ClientSpec => []ReleasedMeansGone
BY ClientInvHolds, InvKeepsReleased, PTL
=============================================================================
