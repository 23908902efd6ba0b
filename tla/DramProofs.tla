----------------------------- MODULE DramProofs -----------------------------
(***************************************************************************)
(* The controller and the channel model keep the times of the commands     *)
(* apart from each other: the controller to decide what may be issued, the *)
(* model to assert that it may.  The proof that no assertion fails shows   *)
(* that the two accounts agree wherever an assertion looks.                *)
(***************************************************************************)
EXTENDS Dram, SequenceTheorems, TLAPS

States == {"IDLE", "ACTIVATING", "ACTIVE", "PRECHARGING"}
Open == {"ACTIVATING", "ACTIVE"}

\* a bank has the fields that the setters update
WellFormed(k) ==
  /\ {"State", "ActiveRow", "ACT", "PRE", "READ", "WRITE"} \subseteq DOMAIN k
  /\ k.State \in States
  /\ k.ACT \in Nat

TypesOf(bk, acts, ch) ==
  /\ DOMAIN bk = Banks
  /\ \A b \in Banks : WellFormed(bk[b])
  /\ acts \in Seq(Nat)
  /\ {"RAS", "Precharge", "ActiveBank", "DataWindow", "failed"} \subseteq DOMAIN ch
  /\ ch.RAS \in [Banks -> Nat]
  /\ ch.ActiveBank \in Banks \cup {None}

\* the two accounts of an open row's age, of the data bus and of the open bank
\* are one; no bank was activated after the last activation recorded
Agree(bk, acts, bus, ch) ==
  /\ ch.DataWindow = bus
  /\ \A b \in Banks : bk[b].State \in Open => ch.RAS[b] = bk[b].ACT
  /\ ch.ActiveBank # None => bk[ch.ActiveBank].State \in Open /\ acts # <<>>
  /\ acts # <<>> => \A b \in Banks : ch.RAS[b] >= Capped(Last(acts), Oldest.ACT)

Consistent(bk, acts, bus, ch) == TypesOf(bk, acts, ch) /\ Agree(bk, acts, bus, ch)

\* no assertion has failed
Silent(ch) == ch.failed = FALSE

\* The invariant: the accounts agree, and no assertion has failed.
IInv == Consistent(bank, LastNActivates, DataBusBusy, channel) /\ Silent(channel)
-----------------------------------------------------------------------------
\* The age at which an activation is forgotten is past every latency counted
\* from one.
LEMMA OldestActivation == Oldest.ACT \in Nat /\ Oldest.ACT >= RC /\ Oldest.ACT >= RRD
<1> DEFINE S == {RC, RAS, RCDR, RCDW}
<1>1. RC \in Nat /\ RAS \in Nat /\ RCDR \in Nat /\ RCDW \in Nat /\ RRD \in Nat /\ RRD <= RC
  BY LatenciesOrdered
<1>2. \E x \in S : \A y \in S : x >= y
  BY <1>1
<1>3. Max(S) \in S /\ \A y \in S : Max(S) >= y
  BY <1>2 DEF Max
<1>4. Oldest.ACT = Max(S)
  BY DEF Oldest
<1> QED
  BY <1>1, <1>3, <1>4

\* one more cycle on a capped age
LEMMA OneOlder ==
  ASSUME NEW n \in Nat, NEW limit \in Nat
  PROVE Capped(n + 1, limit) \in Nat
BY DEF Capped

\* A cycle later the bound on an age is a cycle older too.
LEMMA StaysOlder ==
  ASSUME NEW m \in Nat, NEW n \in Nat, NEW limit \in Nat, NEW other \in Nat,
         n >= Capped(m, limit)
  PROVE Capped(n + 1, limit) >= Capped(Capped(m + 1, other), limit)
BY DEF Capped

Older(f) == [b \in Banks |-> Capped(f[b] + 1, Oldest.ACT)]
OlderPre(f) == [b \in Banks |-> Capped(f[b] + 1, Oldest.PRE)]
OlderChannel(ch) == [ch EXCEPT !.RAS = Older(@), !.Precharge = OlderPre(@),
                               !.DataWindow = OlderBus(@)]

\* The last activation grows older by one cycle.
LEMMA ActsAge ==
  ASSUME NEW acts \in Seq(Nat)
  PROVE /\ OlderActs(acts) \in Seq(Nat)
        /\ OlderActs(acts) # <<>> <=> acts # <<>>
        /\ acts # <<>> => /\ Last(acts) \in Nat
                          /\ Last(OlderActs(acts)) = Capped(Last(acts) + 1, FAW)
<1>1. FAW \in Nat
  BY LatenciesOrdered
<1>2. DOMAIN acts = 1 .. Len(acts) /\ Len(acts) \in Nat
  OBVIOUS
<1>3. OlderActs(acts) \in [1 .. Len(acts) -> Nat]
  <2>1. \A i \in 1 .. Len(acts) : Capped(acts[i] + 1, FAW) \in Nat
    BY <1>1, <1>2, OneOlder
  <2> QED BY <1>2, <2>1 DEF OlderActs
<1>4. OlderActs(acts) \in Seq(Nat) /\ Len(OlderActs(acts)) = Len(acts)
  BY <1>2, <1>3
<1>5. acts # <<>> => Len(acts) \in 1 .. Len(acts)
  BY <1>2
<1>6. ASSUME acts # <<>>
      PROVE Last(acts) \in Nat /\ Last(OlderActs(acts)) = Capped(Last(acts) + 1, FAW)
  BY <1>2, <1>4, <1>5, <1>6 DEF Last, OlderActs
<1> QED
  BY <1>2, <1>4, <1>6

\* A cycle that passes touches nothing of a bank but its ages.
LEMMA BankAges ==
  ASSUME NEW k, WellFormed(k)
  PROVE /\ WellFormed(Aged(k))
        /\ Aged(k).State = k.State
        /\ Aged(k).ActiveRow = k.ActiveRow
        /\ Aged(k).ACT = Capped(k.ACT + 1, Oldest.ACT)
<1> DEFINE a == Aged(k)
<1>1. /\ a.State = k.State /\ a.ActiveRow = k.ActiveRow
      /\ a.ACT = Capped(k.ACT + 1, Oldest.ACT)
      /\ DOMAIN a = DOMAIN k
  BY DEF Aged, WellFormed
<1>2. a.ACT \in Nat
  BY <1>1, OneOlder, OldestActivation DEF WellFormed
<1> QED
  BY <1>1, <1>2 DEF WellFormed

\* A cycle that passes touches the ages and the data window of the channel model.
LEMMA ChannelAges ==
  ASSUME NEW bk, NEW acts, NEW ch, TypesOf(bk, acts, ch)
  PROVE /\ OlderChannel(ch).RAS = Older(ch.RAS)
        /\ OlderChannel(ch).ActiveBank = ch.ActiveBank
        /\ OlderChannel(ch).DataWindow = OlderBus(ch.DataWindow)
        /\ OlderChannel(ch).failed = ch.failed
        /\ DOMAIN OlderChannel(ch) = DOMAIN ch
        /\ Older(ch.RAS) \in [Banks -> Nat]
<1>1. Older(ch.RAS) \in [Banks -> Nat]
  BY OneOlder, OldestActivation DEF Older, TypesOf
<1>2. {"RAS", "Precharge", "ActiveBank", "DataWindow", "failed"} \subseteq DOMAIN ch
  BY DEF TypesOf
<1> QED
  BY <1>1, <1>2 DEF OlderChannel

\* A cycle that passes leaves the accounts in agreement.
LEMMA AccountsAge ==
  ASSUME NEW bk, NEW acts, NEW bus, NEW ch, Consistent(bk, acts, bus, ch)
  PROVE Consistent(OlderBanks(bk), OlderActs(acts), OlderBus(bus), OlderChannel(ch))
<1> DEFINE olderBk == OlderBanks(bk)
           olderActs == OlderActs(acts)
           olderCh == OlderChannel(ch)
<1>1. TypesOf(bk, acts, ch) /\ Agree(bk, acts, bus, ch)
  BY DEF Consistent
<1>2. acts \in Seq(Nat) /\ ch.RAS \in [Banks -> Nat] /\ ch.ActiveBank \in Banks \cup {None}
  BY <1>1 DEF TypesOf
<1>3. \A b \in Banks : /\ WellFormed(bk[b]) /\ WellFormed(olderBk[b])
                       /\ olderBk[b].State = bk[b].State
                       /\ bk[b].ACT \in Nat
                       /\ olderBk[b].ACT = Capped(bk[b].ACT + 1, Oldest.ACT)
  BY <1>1, BankAges DEF TypesOf, OlderBanks, WellFormed
<1>4. /\ olderActs \in Seq(Nat)
      /\ olderActs # <<>> <=> acts # <<>>
      /\ acts # <<>> => /\ Last(acts) \in Nat
                        /\ Last(olderActs) = Capped(Last(acts) + 1, FAW)
  BY <1>2, ActsAge
<1>5. /\ olderCh.RAS = Older(ch.RAS)
      /\ olderCh.ActiveBank = ch.ActiveBank
      /\ olderCh.DataWindow = OlderBus(ch.DataWindow)
      /\ DOMAIN olderCh = DOMAIN ch
      /\ Older(ch.RAS) \in [Banks -> Nat]
  BY <1>1, ChannelAges
<1>6. DOMAIN olderBk = Banks
  BY DEF OlderBanks
<1> HIDE DEF olderBk, olderActs, olderCh
<1>8. TypesOf(olderBk, olderActs, olderCh)
  BY <1>1, <1>2, <1>3, <1>4, <1>5, <1>6 DEF TypesOf
<1>9. olderCh.DataWindow = OlderBus(bus)
  BY <1>1, <1>5 DEF Agree
<1>10. \A b \in Banks : olderBk[b].State \in Open => olderCh.RAS[b] = olderBk[b].ACT
  BY <1>1, <1>3, <1>5 DEF Agree, Older
<1>11. olderCh.ActiveBank # None => olderBk[olderCh.ActiveBank].State \in Open /\ olderActs # <<>>
  BY <1>1, <1>2, <1>3, <1>4, <1>5 DEF Agree
<1>12. ASSUME olderActs # <<>>, NEW b \in Banks
       PROVE olderCh.RAS[b] >= Capped(Last(olderActs), Oldest.ACT)
  <2>1. ch.RAS[b] >= Capped(Last(acts), Oldest.ACT) /\ ch.RAS[b] \in Nat /\ Last(acts) \in Nat
    BY <1>1, <1>2, <1>4, <1>12 DEF Agree
  <2>2. Oldest.ACT \in Nat /\ FAW \in Nat
    BY OldestActivation, LatenciesOrdered
  <2>3. Capped(ch.RAS[b] + 1, Oldest.ACT) >= Capped(Capped(Last(acts) + 1, FAW), Oldest.ACT)
    BY <2>1, <2>2, StaysOlder
  <2>4. olderCh.RAS[b] = Capped(ch.RAS[b] + 1, Oldest.ACT)
    BY <1>5 DEF Older
  <2> QED
    BY <1>4, <1>12, <2>3, <2>4
<1> QED
  BY <1>8, <1>9, <1>10, <1>11, <1>12 DEF Consistent, Agree, olderBk, olderActs, olderCh
-----------------------------------------------------------------------------
(***************************************************************************)
(* What the controller allows, the model accepts.                          *)
(***************************************************************************)
Allowed(cmd, r, bk, acts, bus, b) ==
  \/ cmd = "ACT" /\ canACT(bk, acts, b)
  \/ cmd = "PRE" /\ canPRE(bk, b)
  \/ cmd = "READ" /\ r.read /\ canREAD(bk, b, readBank0, bus)
  \/ cmd = "WRITE" /\ ~r.read /\ canWRITE(bk, b, readBank0, bus)
DataOf(cmd, r) ==
  LET latency == IF r.read THEN CL ELSE WL
  IN IF cmd \in {"READ", "WRITE"} THEN latency .. latency + Burst - 1 ELSE {}

\* helper_HandleRequest tests the command that the request calls for.
LEMMA HandledIsAllowed ==
  ASSUME NEW buf, NEW bk, NEW acts, NEW bus, NEW b, NEW s,
         helper_HandleRequest(buf, bk, acts, bus, b, s)
  PROVE Allowed(NextCommand(bk[b], buf[b][s]), buf[b][s], bk, acts, bus, b)
<1> DEFINE k == bk[b]
           r == buf[b][s]
           cmd == NextCommand(k, r)
<1>1. \/ cmd = "ACT" /\ canACT(bk, acts, b)
      \/ cmd = "PRE" /\ canPRE(bk, b)
      \/ cmd = "READ" /\ canREAD(bk, b, readBank0, bus)
      \/ cmd = "WRITE" /\ canWRITE(bk, b, readBank0, bus)
  BY DEF helper_HandleRequest
<1>2. cmd = "READ" => r.read
  BY DEF NextCommand
<1>3. cmd = "WRITE" => ~r.read
  BY DEF NextCommand
<1> QED
  BY <1>1, <1>2, <1>3 DEF Allowed

\* Every assertion of the channel model follows from what the controller has
\* tested: ACT from tRRD and the state of the bank, READ and WRITE from tRCD and
\* from the data bus.
LEMMA AllowedIsAccepted ==
  ASSUME NEW bk, NEW acts, NEW bus, NEW ch, Consistent(bk, acts, bus, ch),
         NEW c, NEW r, c.bank \in Banks, Allowed(c.cmd, r, bk, acts, bus, c.bank)
  PROVE ChannelAccepts(ch, c, DataOf(c.cmd, r))
<1> DEFINE b == c.bank
           data == DataOf(c.cmd, r)
<1>1. TypesOf(bk, acts, ch) /\ Agree(bk, acts, bus, ch)
  BY DEF Consistent
<1>2. /\ acts \in Seq(Nat) /\ ch.RAS \in [Banks -> Nat] /\ ch.ActiveBank \in Banks \cup {None}
      /\ \A x \in Banks : bk[x].State \in States /\ bk[x].ACT \in Nat
  BY <1>1 DEF TypesOf, WellFormed
<1>3. /\ ch.DataWindow = bus
      /\ bk[b].State \in Open => ch.RAS[b] = bk[b].ACT
      /\ ch.ActiveBank # None => bk[ch.ActiveBank].State \in Open /\ acts # <<>>
  BY <1>1 DEF Agree
<1>4. ASSUME c.cmd = "ACT"
      PROVE ChannelAccepts(ch, c, data)
  <2>1. canACT(bk, acts, b) /\ data = {}
    BY <1>4 DEF Allowed, DataOf
  <2>2. bk[b].State \notin Open
    BY <2>1 DEF canACT, Open
  <2>3. ASSUME ch.ActiveBank # None
        PROVE ch.ActiveBank # b /\ \A x \in Banks : ch.RAS[x] >= RRD
    <3>1. ch.ActiveBank # b /\ acts # <<>>
      BY <1>3, <2>2, <2>3
    <3>2. Last(acts) \in Nat /\ Last(acts) >= RRD
      BY <1>2, <2>1, <3>1, ActsAge DEF canACT
    <3>3. Capped(Last(acts), Oldest.ACT) \in Nat /\ Capped(Last(acts), Oldest.ACT) >= RRD
      BY <3>2, OldestActivation DEF Capped
    <3>4. \A x \in Banks : ch.RAS[x] >= Capped(Last(acts), Oldest.ACT) /\ ch.RAS[x] \in Nat
      BY <1>1, <1>2, <3>1 DEF Agree
    <3>5. RRD \in Nat
      BY LatenciesOrdered
    <3> QED
      BY <3>1, <3>3, <3>4, <3>5
  <2> QED
    BY <1>4, <2>1, <2>3 DEF ChannelAccepts
<1>5. ASSUME c.cmd = "PRE"
      PROVE ChannelAccepts(ch, c, data)
  <2>1. data = {}
    BY <1>5 DEF DataOf
  <2> QED
    BY <1>5, <2>1 DEF ChannelAccepts
<1>6. ASSUME c.cmd = "READ"
      PROVE ChannelAccepts(ch, c, data)
  <2>1. canCAS(bk, b, readBank0, bus, RCDR, CL) /\ data = CL .. CL + Burst - 1
    BY <1>6 DEF Allowed, canREAD, DataOf
  <2>2. ch.RAS[b] >= RCDR /\ bus \cap data = {}
    BY <1>3, <2>1 DEF canCAS, Open
  <2> QED
    BY <1>3, <1>6, <2>2 DEF ChannelAccepts
<1>7. ASSUME c.cmd = "WRITE"
      PROVE ChannelAccepts(ch, c, data)
  <2>1. canCAS(bk, b, readBank0, bus, RCDW, WL) /\ data = WL .. WL + Burst - 1
    BY <1>7 DEF Allowed, canWRITE, DataOf
  <2>2. ch.RAS[b] >= RCDW /\ bus \cap data = {}
    BY <1>3, <2>1 DEF canCAS, Open
  <2> QED
    BY <1>3, <1>7, <2>2 DEF ChannelAccepts
<1> QED
  BY <1>4, <1>5, <1>6, <1>7 DEF Allowed
-----------------------------------------------------------------------------
(***************************************************************************)
(* A command leaves the accounts in agreement.                             *)
(***************************************************************************)
BankAfter(bk, c, r) ==
  [bk EXCEPT ![c.bank] = CASE c.cmd = "ACT" -> setACT(@, r.row)
                           [] c.cmd = "PRE" -> setPRE(@)
                           [] c.cmd = "READ" -> setREAD(@)
                           [] c.cmd = "WRITE" -> setWRITE(@)]
ActsAfter(acts, c) ==
  IF c.cmd # "ACT" THEN acts ELSE Append(IF Len(acts) = 4 THEN Tail(acts) ELSE acts, 0)
Done(ch, c, data) ==
  [ch EXCEPT !.DataWindow = @ \cup data, !.failed = @ \/ ~ChannelAccepts(ch, c, data)]
ChannelAfter(ch, c, data) ==
  CASE c.cmd = "ACT" -> [Done(ch, c, data) EXCEPT !.RAS[c.bank] = 0, !.ActiveBank = c.bank]
    [] c.cmd = "PRE" -> [Done(ch, c, data) EXCEPT !.Precharge[c.bank] = 0, !.ActiveBank = None]
    [] OTHER -> Done(ch, c, data)

\* The channel model with the data scheduled, before the command takes effect.
LEMMA DoneIs ==
  ASSUME NEW bk, NEW acts, NEW ch, TypesOf(bk, acts, ch), NEW c, NEW data,
         ChannelAccepts(ch, c, data)
  PROVE /\ DOMAIN Done(ch, c, data) = DOMAIN ch
        /\ Done(ch, c, data).RAS = ch.RAS
        /\ Done(ch, c, data).ActiveBank = ch.ActiveBank
        /\ Done(ch, c, data).DataWindow = ch.DataWindow \cup data
        /\ Silent(ch) => Silent(Done(ch, c, data))
BY DEF Done, TypesOf, Silent

\* An activation becomes the last one recorded.
LEMMA ActsAfterACT ==
  ASSUME NEW acts \in Seq(Nat), NEW c, c.cmd = "ACT"
  PROVE /\ ActsAfter(acts, c) \in Seq(Nat) /\ ActsAfter(acts, c) # <<>>
        /\ Last(ActsAfter(acts, c)) = 0
<1> DEFINE before == IF Len(acts) = 4 THEN Tail(acts) ELSE acts
<1>1. before \in Seq(Nat)
  <2>1. Len(acts) = 4 => acts # <<>>
    OBVIOUS
  <2>2. acts # <<>> => Tail(acts) \in Seq(Nat)
    BY HeadTailProperties
  <2> QED
    BY <2>1, <2>2
<1>2. ActsAfter(acts, c) = Append(before, 0)
  BY DEF ActsAfter
<1> HIDE DEF before
<1>3. Append(before, 0) \in Seq(Nat) /\ Append(before, 0) # <<>> /\ Last(Append(before, 0)) = 0
  <2>1. /\ Append(before, 0) \in Seq(Nat) /\ Append(before, 0) # <<>>
        /\ Len(Append(before, 0)) = Len(before) + 1
        /\ Append(before, 0)[Len(before) + 1] = 0
    BY <1>1, AppendProperties
  <2> QED
    BY <2>1 DEF Last
<1> QED
  BY <1>2, <1>3

\* A command that the controller allows leaves the accounts in agreement, and the
\* model silent.
LEMMA CommandLeavesAgreement ==
  ASSUME NEW bk, NEW acts, NEW bus, NEW ch, Consistent(bk, acts, bus, ch),
         NEW c, NEW r, c.bank \in Banks, Allowed(c.cmd, r, bk, acts, bus, c.bank)
  PROVE LET data == DataOf(c.cmd, r)
        IN /\ Consistent(BankAfter(bk, c, r), ActsAfter(acts, c), bus \cup data,
                         ChannelAfter(ch, c, data))
           /\ Silent(ch) => Silent(ChannelAfter(ch, c, data))
<1> DEFINE b == c.bank
           data == DataOf(c.cmd, r)
           done == Done(ch, c, data)
           bkA == BankAfter(bk, c, r)
           actsA == ActsAfter(acts, c)
           chA == ChannelAfter(ch, c, data)
<1>1. TypesOf(bk, acts, ch) /\ Agree(bk, acts, bus, ch)
  BY DEF Consistent
<1>2. /\ acts \in Seq(Nat) /\ ch.RAS \in [Banks -> Nat] /\ ch.ActiveBank \in Banks \cup {None}
      /\ DOMAIN bk = Banks
      /\ \A x \in Banks : WellFormed(bk[x])
      /\ {"RAS", "Precharge", "ActiveBank", "DataWindow", "failed"} \subseteq DOMAIN ch
  BY <1>1 DEF TypesOf
<1>3. /\ ch.DataWindow = bus
      /\ \A x \in Banks : bk[x].State \in Open => ch.RAS[x] = bk[x].ACT
      /\ ch.ActiveBank # None => bk[ch.ActiveBank].State \in Open /\ acts # <<>>
      /\ acts # <<>> => \A x \in Banks : ch.RAS[x] >= Capped(Last(acts), Oldest.ACT)
  BY <1>1 DEF Agree
<1>4. ChannelAccepts(ch, c, data)
  BY AllowedIsAccepted
<1>5. /\ DOMAIN done = DOMAIN ch
      /\ done.RAS = ch.RAS
      /\ done.ActiveBank = ch.ActiveBank
      /\ done.DataWindow = ch.DataWindow \cup data
      /\ Silent(ch) => Silent(done)
  BY <1>1, <1>4, DoneIs
<1>6. DOMAIN bkA = Banks /\ \A x \in Banks \ {b} : bkA[x] = bk[x]
  BY <1>2 DEF BankAfter
<1>7. CASE c.cmd = "ACT"
  <2>1. bkA[b] = setACT(bk[b], r.row)
    BY <1>2, <1>7 DEF BankAfter
  <2>2. bkA[b].State = "ACTIVATING" /\ bkA[b].ACT = 0 /\ DOMAIN bkA[b] = DOMAIN bk[b]
    BY <1>2, <2>1 DEF setACT, WellFormed
  <2>3. actsA \in Seq(Nat) /\ actsA # <<>> /\ Last(actsA) = 0
    BY <1>2, <1>7, ActsAfterACT
  <2>4. chA = [done EXCEPT !.RAS[b] = 0, !.ActiveBank = b]
    BY <1>7 DEF ChannelAfter
  <2> HIDE DEF done, bkA, actsA, chA
  <2>5. /\ DOMAIN chA = DOMAIN ch
        /\ chA.RAS = [ch.RAS EXCEPT ![b] = 0]
        /\ chA.ActiveBank = b
        /\ chA.DataWindow = bus \cup data
        /\ chA.failed = done.failed
    BY <1>2, <1>3, <1>5, <2>4
  <2>6. TypesOf(bkA, actsA, chA)
    <3>1. \A x \in Banks : WellFormed(bkA[x])
      <4>1. WellFormed(bk[b])
        BY <1>2
      <4>2. WellFormed(bkA[b])
        BY <2>2, <4>1 DEF WellFormed, States
      <4> QED
        BY <1>2, <1>6, <4>2
    <3>2. chA.RAS \in [Banks -> Nat]
      BY <1>2, <2>5
    <3> QED
      BY <1>2, <1>6, <2>3, <2>5, <3>1, <3>2 DEF TypesOf
  <2>7. \A x \in Banks : chA.RAS[x] \in Nat /\ chA.RAS[x] >= 0
    BY <2>6 DEF TypesOf
  <2>8. Capped(Last(actsA), Oldest.ACT) = 0
    BY <2>3, OldestActivation DEF Capped
  <2>9. Agree(bkA, actsA, bus \cup data, chA)
    BY <1>2, <1>3, <1>6, <2>2, <2>3, <2>5, <2>7, <2>8 DEF Agree, Open
  <2> QED
    BY <1>5, <2>5, <2>6, <2>9 DEF Consistent, Silent, bkA, actsA, chA
<1>8. CASE c.cmd = "PRE"
  <2>1. bkA[b] = setPRE(bk[b]) /\ data = {} /\ actsA = acts
    BY <1>2, <1>8 DEF BankAfter, DataOf, ActsAfter
  <2>2. bkA[b].State = "PRECHARGING" /\ bkA[b].ACT = bk[b].ACT /\ DOMAIN bkA[b] = DOMAIN bk[b]
    BY <1>2, <2>1 DEF setPRE, WellFormed
  <2>3. chA = [done EXCEPT !.Precharge[b] = 0, !.ActiveBank = None]
    BY <1>8 DEF ChannelAfter
  <2> HIDE DEF done, bkA, actsA, chA
  <2>4. /\ DOMAIN chA = DOMAIN ch
        /\ chA.RAS = ch.RAS
        /\ chA.ActiveBank = None
        /\ chA.DataWindow = bus \cup data
        /\ chA.failed = done.failed
    BY <1>2, <1>3, <1>5, <2>3
  <2>5. TypesOf(bkA, actsA, chA)
    BY <1>2, <1>6, <2>1, <2>2, <2>4 DEF TypesOf, WellFormed, States
  <2>6. Agree(bkA, actsA, bus \cup data, chA)
    BY <1>2, <1>3, <1>6, <2>1, <2>2, <2>4 DEF Agree, Open
  <2> QED
    BY <1>5, <2>4, <2>5, <2>6 DEF Consistent, Silent, bkA, actsA, chA
<1>9. CASE c.cmd \in {"READ", "WRITE"}
  <2>1. actsA = acts /\ bkA[b] \in {setREAD(bk[b]), setWRITE(bk[b])}
    BY <1>2, <1>9 DEF BankAfter, ActsAfter
  <2>2. bk[b].State \in Open
    BY <1>9 DEF Allowed, canREAD, canWRITE, canCAS, Open
  <2>3. bkA[b].State = "ACTIVE" /\ bkA[b].ACT = bk[b].ACT /\ DOMAIN bkA[b] = DOMAIN bk[b]
    BY <1>2, <2>1 DEF setREAD, setWRITE, WellFormed
  <2>4. chA = done
    BY <1>9 DEF ChannelAfter
  <2> HIDE DEF done, bkA, actsA, chA
  <2>5. TypesOf(bkA, actsA, chA)
    BY <1>2, <1>5, <1>6, <2>1, <2>3, <2>4 DEF TypesOf, WellFormed, States
  <2>6. Agree(bkA, actsA, bus \cup data, chA)
    BY <1>2, <1>3, <1>5, <1>6, <2>1, <2>2, <2>3, <2>4 DEF Agree, Open
  <2> QED
    BY <1>5, <2>4, <2>5, <2>6 DEF Consistent, Silent, bkA, actsA, chA
<1> QED
  BY <1>7, <1>8, <1>9 DEF Allowed
-----------------------------------------------------------------------------
(***************************************************************************)
(* The invariant holds in every reachable state.                           *)
(***************************************************************************)
\* The accounts agree at reset.
LEMMA Initially == Init => IInv
<1> SUFFICES ASSUME Init PROVE IInv
  OBVIOUS
<1>1. \A b \in Banks : /\ bank[b].State = "IDLE" /\ bank[b].ACT = 1
                       /\ {"State", "ActiveRow", "ACT", "PRE", "READ", "WRITE"} \subseteq DOMAIN bank[b]
  BY DEF Init
<1>2. DOMAIN bank = Banks /\ LastNActivates = <<>> /\ DataBusBusy = {}
  BY DEF Init
<1>3. /\ channel.RAS = [b \in Banks |-> 0] /\ channel.ActiveBank = None
      /\ channel.DataWindow = {} /\ channel.failed = FALSE
      /\ {"RAS", "Precharge", "ActiveBank", "DataWindow", "failed"} \subseteq DOMAIN channel
  BY DEF Init
<1>4. TypesOf(bank, LastNActivates, channel)
  BY <1>1, <1>2, <1>3 DEF TypesOf, WellFormed, States
<1>5. Agree(bank, LastNActivates, DataBusBusy, channel)
  BY <1>1, <1>2, <1>3 DEF Agree, Open
<1> QED
  BY <1>3, <1>4, <1>5 DEF IInv, Consistent, Silent

\* A request that is tried is one of a bank
LEMMA AttemptsAreOfBanks ==
  ASSUME NEW buf, NEW bk, NEW now, NEW a \in Attempts(buf, bk, now)
  PROVE a[1] \in Banks
<1> DEFINE all == {x \in Banks \X Slots : x[2] \in Tries(buf, bk, x[1])}
           one == UNION {First({x \in all : x[1] = b}, buf, bk, now) : b \in Banks}
<1>1. one \subseteq all /\ First(one, buf, bk, now) \subseteq one
  BY DEF First
<1>2. a \in all
  BY <1>1 DEF Attempts
<1> QED
  BY <1>2

\* One DRAM clock: the accounts age, then follow the command issued, if any.
LEMMA ClockPreserves == IInv /\ PerCycle => IInv'
<1> SUFFICES ASSUME IInv, PerCycle PROVE IInv'
  OBVIOUS
<1> DEFINE buf == Returned(requestBuffer)
           bk == OlderBanks(bank)
           acts == OlderActs(LastNActivates)
           bus == OlderBus(DataBusBusy)
           ch == OlderChannel(channel)
           now == (clock + 1) % PENDING_PER_BANK
           attempts == Attempts(buf, bk, now)
           able == Able(attempts, buf, bk, acts, bus)
           Command(a) == [cmd |-> NextCommand(bk[a[1]], buf[a[1]][a[2]]),
                          bank |-> a[1], slot |-> a[2]]
<1>1. Consistent(bk, acts, bus, ch)
  BY AccountsAge DEF IInv
<1>2. Silent(ch)
  BY ChannelAges DEF IInv, Consistent, Silent
<1>3. \/ \E a \in First(able, buf, bk, now) : Issue(Command(a), buf, bk, acts, bus)
      \/ /\ bank' = bk /\ LastNActivates' = acts /\ DataBusBusy' = bus
         /\ Execute(NoCommand, {})
  <2>1. Scheduled(buf, bk, acts, bus, now, attempts, able)
    BY DEF PerCycle
  <2> HIDE DEF buf, bk, acts, bus, now, attempts, able
  <2> QED
    BY <2>1 DEF Scheduled
<1> HIDE DEF buf, bk, acts, bus, ch, now
<1>4. ASSUME NEW a \in First(able, buf, bk, now), Issue(Command(a), buf, bk, acts, bus)
      PROVE IInv'
  <2> DEFINE c == Command(a)
             r == buf[c.bank][c.slot]
             data == DataOf(c.cmd, r)
  <2>1. a \in attempts /\ helper_HandleRequest(buf, bk, acts, bus, a[1], a[2])
    BY <1>4 DEF First, Able
  <2>2. c.bank = a[1] /\ c.slot = a[2] /\ c.cmd = NextCommand(bk[a[1]], buf[a[1]][a[2]])
    OBVIOUS
  <2>3. c.bank \in Banks
    BY <2>1, <2>2, AttemptsAreOfBanks
  <2>4. Allowed(c.cmd, r, bk, acts, bus, c.bank)
    BY <2>1, <2>2, HandledIsAllowed
  <2> HIDE DEF c
  <2>5. /\ bank' = BankAfter(bk, c, r)
        /\ LastNActivates' = ActsAfter(acts, c)
        /\ DataBusBusy' = bus \cup data
        /\ Execute(c, data)
    BY <1>4 DEF Issue, BankAfter, ActsAfter, DataOf, c
  <2>6. channel' = ChannelAfter(ch, c, data)
    BY <2>5 DEF Execute, ChannelAfter, Done, OlderChannel, Older, OlderPre, OlderBus, ch
  <2>7. /\ Consistent(BankAfter(bk, c, r), ActsAfter(acts, c), bus \cup data,
                      ChannelAfter(ch, c, data))
        /\ Silent(ChannelAfter(ch, c, data))
    BY <1>1, <1>2, <2>3, <2>4, CommandLeavesAgreement
  <2> QED
    BY <2>5, <2>6, <2>7 DEF IInv
<1>5. ASSUME bank' = bk, LastNActivates' = acts, DataBusBusy' = bus, Execute(NoCommand, {})
      PROVE IInv'
  <2>1. channel' = Done(ch, NoCommand, {})
    BY <1>5 DEF Execute, NoCommand, Done, OlderChannel, Older, OlderPre, OlderBus, ch
  <2>2. ChannelAccepts(ch, NoCommand, {})
    BY DEF ChannelAccepts, NoCommand
  <2>3. TypesOf(bk, acts, ch) /\ Agree(bk, acts, bus, ch)
    BY <1>1 DEF Consistent
  <2> DEFINE done == Done(ch, NoCommand, {})
  <2>4. /\ DOMAIN done = DOMAIN ch
        /\ done.RAS = ch.RAS
        /\ done.ActiveBank = ch.ActiveBank
        /\ done.DataWindow = ch.DataWindow
        /\ Silent(done)
    BY <1>2, <2>2, <2>3, DoneIs
  <2> HIDE DEF done
  <2>5. TypesOf(bk, acts, done) /\ Agree(bk, acts, bus, done)
    BY <2>3, <2>4 DEF TypesOf, Agree
  <2> QED
    BY <1>5, <2>1, <2>4, <2>5 DEF IInv, Consistent, done
<1> QED
  BY <1>3, <1>4, <1>5

\* A request that is taken in changes nothing of the accounts.
LEMMA StepPreserves == IInv /\ [Next]_vars => IInv'
<1>1. IInv /\ (\E o \in Offered : Schedule(o)) => IInv'
  BY DEF IInv, Schedule
<1>2. IInv /\ UNCHANGED vars => IInv'
  BY DEF IInv, vars
<1> QED
  BY <1>1, <1>2, ClockPreserves DEF Next

\* The accounts of the controller and of the channel model agree in every
\* reachable state.
THEOREM AccountsAgree == Spec => []IInv
BY Initially, StepPreserves, PTL DEF Spec

\* Whatever requests arrive, whatever the number of banks and slots and whatever
\* the latencies, as long as two activations need not be further apart in two
\* banks than in one: no assertion of DRAMChannelModel::PerCycle or of
\* ScheduleData fails.
THEOREM NoAssertionFails == Spec => []ChannelModelAccepts
<1>1. IInv => ChannelModelAccepts
  BY DEF IInv, ChannelModelAccepts, Silent
<1> QED
  BY <1>1, AccountsAgree, PTL
=============================================================================
