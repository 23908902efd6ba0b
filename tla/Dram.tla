-------------------------------- MODULE Dram --------------------------------
(***************************************************************************)
(* One DRAM channel of one rank: the controller's request buffers, its     *)
(* per-bank scheduler (DRAM_SCHEDULING_POLICY "perbank", no batches, no    *)
(* row cache) and the timing state by which it decides what the channel    *)
(* may be told.  Schedule is the global cache's call; PerCycle is one DRAM *)
(* clock: lines that have arrived are returned, at most one command is     *)
(* issued, the watchdogs count down.                                       *)
(*                                                                         *)
(* The code keeps the cycle of each event; the module keeps its age, up to *)
(* the point from which no latency can tell it from an older one.          *)
(***************************************************************************)
EXTENDS Integers, Sequences, FiniteSets, SequencesExt, FiniteSetsExt

CONSTANTS
  BANKS, PENDING_PER_BANK,
  Offered,                      \* the requests the global cache may make
  Endless,                      \* those of them it may go on making for ever
  RAS, RC, RRD, FAW, RCDR, RCDW, RP, CL, WR, WTR, WL, RTP, CCD,
  Burst,                        \* BURST_SIZE/2, cycles of data
  MC_FORCE_SCHEDULE_SOFT, MC_FORCE_SCHEDULE_HARD,
  MaxRequests                   \* bound on the calls of Schedule for the others
ASSUME BuffersExist == BANKS \in Nat \ {0} /\ PENDING_PER_BANK \in Nat \ {0}
ASSUME LatenciesOrdered ==
  /\ {RAS, RC, RRD, FAW, RCDR, RCDW, RP, CL, WR, WTR, WL, RTP, CCD, Burst} \subseteq Nat
  /\ RRD <= RC
ASSUME OfferedFits ==
  \A o \in Offered : o.bank \in 0 .. BANKS - 1 /\ o.read \in BOOLEAN /\ o.row \in Nat /\ o.lines \in Nat \ {0}
ASSUME EndlessIsOffered == Endless \subseteq Offered

VARIABLES
  requestBuffer,   \* bank -> slot -> request
  pendingRequest,  \* bank -> the slot the scheduler keeps to, or None
  bank,            \* State, ActiveRow and the ages of ACT, PRE, READ and WRITE
  readBank0,       \* READ[0][0] is no longer UINT64_MAX
  LastNActivates,  \* the ages of the last four activations, oldest first
  DataBusBusy,     \* the cycles from now in which the data bus is taken
  priorityBank,
  clock,           \* GetDRAMCycle() % PENDING_PER_BANK
  issued,          \* the command of this cycle: its name, bank and slot
  channel,         \* DRAMChannelModel: LastAccess, DataWindow, an assertion failed
  made             \* accepted calls of Schedule, those for Endless left out
vars == <<requestBuffer, pendingRequest, bank, readBank0, LastNActivates, DataBusBusy,
          priorityBank, clock, issued, channel, made>>

Banks == 0 .. BANKS - 1
Slots == 0 .. PENDING_PER_BANK - 1
None == -1
Free == [row |-> None, read |-> TRUE, addrs |-> {}, ready |-> <<>>, wait |-> 0]
NoCommand == [cmd |-> "NOP", bank |-> None, slot |-> None]
Capped(n, limit) == IF n < limit THEN n ELSE limit
WriteEnd == WL + Burst - 1                        \* WRITE to its last data
Oldest == [ACT |-> Max({RC, RAS, RCDR, RCDW}), PRE |-> RP, READ |-> Max({RTP, CCD}),
           WRITE |-> Max({CCD, WriteEnd + Max({WR, WTR})})]

Init ==
  /\ requestBuffer = [b \in Banks |-> [s \in Slots |-> Free]]
  /\ pendingRequest = [b \in Banks |-> None]
  /\ bank = [b \in Banks |->                      \* cycle 0 - UINT64_MAX is 1
               [State |-> "IDLE", ActiveRow |-> None, ACT |-> 1, PRE |-> Oldest.PRE,
                READ |-> Oldest.READ, WRITE |-> Oldest.WRITE]]
  /\ readBank0 = FALSE
  /\ LastNActivates = <<>>
  /\ DataBusBusy = {}
  /\ priorityBank = 0
  /\ clock = 0
  /\ issued = NoCommand
  /\ channel = [RAS |-> [b \in Banks |-> 0], Precharge |-> [b \in Banks |-> 0],
                ActiveBank |-> None, DataWindow |-> {}, failed |-> FALSE]
  /\ made = 0

Valid(buf, b, s) == buf[b][s].row # None
AllLinesPending(r) == Len(r.ready) = Cardinality(r.addrs)
Window(r) == r.row # None /\ ~AllLinesPending(r)

\* The set of ready lines is ordered by cycle, except that equal addresses are
\* equal, so find(addr) answers for its first element only, and insert keeps an
\* address out when it is the last element's.
IsPending(r, a) == r.ready # <<>> /\ Head(r.ready).addr = a
SetLineReady(r, a, in) ==
  IF r.ready # <<>> /\ Last(r.ready).addr = a THEN r
  ELSE [r EXCEPT !.ready = Append(@, [addr |-> a, in |-> in])]
Unpended(r) == Min({a \in r.addrs : ~IsPending(r, a)})
-----------------------------------------------------------------------------
(***************************************************************************)
(* TimingInfo: which command a bank may be given, on the state `bk' of the *)
(* banks in the current cycle.                                             *)
(***************************************************************************)
\* unsigned subtraction: what lies in the future is long past
Within(age, latency) == 0 <= age /\ age < latency
WRITEHasHappened(k) == k.WRITE < k.ACT
READHasHappened(k) == k.READ < k.ACT
WriteData(k) == k.WRITE - WriteEnd
getLastCAS(bk, seen) ==
  IF seen THEN Min({bk[c].READ : c \in Banks} \cup {bk[c].WRITE : c \in Banks}) ELSE CCD

canACT(bk, acts, b) ==
  /\ bk[b].State = "IDLE" \/ (bk[b].State = "PRECHARGING" /\ bk[b].PRE >= RP)
  /\ acts # <<>> => /\ bk[b].ACT >= RC
                    /\ Last(acts) >= RRD
                    /\ Len(acts) = 4 => acts[1] >= FAW
\* mutated: the data bus is looked at in the first cycle of the burst only
canCAS_FirstBeat(bk, b, seen, bus, rcd, latency) ==
  /\ bk[b].State \in {"ACTIVATING", "ACTIVE"}
  /\ bk[b].ACT >= rcd
  /\ getLastCAS(bk, seen) >= CCD
  /\ latency \notin bus
canCAS(bk, b, seen, bus, rcd, latency) ==
  /\ bk[b].State \in {"ACTIVATING", "ACTIVE"}
  /\ bk[b].ACT >= rcd
  /\ getLastCAS(bk, seen) >= CCD
  /\ bus \cap (latency .. latency + Burst - 1) = {}
canREAD(bk, b, seen, bus) ==
  /\ canCAS(bk, b, seen, bus, RCDR, CL)
  /\ ~(WRITEHasHappened(bk[b]) /\ Within(WriteData(bk[b]), WTR))
canWRITE(bk, b, seen, bus) == canCAS(bk, b, seen, bus, RCDW, WL)
canPRE(bk, b) ==
  /\ bk[b].State = "ACTIVE"
  /\ bk[b].ACT >= RAS
  /\ ~(WRITEHasHappened(bk[b]) /\ Within(WriteData(bk[b]), WR))
  /\ ~(READHasHappened(bk[b]) /\ bk[b].READ < RTP)
-----------------------------------------------------------------------------
(***************************************************************************)
(* Schedule_PerBankPendingRequests: the requests the scheduler tries, in   *)
(* the order it tries them.                                                *)
(***************************************************************************)
TimedOut(buf, b) ==
  {s \in Slots : Window(buf[b][s]) /\ buf[b][s].wait >= MC_FORCE_SCHEDULE_SOFT}
RowHits(buf, bk, b) ==
  {s \in Slots : Window(buf[b][s]) /\ buf[b][s].row = bk[b].ActiveRow}
Waited(buf, b) == Max({buf[b][s].wait : s \in TimedOut(buf, b)})
helper_FindTimeout(buf, b) == Min({s \in TimedOut(buf, b) : buf[b][s].wait = Waited(buf, b)})

ForcedBanks(buf) == {b \in Banks : TimedOut(buf, b) # {}}
HardForced(buf) == \E b \in ForcedBanks(buf) : Waited(buf, b) >= MC_FORCE_SCHEDULE_HARD

\* The round robin over the banks starts at priorityBank, or at the first bank
\* from there on whose forced request has waited longest.
Turns(from, to, n) == (to - from) % n
StartBank(buf) ==
  LET forced == ForcedBanks(buf)
      oldest == {b \in forced : \A c \in forced : Waited(buf, b) >= Waited(buf, c)}
  IN IF forced = {} THEN priorityBank
     ELSE CHOOSE b \in oldest :
            \A c \in oldest : Turns(priorityBank, b, BANKS) <= Turns(priorityBank, c, BANKS)

FirstSlot(buf, bk, b, now) ==
  IF pendingRequest[b] # None THEN pendingRequest[b]
  ELSE IF TimedOut(buf, b) # {} THEN helper_FindTimeout(buf, b)
  ELSE IF RowHits(buf, bk, b) # {} THEN Min(RowHits(buf, bk, b))
  ELSE now
\* the first of the attempts S, where a[1] is the bank and a[2] the slot: banks
\* in turn from the first one, in each the slots in turn from its first one
First(S, buf, bk, now) ==
  LET start == StartBank(buf)
      first == [b \in Banks |-> FirstSlot(buf, bk, b, now)]
      Turn(a) == Turns(start, a[1], BANKS) * PENDING_PER_BANK
                   + Turns(first[a[1]], a[2], PENDING_PER_BANK)
  IN IF Cardinality(S) <= 1 THEN S ELSE {a \in S : \A x \in S : Turn(a) <= Turn(x)}

\* A bank that keeps to no request tries row hits only, while it has one.  While
\* a request of any bank is forced, a bank tries one request; past the hard
\* limit, only one bank does.
Tries(buf, bk, b) ==
  LET hits == RowHits(buf, bk, b)
  IN IF pendingRequest[b] = None /\ hits # {} THEN hits
     ELSE {s \in Slots : Window(buf[b][s])}
Attempts(buf, bk, now) ==
  LET all == {a \in Banks \X Slots : a[2] \in Tries(buf, bk, a[1])}
      one == UNION {First({a \in all : a[1] = b}, buf, bk, now) : b \in Banks}
  IN IF ForcedBanks(buf) = {} THEN all
     ELSE IF HardForced(buf) THEN First(one, buf, bk, now) ELSE one

NextCommand(k, r) ==
  CASE k.ActiveRow = None -> "ACT"
    [] k.ActiveRow \notin {None, r.row} -> "PRE"
    [] k.ActiveRow = r.row /\ r.read -> "READ"
    [] OTHER -> "WRITE"
helper_HandleRequest(buf, bk, acts, bus, b, s) ==
  LET cmd == NextCommand(bk[b], buf[b][s])
  IN \/ cmd = "ACT" /\ canACT(bk, acts, b)
     \/ cmd = "PRE" /\ canPRE(bk, b)
     \/ cmd = "READ" /\ canREAD(bk, b, readBank0, bus)
     \/ cmd = "WRITE" /\ canWRITE(bk, b, readBank0, bus)
Able(attempts, buf, bk, acts, bus) ==
  {a \in attempts : helper_HandleRequest(buf, bk, acts, bus, a[1], a[2])}
-----------------------------------------------------------------------------
(***************************************************************************)
(* One DRAM clock.                                                         *)
(***************************************************************************)
Aged(k) == [k EXCEPT !.ACT = Capped(@ + 1, Oldest.ACT), !.PRE = Capped(@ + 1, Oldest.PRE),
                     !.READ = Capped(@ + 1, Oldest.READ), !.WRITE = Capped(@ + 1, Oldest.WRITE)]
\* helper_HandleReadyLines: what has arrived is called back, a request without
\* lines leaves its slot
HandleReadyLines(r) ==
  LET later == [i \in DOMAIN r.ready |-> [r.ready[i] EXCEPT !.in = @ - 1]]
      back == {later[i].addr : i \in {j \in DOMAIN later : later[j].in <= 0}}
  IN IF r.addrs = back THEN Free
     ELSE [r EXCEPT !.addrs = @ \ back, !.ready = SelectSeq(later, LAMBDA e : e.in > 0)]
Returned(buf) == [b \in Banks |-> [s \in Slots |-> HandleReadyLines(buf[b][s])]]
OlderBanks(bk) == [b \in Banks |-> Aged(bk[b])]
OlderActs(acts) == [i \in DOMAIN acts |-> Capped(acts[i] + 1, FAW)]
OlderBus(bus) == {d - 1 : d \in bus \ {0}}

\* One more cycle waited, by every request.  Past the hard limit the scheduler
\* only tells who waits longer: those waits are kept as ranks from there.  The
\* code asserts that none reaches MC_PENDING_WDT; here a wait may have no end.
helper_DecrementWDTs(buf) ==
  LET Wait(b, s) == buf[b][s].wait + 1
      late == {Wait(a[1], a[2]) : a \in Banks \X Slots} \ 0 .. MC_FORCE_SCHEDULE_HARD
      Rank(w) == MC_FORCE_SCHEDULE_HARD + Cardinality({x \in late : x <= w})
  IN [b \in Banks |-> [s \in Slots |->
        IF ~Valid(buf, b, s) THEN buf[b][s]
        ELSE [buf[b][s] EXCEPT !.wait = IF Wait(b, s) \in late THEN Rank(Wait(b, s)) ELSE @ + 1]]]

setACT(k, row) == [k EXCEPT !.State = "ACTIVATING", !.ActiveRow = row, !.ACT = 0]
setPRE(k) == [k EXCEPT !.State = "PRECHARGING", !.ActiveRow = None, !.PRE = 0]
setREAD(k) == [k EXCEPT !.State = "ACTIVE", !.READ = 0]
\* mutated: the bank stays ACTIVATING
setWRITE_KeepsState(k) == [k EXCEPT !.WRITE = 0]
setWRITE(k) == [k EXCEPT !.State = "ACTIVE", !.WRITE = 0]

\* DRAMChannelModel::PerCycle executes the command of this cycle and asserts the
\* latencies it checks; ScheduleData asserts that no data is there yet
ChannelAccepts(ch, c, data) ==
  /\ c.cmd = "ACT" /\ ch.ActiveBank # None =>
       IF ch.ActiveBank = c.bank
       THEN ch.RAS[c.bank] >= RC /\ ch.Precharge[c.bank] >= RP
       ELSE \A b \in Banks : ch.RAS[b] >= RRD
  /\ c.cmd = "READ" => ch.RAS[c.bank] >= RCDR
  /\ c.cmd = "WRITE" => ch.RAS[c.bank] >= RCDW
  /\ data \cap ch.DataWindow = {}
Execute(c, data) ==
  LET older(f, limit) == [b \in Banks |-> Capped(f[b] + 1, limit)]
      ch == [channel EXCEPT !.RAS = older(@, Oldest.ACT), !.Precharge = older(@, Oldest.PRE),
                            !.DataWindow = OlderBus(@)]
      done == [ch EXCEPT !.DataWindow = @ \cup data,
                         !.failed = @ \/ ~ChannelAccepts(ch, c, data)]
  IN channel' = CASE c.cmd = "ACT" -> [done EXCEPT !.RAS[c.bank] = 0, !.ActiveBank = c.bank]
                  [] c.cmd = "PRE" -> [done EXCEPT !.Precharge[c.bank] = 0, !.ActiveBank = None]
                  [] OTHER -> done

\* the command `c' is issued: the banks, the buses and the request follow
Issue(c, buf, bk, acts, bus) ==
  LET r == buf[c.bank][c.slot]
      latency == IF r.read THEN CL ELSE WL
      data == IF c.cmd \in {"READ", "WRITE"} THEN latency .. latency + Burst - 1 ELSE {}
  IN /\ bank' = [bk EXCEPT ![c.bank] = CASE c.cmd = "ACT" -> setACT(@, r.row)
                                         [] c.cmd = "PRE" -> setPRE(@)
                                         [] c.cmd = "READ" -> setREAD(@)
                                         [] c.cmd = "WRITE" -> setWRITE(@)]
     /\ readBank0' = (readBank0 \/ (c.cmd = "READ" /\ c.bank = 0))
     /\ LastNActivates' =
          IF c.cmd # "ACT" THEN acts
          ELSE Append(IF Len(acts) = 4 THEN Tail(acts) ELSE acts, 0)
     /\ DataBusBusy' = bus \cup data
     /\ Execute(c, data)
     /\ requestBuffer' =
          helper_DecrementWDTs(
            IF data = {} THEN buf
            ELSE [buf EXCEPT ![c.bank][c.slot] = SetLineReady(@, Unpended(r), latency + Burst - 1)])
     /\ issued' = c

\* the slot each bank keeps to: the request served, until all its lines are
\* pending; and, while one is forced, the request it tried in vain
KeepTo(attempts, c, buf) ==
  pendingRequest' =
    [b \in Banks |->
       LET tried == {s \in Slots : <<b, s>> \in attempts}
       IN IF b = c.bank
          THEN IF AllLinesPending(requestBuffer'[b][c.slot]) THEN None ELSE c.slot
          ELSE IF ForcedBanks(buf) # {} /\ tried # {} THEN Min(tried)
          ELSE pendingRequest[b]]

\* what the scheduler does in a clock
Scheduled(buf, bk, acts, bus, now, attempts, able) ==
  LET Command(a) == [cmd |-> NextCommand(bk[a[1]], buf[a[1]][a[2]]), bank |-> a[1], slot |-> a[2]]
  IN \/ \E a \in First(able, buf, bk, now) :
          /\ Issue(Command(a), buf, bk, acts, bus)
          /\ KeepTo(attempts, Command(a), buf)
     \/ /\ able = {}
        /\ requestBuffer' = helper_DecrementWDTs(buf)
        /\ bank' = bk
        /\ LastNActivates' = acts
        /\ DataBusBusy' = bus
        /\ issued' = NoCommand
        /\ Execute(NoCommand, {})
        /\ KeepTo(attempts, NoCommand, buf)
        /\ UNCHANGED readBank0

\* (\E over a single value where LET would do: TLC evaluates it once)
PerCycle ==
  \E buf \in {Returned(requestBuffer)}, bk \in {OlderBanks(bank)},
     acts \in {OlderActs(LastNActivates)}, bus \in {OlderBus(DataBusBusy)},
     now \in {(clock + 1) % PENDING_PER_BANK} :
  \E attempts \in {Attempts(buf, bk, now)} :
  \E able \in {Able(attempts, buf, bk, acts, bus)} :
     /\ clock' = now
     /\ priorityBank' = (priorityBank + 1) % BANKS
     /\ Scheduled(buf, bk, acts, bus, now, attempts, able)
     /\ UNCHANGED made

\* DRAMController::Schedule: the first free slot of the bank, or a refusal; the
\* cache asks for no line that is already asked for (assert "COLLISION!")
Schedule(o) ==
  LET free == {s \in Slots : ~Valid(requestBuffer, o.bank, s)}
  IN /\ o \in Endless \/ made < MaxRequests
     /\ free # {}
     /\ requestBuffer' = [requestBuffer EXCEPT ![o.bank][Min(free)] =
          [row |-> o.row, read |-> o.read, addrs |-> 1 .. o.lines, ready |-> <<>>, wait |-> 0]]
     /\ made' = IF o \in Endless THEN made ELSE made + 1
     /\ UNCHANGED <<pendingRequest, bank, readBank0, LastNActivates, DataBusBusy, priorityBank,
                    clock, issued, channel>>

Next == PerCycle \/ \E o \in Offered : Schedule(o)
Spec == Init /\ [][Next]_vars

\* The clock does not stop.  PerCycle is always enabled and, with two slots or
\* more, the only action that moves `clock', so this is WF_vars(PerCycle); TLC
\* decides it without evaluating the scheduler again for every edge.
FairSpec == Spec /\ []<><<TRUE>>_clock
-----------------------------------------------------------------------------
\* The checker agrees: no command the controller issues breaks a latency that
\* DRAMChannelModel::PerCycle asserts, and no two bursts meet on the data bus.
ChannelModelAccepts == ~channel.failed

\* a row hit is served while its bank has a request past the hard limit that
\* misses the row
Overtakes ==
  /\ issued.cmd \in {"READ", "WRITE"}
  /\ \E s \in TimedOut(requestBuffer, issued.bank) :
       /\ requestBuffer[issued.bank][s].wait >= MC_FORCE_SCHEDULE_HARD
       /\ requestBuffer[issued.bank][s].row # bank[issued.bank].ActiveRow

\* Only row hits starve a request (Schedule_PerBankPendingRequests).  A request
\* past its limit is to be scheduled by force (include/sim.h:462), and in one
\* case it is not: while its bank has row hits it is skipped
\* (dram_controller.cpp:504), for ever if they never end.  Unless a request past
\* the hard limit is overtaken like that time and again, every slot becomes free
\* again and again: no request is lost between the slot its bank keeps to, the
\* forced one and the turns of banks and slots.
OnlyRowHitsStarve ==
  []<>Overtakes \/ \A b \in Banks, s \in Slots : []<>~Valid(requestBuffer, b, s)
=============================================================================
