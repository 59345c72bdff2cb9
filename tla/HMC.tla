--------------------------------- MODULE HMC ---------------------------------
(***************************************************************************)
(* class HMCMemorySystem: requests enter on serial links, cross a crossbar *)
(* to the quadrant of their vault, are served by the vault's controller,   *)
(* and their responses cross the crossbar back to the link they came from. *)
(*                                                                         *)
(* The vaults are Controllers.  Here each one is reduced to what           *)
(* MemoryService says of it and to what the crossbar sees of its timing: a *)
(* write is returned in the second DRAM cycle after it was added, a read   *)
(* then or later, in any order; while its queues are full, which a write   *)
(* may cause that has long been returned, it accepts nothing.              *)
(*                                                                         *)
(* As in the modules of the controller, moments are kept as the number of  *)
(* cycles left.                                                            *)
(***************************************************************************)
EXTENDS Integers, Sequences, FiniteSets, SequencesExt

CONSTANTS
    Addr,            \* the addresses requests may carry
    GetChannel,      \* [Addr -> vault], BaseDRAMSystem::GetChannel
    channels,        \* number of vaults
    epoch_period,    \* DRAM cycles between two statistics reports
    num_links, link_width, link_speed, block_size, xbar_queue_depth,
    VaultDepth,      \* bound: transactions a vault has not yet returned
    MaxVaultWait,    \* bound: DRAM cycles a read waits in its vault, and
                     \* cycles in a row in which a vault accepts nothing
    Requests,        \* the requests the driver makes
    MaxOutstanding   \* bound: requests accepted and not yet returned

Transactions == [addr : Addr, is_write : BOOLEAN]

Links  == 0 .. num_links - 1
Quads  == 0 .. 3
Vaults == 0 .. channels - 1

ASSUME LinksAssumption ==
    /\ epoch_period \in Nat \ {0, 1}
    /\ num_links \in Nat \ {0} /\ channels \in Nat \ {0}
    /\ xbar_queue_depth \in Nat \ {0} /\ VaultDepth \in Nat \ {0}
    /\ MaxVaultWait \in Nat /\ block_size \in {0, 32, 64, 128, 256}
    /\ GetChannel \in [Addr -> Vaults]
    /\ Requests \subseteq Transactions

(* SetClockRatio: picoseconds per DRAM cycle and per cycle of the logic.   *)
ps_per_dram_ == 800
ps_per_logic_ ==
    LET link_cycles_per_flit == 128 \div link_width
        ps == 1000000 \div (link_speed \div link_cycles_per_flit)
    IN IF ps > ps_per_dram_ THEN ps_per_dram_ ELSE ps

ASSUME ClockAssumption ==
    /\ link_width \in 1 .. 128 /\ link_speed \in Nat
    /\ link_speed \div (128 \div link_width) > 0
    /\ ps_per_logic_ > 0

(* Flits of a packet: one for the header, and one per 16 bytes of data in  *)
(* the packets that carry data.  Block size 0 stands for no traffic.       *)
PacketFlits(carries_data) ==
    IF block_size = 0 THEN 0
    ELSE IF carries_data THEN 1 + block_size \div 16 ELSE 1

ReqFlits(req)   == PacketFlits(req.is_write)
RespFlits(resp) == PacketFlits(~resp.is_write)

(* The quadrant of an address's vault.                                     *)
QuadOf(addr) == GetChannel[addr] % 4

(* A request or a response on its way: wait is the number of logic cycles  *)
(* until its exit_time.                                                    *)
Packet(t, link) ==
    [addr |-> t.addr, is_write |-> t.is_write, link |-> link, wait |-> 0]

(* logic_clk_ only selects where a round robin starts, among the links or  *)
(* among the quadrants.  An age is only compared with link and quadrant    *)
(* numbers, and stops counting beyond them.                                *)
LogicPeriod == IF 4 % num_links = 0 THEN 4 ELSE 4 * num_links
MaxAge == IF num_links > 4 THEN num_links ELSE 4

VARIABLES
    clk_,   \* the cycle counter, which only times the reports, % epoch_period
    hmc     \* the other members

vars == <<clk_, hmc>>

NewHMC ==
    [logic_clk_ |-> 0,
     lead       |-> 0,                        \* logic_ps_ - dram_ps_
     next_link_ |-> 0,
     resp_lookup_table_ |-> [a \in Addr |-> <<>>],
     link_req_queues_   |-> [l \in Links |-> <<>>],
     link_resp_queues_  |-> [l \in Links |-> <<>>],
     quad_req_queues_   |-> [q \in Quads |-> <<>>],
     quad_resp_queues_  |-> [q \in Quads |-> <<>>],
     link_busy_ |-> [l \in Links |-> 0],
     quad_busy_ |-> [q \in Quads |-> 0],
     link_age_counter_  |-> [l \in Links |-> 0],
     quad_age_counter_  |-> [q \in Quads |-> 0],
     ctrls_     |-> [v \in Vaults |-> <<>>],
     full       |-> [v \in Vaults |-> 0],        \* cycles without room
     callbacks  |-> [t \in Transactions |-> 0]]  \* made by the last step

-----------------------------------------------------------------------------
(* Vaults: the transactions each one has not yet returned, and for how     *)
(* many cycles its queues have been full.                                  *)

VaultAccepts(s, v) == s.full[v] = 0 /\ Len(s.ctrls_[v]) < VaultDepth

VaultEntry(req) == [addr |-> req.addr, is_write |-> req.is_write, wait |-> 1]

(* What the vaults may return in a cycle: for each of them the positions   *)
(* of the transactions returned, in the order they are.                    *)
ReturnOrders ==
    {order \in SeqOf(1 .. VaultDepth, VaultDepth) : IsInjective(order)}

MayReturn(entries, order) ==
    /\ \A i \in Range(order) : i \in DOMAIN entries /\ entries[i].wait <= 0
    /\ \A i \in DOMAIN entries :
         entries[i].wait <= (IF entries[i].is_write THEN 0 ELSE - MaxVaultWait)
            => i \in Range(order)

Returns(s) == {done \in [Vaults -> ReturnOrders] :
                  \A v \in Vaults : MayReturn(s.ctrls_[v], done[v])}

(* The vaults that may be full after a cycle.  It only matters for those   *)
(* that a request is on its way to.                                        *)
MayBeFull(s) ==
    LET Queued(queues) ==
            UNION {{GetChannel[p.addr] : p \in Range(queues[k])} : k \in DOMAIN queues}
    IN {v \in Queued(s.link_req_queues_) \cup Queued(s.quad_req_queues_) :
            s.full[v] < MaxVaultWait}

-----------------------------------------------------------------------------
(* Requests.                                                               *)

(* Mutant: one packet too many.                                            *)
HasRoom_OffByOne(queue) == Len(queue) <= xbar_queue_depth

HasRoom(queue) == Len(queue) < xbar_queue_depth

WillAcceptTransaction(s) == \E l \in Links : HasRoom(s.link_req_queues_[l])

(* Mutant: the age of the link is not set.                                 *)
InsertReqToLink_NoAge(s, t, link) ==
    [s EXCEPT !.link_req_queues_[link] = Append(@, Packet(t, link)),
              !.resp_lookup_table_[t.addr] = Append(@, Packet(t, link))]

InsertReqToLink(s, t, link) ==
    [s EXCEPT !.link_req_queues_[link] = Append(@, Packet(t, link)),
              !.resp_lookup_table_[t.addr] = Append(@, Packet(t, link)),
              !.link_age_counter_[link] = 1]

IterateNextLink(link) == (link + 1) % num_links

(* InsertHMCReq: the first link with room, from next_link_ on.             *)
InsertHMCReq(s, t) ==
    LET Link(k) == (s.next_link_ + k) % num_links
        k == Min({j \in Links : HasRoom(s.link_req_queues_[Link(j)])})
    IN [InsertReqToLink(s, t, Link(k)) EXCEPT !.next_link_ = IterateNextLink(Link(k))]

-----------------------------------------------------------------------------
(* The crossbar.                                                           *)

(* The age of a queue whose first packet has just left.                    *)
AgeAfterMove(queue) == IF Tail(queue) = <<>> THEN 0 ELSE 1

(***************************************************************************)
(* One side of the crossbar, x: the queues packets come from and go to,    *)
(* the busy counters of the destinations, the ages of the sources, and     *)
(* whether the packets are requests.  Cross moves the first packet of      *)
(* queue src, or makes the queue older.                                    *)
(***************************************************************************)
Cross(x, src) ==
    LET p == Head(x.from[src])
        d == IF x.requests THEN QuadOf(p.addr) ELSE p.link
        flits == IF x.requests THEN ReqFlits(p) ELSE RespFlits(p)
    IN IF HasRoom(x.to[d]) /\ x.busy[d] <= 0
       THEN [x EXCEPT !.from[src] = Tail(@),
                      !.to[d] = Append(@, [p EXCEPT !.wait = flits]),
                      !.busy[d] = flits,
                      !.age[src] = AgeAfterMove(x.from[src])]
       ELSE [x EXCEPT !.age[src] = IF @ < MaxAge THEN @ + 1 ELSE @]

(* Source pos is put before the first one whose number is below its age.   *)
PutByAge(age, queue, pos) ==
    LET before == {i \in DOMAIN queue : age[pos] > queue[i]}
    IN IF age[pos] = 0 THEN queue
       ELSE IF before = {} THEN Append(queue, pos)
       ELSE InsertAt(queue, Min(before), pos)

(* BuildAgeQueue: the sources that have packets, visited from the round    *)
(* robin's start.                                                          *)
BuildAgeQueue(logic_clk, age) ==
    LET n == Cardinality(DOMAIN age)
        built[i \in 0 .. n] ==
            IF i = 0 THEN <<>> ELSE PutByAge(age, built[i - 1], (i - 1 + logic_clk) % n)
    IN built[n]

(* The sources in queue are served one after the other.                    *)
CrossAll(x, queue) ==
    LET crossed[i \in 0 .. Len(queue)] ==
            IF i = 0 THEN x ELSE Cross(crossed[i - 1], queue[i])
    IN crossed[Len(queue)]

Arbitrate(logic_clk, x) == CrossAll(x, BuildAgeQueue(logic_clk, x.age))

(* Mutant: the last two flits are never drained.                           *)
Drained_OffByOne(busy) ==
    [d \in DOMAIN busy |-> IF busy[d] > 2 THEN busy[d] - 2 ELSE busy[d]]

(* The crossbar handles two flits per logic cycle.                         *)
Drained(busy) == [d \in DOMAIN busy |-> IF busy[d] > 0 THEN busy[d] - 2 ELSE busy[d]]

(* First part of DrainRequests: from the quadrants to the vaults.  A vault *)
(* belongs to one quadrant, so the quadrants do not interfere.             *)
ToVaults(s) ==
    LET Goes(q) ==
            /\ s.quad_req_queues_[q] # <<>>
            /\ HasRoom(s.quad_resp_queues_[q])
            /\ Head(s.quad_req_queues_[q]).wait = 0
            /\ VaultAccepts(s, GetChannel[Head(s.quad_req_queues_[q]).addr])
        To(v) == Goes(v % 4) /\ GetChannel[Head(s.quad_req_queues_[v % 4]).addr] = v
    IN [s EXCEPT
          !.quad_req_queues_ = [q \in Quads |-> IF Goes(q) THEN Tail(@[q]) ELSE @[q]],
          !.ctrls_ = [v \in Vaults |->
              IF To(v) THEN Append(@[v], VaultEntry(Head(s.quad_req_queues_[v % 4])))
              ELSE @[v]]]

DrainRequests(s) ==
    LET t == ToVaults(s)
        x == Arbitrate(s.logic_clk_,
                [requests |-> TRUE,
                 from |-> t.link_req_queues_, to |-> t.quad_req_queues_,
                 busy |-> Drained(t.quad_busy_), age |-> t.link_age_counter_])
    IN [t EXCEPT !.link_req_queues_ = x.from, !.quad_req_queues_ = x.to,
                 !.quad_busy_ = x.busy, !.link_age_counter_ = x.age]

(* First part of DrainResponses: each link hands its first response to the *)
(* CPU once it has left the crossbar.                                      *)
ToCPU(s) ==
    LET Goes(l) == /\ s.link_resp_queues_[l] # <<>>
                   /\ Head(s.link_resp_queues_[l]).wait = 0
        Answers(t) == {l \in Links : /\ Goes(l)
                                     /\ Head(s.link_resp_queues_[l]).addr = t.addr
                                     /\ Head(s.link_resp_queues_[l]).is_write = t.is_write}
    IN [s EXCEPT
          !.link_resp_queues_ = [l \in Links |-> IF Goes(l) THEN Tail(@[l]) ELSE @[l]],
          !.callbacks = [t \in Transactions |-> @[t] + Cardinality(Answers(t))]]

DrainResponses(s) ==
    LET t == ToCPU(s)
        x == Arbitrate(s.logic_clk_,
                [requests |-> FALSE,
                 from |-> t.quad_resp_queues_, to |-> t.link_resp_queues_,
                 busy |-> Drained(t.link_busy_), age |-> t.quad_age_counter_])
    IN [t EXCEPT !.quad_resp_queues_ = x.from, !.link_resp_queues_ = x.to,
                 !.link_busy_ = x.busy, !.quad_age_counter_ = x.age]

-----------------------------------------------------------------------------
(* Mutant: the response stays in the look-up table.                        *)
VaultCallback_Keeps(s, addr) ==
    LET resp == Head(s.resp_lookup_table_[addr])
    IN [s EXCEPT !.quad_resp_queues_[QuadOf(addr)] = Append(@, resp),
                 !.quad_age_counter_[QuadOf(addr)] = 1]

(* VaultCallback: the oldest response entered for the address is sent.     *)
VaultCallback(s, addr) ==
    LET resp == Head(s.resp_lookup_table_[addr])
    IN [s EXCEPT !.resp_lookup_table_[addr] = Tail(@),
                 !.quad_resp_queues_[QuadOf(addr)] = Append(@, resp),
                 !.quad_age_counter_[QuadOf(addr)] = 1]

(* A vault that holds entries returns those at the positions in order.     *)
FromVault(s, entries, order) ==
    LET sent[i \in 0 .. Len(order)] ==
            IF i = 0 THEN s ELSE VaultCallback(sent[i - 1], entries[order[i]].addr)
    IN sent[Len(order)]

FromVaults(s, done) ==
    LET sent[v \in 0 .. channels] ==
            IF v = 0 THEN s ELSE FromVault(sent[v - 1], s.ctrls_[v - 1], done[v - 1])
    IN sent[channels]

(* The other entries, in the order they were.                              *)
Remaining(entries, order) ==
    LET left[i \in 0 .. Len(entries)] ==
            IF i = 0 THEN <<>>
            ELSE IF i \in Range(order) THEN left[i - 1]
            ELSE Append(left[i - 1], [entries[i] EXCEPT !.wait = @ - 1])
    IN left[Len(entries)]

(* DRAMClockTick: each vault in turn returns what is done, then all of     *)
(* them run for a cycle.  done: what the vaults return, full: the vaults   *)
(* whose queues are full afterwards.                                       *)
DRAMClockTick(s, done, full) ==
    [FromVaults(s, done) EXCEPT
       !.ctrls_ = [v \in Vaults |-> Remaining(@[v], done[v])],
       !.full = [v \in Vaults |-> IF v \in full THEN @[v] + 1 ELSE 0]]

(* A logic cycle passes: the packets in the crossbar come closer.          *)
LogicElapse(s) ==
    LET Closer(queue) ==
            [i \in DOMAIN queue |->
                [queue[i] EXCEPT !.wait = IF @ > 0 THEN @ - 1 ELSE 0]]
    IN [s EXCEPT !.quad_req_queues_ = [q \in Quads |-> Closer(@[q])],
                 !.link_resp_queues_ = [l \in Links |-> Closer(@[l])],
                 !.logic_clk_ = (@ + 1) % LogicPeriod,
                 !.lead = @ + ps_per_logic_]

LogicTick(s) == LogicElapse(DrainRequests(DrainResponses(s)))

LogicTicks(s, n) ==
    LET run[i \in 0 .. n] == IF i = 0 THEN s ELSE LogicTick(run[i - 1])
    IN run[n]

(* ClockTick, one DRAM cycle: the logic cycle that starts with it, if any, *)
(* and those that start before the next one.                               *)
HMCClockTick(s, done, full) ==
    LET first == IF s.lead = 0
                 THEN LogicElapse(DrainRequests(DRAMClockTick(DrainResponses(s), done, full)))
                 ELSE DRAMClockTick(s, done, full)
        ticks == (ps_per_dram_ - first.lead + ps_per_logic_ - 1) \div ps_per_logic_
    IN [LogicTicks(first, ticks) EXCEPT !.lead = @ - ps_per_dram_]

-----------------------------------------------------------------------------
NoCallbacks(s) == [s EXCEPT !.callbacks = [t \in Transactions |-> 0]]

(* The packets of kind t in a family of queues.                            *)
CountIn(queues, t) ==
    LET Like(p) == p.addr = t.addr /\ p.is_write = t.is_write
    IN Cardinality(UNION {{<<k, i>> : i \in {j \in DOMAIN queues[k] : Like(queues[k][j])}}
                            : k \in DOMAIN queues})

(* Accepted and not yet returned requests like t: each has its response in *)
(* the look-up table or on the way back.                                   *)
Outstanding(t) ==
    CountIn(hmc.resp_lookup_table_, t) + CountIn(hmc.quad_resp_queues_, t)
    + CountIn(hmc.link_resp_queues_, t)

Init == clk_ = 0 /\ hmc = NewHMC

(* AddTransaction, called when WillAcceptTransaction says so.              *)
AddTransaction(t) ==
    /\ MapThenSumSet(Outstanding, Transactions) < MaxOutstanding
    /\ WillAcceptTransaction(hmc)
    /\ hmc' = InsertHMCReq(NoCallbacks(hmc), t)
    /\ UNCHANGED clk_

Advance == clk_' = (clk_ + 1) % epoch_period

ClockTick ==
    /\ Advance
    /\ \E done \in Returns(hmc), full \in SUBSET MayBeFull(hmc) :
         hmc' = HMCClockTick(NoCallbacks(hmc), done, full)

Next == (\E t \in Requests : AddTransaction(t)) \/ ClockTick

Spec == Init /\ [][Next]_vars

(* The driver calls ClockTick once per cycle for ever.  As in the JEDEC    *)
(* system, Advance stands for ClockTick, which is always enabled and alone *)
(* changes clk_.                                                           *)
FairSpec == Spec /\ WF_clk_(Advance)

-----------------------------------------------------------------------------
(* Properties.                                                             *)

(* The members of the class have their types.  Request queues and the      *)
(* response queues of the links stay within xbar_queue_depth.              *)
TypeOK ==
    /\ hmc.logic_clk_ \in 0 .. LogicPeriod - 1
    /\ hmc.lead \in 0 .. ps_per_logic_ - 1
    /\ hmc.next_link_ \in Links
    /\ \A l \in Links :
         /\ Len(hmc.link_req_queues_[l]) <= xbar_queue_depth
         /\ Len(hmc.link_resp_queues_[l]) <= xbar_queue_depth
         /\ hmc.link_busy_[l] \in -1 .. 17
         /\ hmc.link_age_counter_[l] \in 0 .. MaxAge
    /\ \A q \in Quads :
         /\ Len(hmc.quad_req_queues_[q]) <= xbar_queue_depth
         /\ hmc.quad_busy_[q] \in -1 .. 17
         /\ hmc.quad_age_counter_[q] \in 0 .. MaxAge

(***************************************************************************)
(* The arbiters take the first packet of every queue whose age is not 0,   *)
(* without looking whether there is one, and of no other.  The ages are    *)
(* set where packets are added (InsertReqToLink, VaultCallback) and reset  *)
(* in the arbiters; a queue and its age never disagree.                    *)
(***************************************************************************)
AgesMatchQueues ==
    /\ \A l \in Links :
         hmc.link_age_counter_[l] > 0 <=> hmc.link_req_queues_[l] # <<>>
    /\ \A q \in Quads :
         hmc.quad_age_counter_[q] > 0 <=> hmc.quad_resp_queues_[q] # <<>>

(* The requests of kind t that no vault has answered yet.                  *)
Unanswered(t) ==
    CountIn(hmc.link_req_queues_, t) + CountIn(hmc.quad_req_queues_, t)
    + CountIn(hmc.ctrls_, t)

(* The packets or transactions of address a in a family of queues.         *)
CountAt(queues, a) ==
    Cardinality(UNION {{<<k, i>> : i \in {j \in DOMAIN queues[k] : queues[k][j].addr = a}}
                         : k \in DOMAIN queues})

(* Every request on its way has a response waiting in the look-up table    *)
(* under its address, and the table holds no other: VaultCallback, which   *)
(* does not check the result of find, always finds one.                    *)
EveryRequestHasResponse ==
    \A a \in Addr :
        Len(hmc.resp_lookup_table_[a])
            = CountAt(hmc.link_req_queues_, a) + CountAt(hmc.quad_req_queues_, a)
              + CountAt(hmc.ctrls_, a)

(* A response is sent when the data of its request have been received: a   *)
(* request that no vault has answered still has its own response in the    *)
(* table.                                                                  *)
ResponsesAreTheirOwn ==
    \A t \in Transactions : CountIn(hmc.resp_lookup_table_, t) = Unanswered(t)

Service == INSTANCE MemoryService
             WITH Requests <- Transactions,
                  outstanding <- [t \in Transactions |-> Outstanding(t)],
                  returned <- hmc.callbacks

(* Each accepted request is handed to a callback exactly once, with its    *)
(* own address and direction, in spite of the pairing by address alone and *)
(* of the two crossings of the crossbar.                                   *)
ImplementsService == Service!Spec

(* Every accepted request is returned by a later ClockTick.                *)
RequestsReturn ==
    \A t \in Requests : Outstanding(t) > 0 ~> hmc.callbacks[t] > 0
=============================================================================
