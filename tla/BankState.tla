------------------------------ MODULE BankState ------------------------------
(***************************************************************************)
(* class BankState: the state machine of one DRAM bank and the timers that *)
(* say when it accepts each command.                                       *)
(***************************************************************************)
EXTENDS DRAMCommon

(***************************************************************************)
(* cmd_timing_[t]: cycles until the bank accepts a command of type t.      *)
(* row_hit_count_ is only compared with 0 and with RowHitLimit, and stops  *)
(* counting there.                                                         *)
(* serve_end: cycles until the cycle after serve_end_cycle, when           *)
(* Calculate_stats clears in_serve; -1 when that cycle is past.            *)
(***************************************************************************)
NewBank ==
    [state_         |-> "CLOSED",
     cmd_timing_    |-> [t \in CommandType |-> 0],
     open_row_      |-> -1,
     row_hit_count_ |-> 0,
     in_serve       |-> FALSE,
     serve_end      |-> 1]

IsRowOpen(b)   == b.state_ = "OPEN"
IsRowClosed(b) == b.state_ = "CLOSED"

(***************************************************************************)
(* The command that has to be issued next to a bank so that cmd can        *)
(* execute; "EXIT" where the switch falls into AbruptExit.                 *)
(***************************************************************************)
RequiredType(b, cmd) ==
    LET t == cmd.cmd_type IN
    CASE b.state_ = "CLOSED" /\ t \in RWTypes -> "ACTIVATE"
      [] b.state_ = "CLOSED" /\ t \in {"REFRESH", "REFRESH_BANK", "SREF_ENTER"} -> t
      [] b.state_ = "OPEN" /\ t \in RWTypes ->
           IF cmd.addr.row = b.open_row_ THEN t ELSE "PRECHARGE"
      [] b.state_ = "OPEN" /\ t \in {"REFRESH", "REFRESH_BANK", "SREF_ENTER"} -> "PRECHARGE"
      [] b.state_ = "SREF" /\ t \in RWTypes -> "SREF_EXIT"
      [] OTHER -> "EXIT"

BankGetReadyCommand(b, cmd) ==
    LET t == RequiredType(b, cmd) IN
    IF t = "EXIT" THEN AbruptExit
    ELSE IF b.cmd_timing_[t] = 0
         THEN Command(t, cmd.addr, cmd.hex_addr, cmd.cmd_type)
         ELSE NoCommand

(* The commands UpdateState executes; it ends the program on any other.    *)
BankAccepts(b, cmd_type) ==
    CASE b.state_ = "OPEN"   -> cmd_type \in RWTypes \cup {"PRECHARGE"}
      [] b.state_ = "CLOSED" -> cmd_type \in {"REFRESH", "REFRESH_BANK",
                                              "ACTIVATE", "SREF_ENTER"}
      [] b.state_ = "SREF"   -> cmd_type = "SREF_EXIT"

(* Mutant: a closed row keeps its count of hits.                           *)
BankUpdateState_KeepsHits(b, cmd) ==
    LET t == cmd.cmd_type IN
    CASE t \in {"READ", "WRITE"} ->
           [b EXCEPT !.row_hit_count_ = IF @ < RowHitLimit THEN @ + 1 ELSE @]
      [] t \in {"READ_PRECHARGE", "WRITE_PRECHARGE", "PRECHARGE"} ->
           [b EXCEPT !.state_ = "CLOSED", !.open_row_ = -1]
      [] t = "ACTIVATE" -> [b EXCEPT !.state_ = "OPEN", !.open_row_ = cmd.addr.row]
      [] OTHER -> b

(* BankState::UpdateState on a command the bank accepts.                   *)
BankUpdateState(b, cmd) ==
    LET t == cmd.cmd_type IN
    CASE t \in {"READ", "WRITE"} ->
           [b EXCEPT !.row_hit_count_ = IF @ < RowHitLimit THEN @ + 1 ELSE @]
      [] t \in {"READ_PRECHARGE", "WRITE_PRECHARGE", "PRECHARGE"} ->
           [b EXCEPT !.state_ = "CLOSED", !.open_row_ = -1, !.row_hit_count_ = 0]
      [] t = "ACTIVATE" -> [b EXCEPT !.state_ = "OPEN", !.open_row_ = cmd.addr.row]
      [] t = "SREF_ENTER" -> [b EXCEPT !.state_ = "SREF"]
      [] t = "SREF_EXIT" -> [b EXCEPT !.state_ = "CLOSED"]
      [] OTHER -> b

(***************************************************************************)
(* BankState::UpdateTiming for all entries of a row of a timing table.  A  *)
(* negative delay is a moment that is past and changes nothing.  (The code *)
(* adds it to the unsigned clk_, which is right from the cycle on whose    *)
(* number is as large; NegativeDelaysPast of MCConfig shows that a command *)
(* with such a delay is never issued earlier with the shipped files.)      *)
(***************************************************************************)
BankUpdateTiming(b, row) ==
    [b EXCEPT !.cmd_timing_ =
        [t \in CommandType |->
            IF t \in DOMAIN row THEN Later(@[t], row[t]) ELSE @[t]]]

BankElapse(b) ==
    [b EXCEPT !.cmd_timing_ = [t \in CommandType |-> OneLess(@[t])],
              !.serve_end = IF @ >= 0 THEN @ - 1 ELSE @]
=============================================================================
