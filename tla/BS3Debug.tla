------------------------------- MODULE BS3Debug -------------------------------
(***************************************************************************)
(* The debugger (bs3_debug.c) in the loop of the hypervisor: before every  *)
(* instruction, and when the CPU halts, bs3_debug decides whether the CPU  *)
(* runs, and polls the socket of a client.  While the CPU is stopped it    *)
(* does not return.  The client types commands, connects and leaves when   *)
(* it likes; the CPU is reduced to its PC and its status.                  *)
(*                                                                         *)
(* The stream of the client is a sequence of commands and ends of line; a  *)
(* read gives any part of it.  "set" is r PC; the commands that only show  *)
(* something, or write to other registers and to memory, are like lines    *)
(* that are no command (OTHERLINE).                                        *)
(*                                                                         *)
(* What the debugger sends is not looked into, but sending takes time: the *)
(* thread stays in it until the connection has taken all or has failed,    *)
(* and a client that does not read may keep it there.                      *)
(***************************************************************************)
EXTENDS Integers, Sequences

CONSTANTS Addresses,    \* where the program may jump
          Breakpoints,  \* the addresses given to the command g
          Start,        \* the vector of reset
          Counts,       \* the counts of the command t
          DebugStop,    \* start stopped (the option of the command line)
          PollEvery,    \* 256: calls of bs3_debug_comm for one read while running
          Greetings,    \* 20: polls made when a client was accepted
          MaxSent,      \* bound on the stream that was not read
          MaxRan,       \* bound on the turns of the CPU that are counted
          MaxNested     \* bound on the accepts made during an accept

ASSUME AddressAssumption == Addresses \cup Breakpoints \subseteq 0 .. 65535
ASSUME DebugAssumption ==
  /\ Start \in Addresses
  /\ MaxRan \in Nat \ {0} /\ Counts \subseteq 1 .. MaxRan - 1
  /\ DebugStop \in BOOLEAN
  /\ PollEvery \in Nat \ {0} /\ Greetings \in Nat
  /\ MaxSent \in Nat /\ MaxNested \in Nat

VARIABLES debug_state, comm_state, stop_at, step_count, canQuit, count,
          buff,      \* the command typed so far
          greeting,  \* the polls left of each accept under way, innermost first
          client,    \* the other end: away, waiting for accept, open, gone
          sent,      \* its stream, not read yet
          sending,   \* bs3_debug_comm_send: done, writing, or waiting since the connection is full
          status, PC, end,
          at,        \* where the thread is
          asked,     \* the command obeyed last, for the properties
          ran        \* turns of the CPU since then: up to MaxRan if t or z, else up to 1

debugVars == <<debug_state, comm_state, stop_at, step_count, canQuit, count, buff, greeting>>
vars == <<debugVars, client, sent, sending, status, PC, end, at, asked, ran>>

EOL == [c |-> "eol", v |-> 0]
EMPTY == [c |-> "empty", v |-> 0]
OTHERLINE == [c |-> "other", v |-> 0]  \* no command for this model: several lines in one too
NOTHING == [c |-> "nothing", v |-> 0]  \* no command counts the instructions

Commands ==
  [c : {"g"}, v : Breakpoints \cup {0}] \cup [c : {"t"}, v : Counts] \cup [c : {"set"}, v : Addresses]
  \cup [c : {"s", "z", "Z", "q", "other"}, v : {0}]

(* bs3_debug_init.                                                         *)
Init ==
  /\ debug_state = IF DebugStop THEN "STOPPED" ELSE "RUNNING"
  /\ comm_state = "NOSERVICE"
  /\ stop_at = 0 /\ step_count = 0
  /\ canQuit = ~DebugStop
  /\ count = 0
  /\ buff = EMPTY
  /\ greeting = << >>
  /\ client = "away" /\ sent = << >>
  /\ sending = "done"
  /\ status = "DEFAULT" /\ PC = Start /\ end = FALSE
  /\ at = "while"
  /\ asked = NOTHING /\ ran = 0

-------------------------------------------------------------------------------
(* The client.                                                             *)
Connect ==
  /\ client = "away" /\ Len(greeting) <= MaxNested
  /\ client' = "waiting" /\ sent' = << >>
  /\ UNCHANGED <<debugVars, sending, status, PC, end, at, asked, ran>>

Type(command) ==
  /\ client = "open" /\ Len(sent) + 2 <= MaxSent
  /\ sent' = sent \o <<command, EOL>>
  /\ UNCHANGED <<debugVars, client, sending, status, PC, end, at, asked, ran>>

Leave ==
  /\ client = "open" /\ client' = "gone"
  /\ UNCHANGED <<debugVars, sent, sending, status, PC, end, at, asked, ran>>

(* It reads what the connection holds.                                     *)
Drain ==
  /\ client = "open" /\ sending = "full"
  /\ sending' = "writing"
  /\ UNCHANGED <<debugVars, client, sent, status, PC, end, at, asked, ran>>

Signal ==
  /\ ~end /\ end' = TRUE
  /\ UNCHANGED <<debugVars, client, sent, sending, status, PC, at, asked, ran>>

Client == Connect \/ Leave \/ Drain \/ \E command \in Commands : Type(command)

-------------------------------------------------------------------------------
(* The head of the loop of bs3_hyper_main and the entry of bs3_debug.      *)
While ==
  /\ at = "while"
  /\ IF end
     THEN at' = "ended" /\ UNCHANGED <<debug_state, step_count>>
     ELSE /\ at' = "loop"
          /\ debug_state' = IF debug_state = "TOSTOP" THEN "RUNNING" ELSE debug_state
          /\ step_count' = IF debug_state = "TOSTOP" THEN 1 ELSE step_count
  /\ UNCHANGED <<comm_state, stop_at, canQuit, count, buff, greeting, client, sent, sending, status, PC, end, asked, ran>>

(* bs3_cpu_exec (any instruction, HLT, RESET, and bs3_cpu_init after it)   *)
(* and the switch after it.                                                *)
Exec ==
  /\ at = "exec" /\ sending = "done"
  /\ ran' = IF asked.c \notin {"t", "z"} THEN 1 ELSE IF ran < MaxRan THEN ran + 1 ELSE ran
  /\ \/ status = "HALT" /\ UNCHANGED <<status, PC>>
     \/ status = "RESET" /\ status' = "DEFAULT" /\ PC' = Start
     \/ status = "DEFAULT" /\ PC' \in Addresses /\ UNCHANGED status
     \/ status = "DEFAULT" /\ status' \in {"HALT", "RESET"} /\ UNCHANGED PC
  /\ at' = IF status' = "HALT" THEN "halt" ELSE "while"
  /\ UNCHANGED <<debugVars, client, sent, sending, end, asked>>

(* The call of bs3_debug for a CPU that halted.  The next call stops it.   *)
HaltedAlways ==   \* seeded fault: canQuit is not looked at
  /\ at = "halt" /\ at' = "while"
  /\ end' = TRUE
  /\ debug_state' = "TOSTOP"
  /\ UNCHANGED <<comm_state, stop_at, step_count, canQuit, count, buff, greeting, client, sent, sending, status, PC, asked, ran>>

Halted ==
  /\ at = "halt" /\ at' = "while"
  /\ status' = IF canQuit THEN "HALT" ELSE "DEFAULT"
  /\ end' = (end \/ canQuit)
  /\ debug_state' = "TOSTOP"
  /\ asked' = IF canQuit THEN asked ELSE NOTHING
  /\ UNCHANGED <<comm_state, stop_at, step_count, canQuit, count, buff, greeting, client, sent, sending, PC, ran>>

-------------------------------------------------------------------------------
(* The loop of bs3_debug.                                                  *)

(* bs3_debug_comm_send, as often as the output has parts: nothing without  *)
(* a connection.  It tries again as long as the connection takes nothing,  *)
(* and gives up on any other error, which closes the connection and comes  *)
(* only when the other end is gone.                                        *)
Send ==
  /\ sending' = IF comm_state = "CONNECTED" THEN "writing" ELSE "done"
  /\ UNCHANGED <<comm_state, client>>

SendPart ==
  /\ sending = "writing" /\ sending' = "full"
  /\ UNCHANGED <<debugVars, client, sent, status, PC, end, at, asked, ran>>

SendRest ==
  /\ sending = "writing" /\ sending' = "done"
  /\ UNCHANGED <<debugVars, client, sent, status, PC, end, at, asked, ran>>

SendFails ==
  /\ sending # "done" /\ client = "gone"
  /\ sending' = "done"
  /\ comm_state' = "NOCONNECTION" /\ client' = "away"
  /\ UNCHANGED <<debug_state, stop_at, step_count, canQuit, count, buff, greeting, sent, status, PC, end, at, asked, ran>>

Sending == SendPart \/ SendRest \/ SendFails

(* Shows the registers and the code, in the buffer of the client.          *)
Stop ==
  /\ debug_state' = "STOPPED" /\ step_count' = 0
  /\ buff' = EMPTY
  /\ Send

StepsFirst ==   \* seeded fault: the breakpoint is not looked at while steps are counted
  /\ at = "loop" /\ sending = "done" /\ at' = "comm"
  /\ IF debug_state = "RUNNING" /\ (IF step_count > 0 THEN step_count = 1 ELSE stop_at = PC)
     THEN Stop
     ELSE /\ step_count' = IF debug_state = "RUNNING" /\ step_count > 0 THEN step_count - 1 ELSE step_count
          /\ UNCHANGED <<debug_state, buff, comm_state, client, sending>>
  /\ UNCHANGED <<stop_at, canQuit, count, greeting, sent, status, PC, end, asked, ran>>

CountNotTested ==   \* seeded fault: the count runs down to 0 and nobody looks
  /\ at = "loop" /\ sending = "done" /\ at' = "comm"
  /\ IF debug_state = "RUNNING" /\ stop_at = PC
     THEN Stop
     ELSE /\ step_count' = IF debug_state = "RUNNING" /\ step_count > 0 THEN step_count - 1 ELSE step_count
          /\ UNCHANGED <<debug_state, buff, comm_state, client, sending>>
  /\ UNCHANGED <<stop_at, canQuit, count, greeting, sent, status, PC, end, asked, ran>>

StopsAlways ==   \* seeded fault: counts down from 1 when no count was asked
  /\ at = "loop" /\ sending = "done" /\ at' = "comm"
  /\ IF debug_state = "RUNNING" /\ (stop_at = PC \/ step_count <= 1)
     THEN Stop
     ELSE /\ step_count' = IF debug_state = "RUNNING" THEN step_count - 1 ELSE step_count
          /\ UNCHANGED <<debug_state, buff, comm_state, client, sending>>
  /\ UNCHANGED <<stop_at, canQuit, count, greeting, sent, status, PC, end, asked, ran>>

Loop ==
  /\ at = "loop" /\ sending = "done" /\ at' = "comm"
  /\ IF debug_state = "RUNNING" /\ (stop_at = PC \/ step_count = 1)
     THEN Stop
     ELSE /\ step_count' = IF debug_state = "RUNNING" /\ step_count > 0 THEN step_count - 1 ELSE step_count
          /\ UNCHANGED <<debug_state, buff, comm_state, client, sending>>
  /\ UNCHANGED <<stop_at, canQuit, count, greeting, sent, status, PC, end, asked, ran>>

(* The end of bs3_debug_comm: back to an accept that polls, to the loop    *)
(* while stopped, or to the CPU.                                           *)
Return(state, stack) ==
  at' = IF stack # << >> THEN "greet" ELSE IF state = "STOPPED" THEN "loop" ELSE "exec"

-------------------------------------------------------------------------------
(* bs3_debug_comm.  While the CPU runs most calls return at once.          *)
ReadStopped ==   \* seeded fault: a client is read while the CPU is stopped only
  debug_state = "RUNNING" /\ (count # 0 \/ comm_state = "CONNECTED")
Latency == debug_state = "RUNNING" /\ count # 0

Called == at = "comm" /\ sending = "done" /\ count' = (count + 1) % PollEvery
Others == UNCHANGED <<greeting, PC, end>>

CommLater ==
  /\ Called /\ Latency
  /\ Return(debug_state, greeting)
  /\ UNCHANGED <<debug_state, comm_state, stop_at, step_count, canQuit, buff, client, sent, sending, status, asked, ran>>
  /\ Others

(* socket, bind and listen; accept, or an error that ends the service.     *)
Listen ==
  /\ Called /\ ~Latency /\ comm_state = "NOSERVICE"
  /\ comm_state' = "NOCONNECTION"
  /\ Return(debug_state, greeting)
  /\ UNCHANGED <<debug_state, stop_at, step_count, canQuit, buff, client, sent, sending, status, asked, ran>>
  /\ Others

NoAccept ==
  /\ Called /\ ~Latency /\ comm_state = "NOCONNECTION"
  /\ canQuit' = TRUE
  /\ \/ client # "waiting" /\ UNCHANGED <<comm_state, client>>
     \/ comm_state' = "NOSERVICE" /\ client' = "away"
  /\ Return(debug_state, greeting)
  /\ UNCHANGED <<debug_state, stop_at, step_count, buff, sent, sending, status, asked, ran>>
  /\ Others

Accept ==
  /\ Called /\ ~Latency /\ comm_state = "NOCONNECTION" /\ client = "waiting"
  /\ canQuit' = TRUE
  /\ comm_state' = "CONNECTED" /\ client' = "open"
  /\ greeting' = <<Greetings>> \o greeting
  /\ at' = "greet" /\ sending' = "writing"
  /\ UNCHANGED <<debug_state, stop_at, step_count, buff, sent, status, PC, end, asked, ran>>

(* The polls of an accept, then what was typed meanwhile is forgotten and  *)
(* the program may not end any more.                                       *)
Greet ==
  /\ at = "greet" /\ sending = "done"
  /\ IF Head(greeting) > 0
     THEN /\ greeting' = <<Head(greeting) - 1>> \o Tail(greeting)
          /\ at' = "comm"
          /\ UNCHANGED <<comm_state, buff, canQuit, client, sending>>
     ELSE /\ greeting' = Tail(greeting)
          /\ buff' = EMPTY /\ canQuit' = FALSE
          /\ Send
          /\ Return(debug_state, Tail(greeting))
  /\ UNCHANGED <<debug_state, stop_at, step_count, count, sent, status, PC, end, asked, ran>>

(* read: nothing yet, the end of the stream or an error, or a part.        *)
ReadNothing ==
  /\ Called /\ ~Latency /\ comm_state = "CONNECTED" /\ client = "open"
  /\ Return(debug_state, greeting)
  /\ UNCHANGED <<debug_state, comm_state, stop_at, step_count, canQuit, buff, client, sent, sending, status, asked, ran>>
  /\ Others

ReadEnd ==
  /\ Called /\ ~Latency /\ comm_state = "CONNECTED" /\ client = "gone"
  /\ comm_state' = "NOCONNECTION" /\ client' = "away"
  /\ Return(debug_state, greeting)
  /\ UNCHANGED <<debug_state, stop_at, step_count, canQuit, buff, sent, sending, status, asked, ran>>
  /\ Others

(* The ends of line are dropped: what stands before and after them is one  *)
(* line, and no command.                                                   *)
LineOf(k) ==
  LET typed == {j \in 1 .. k : sent[j] # EOL}
  IN  IF typed = {} THEN buff
      ELSE IF buff = EMPTY /\ \E j \in typed : typed = {j} THEN sent[CHOOSE j \in typed : TRUE]
      ELSE OTHERLINE

ReadPart(k) ==
  /\ Called /\ ~Latency /\ comm_state = "CONNECTED"
  /\ \A j \in 1 .. k : sent[j] # EOL
  /\ buff' = LineOf(k)
  /\ sent' = SubSeq(sent, k + 1, Len(sent))
  /\ Return(debug_state, greeting)
  /\ UNCHANGED <<debug_state, comm_state, stop_at, step_count, canQuit, client, sending, status, asked, ran>>
  /\ Others

(* bs3_debug_comm_cmd.                                                     *)
Resume(command, state) ==
  /\ debug_state' = state
  /\ asked' = command /\ ran' = 0

Go(address) ==
  /\ Resume([c |-> "g", v |-> 0], "RUNNING")
  /\ stop_at' = address /\ step_count' = 0
  /\ UNCHANGED <<status, PC, canQuit>>

Trace(command) ==
  /\ Resume(command, "RUNNING")
  /\ step_count' = command.v
  /\ UNCHANGED <<stop_at, status, PC, canQuit>>

Pause(command) ==
  /\ Resume(command, "STOPPED")
  /\ step_count' = 0
  /\ UNCHANGED <<stop_at, status, PC, canQuit>>

ResetCpu(command) ==
  /\ Resume(command, "TOSTOP")
  /\ status' = "RESET" /\ step_count' = 0
  /\ UNCHANGED <<stop_at, PC, canQuit>>

HaltCpu(command) ==
  /\ Resume(command, "RUNNING")
  /\ status' = "HALT" /\ step_count' = 1 /\ canQuit' = TRUE
  /\ UNCHANGED <<stop_at, PC>>

SetPC(address) ==
  /\ PC' = IF debug_state = "RUNNING" THEN PC ELSE address
  /\ UNCHANGED <<debug_state, stop_at, step_count, status, canQuit, asked, ran>>

Obey(command) ==
  \/ command.c = "g" /\ Go(command.v)
  \/ command.c = "t" /\ Trace(command)
  \/ command.c = "s" /\ Pause(command)
  \/ command.c = "z" /\ ResetCpu(command)
  \/ command.c = "Z" /\ HaltCpu(command)
  \/ command.c = "set" /\ SetPC(command.v)
  \/ /\ command.c \in {"q", "other", "empty"}
     /\ UNCHANGED <<debug_state, stop_at, step_count, status, PC, canQuit, asked, ran>>

ReadLine(k) ==
  /\ Called /\ ~Latency /\ comm_state = "CONNECTED"
  /\ \E j \in 1 .. k : sent[j] = EOL
  /\ Obey(LineOf(k))
  /\ IF LineOf(k).c = "q"
     THEN comm_state' = "NOCONNECTION" /\ client' = "away" /\ UNCHANGED sending
     ELSE Send
  /\ sent' = SubSeq(sent, k + 1, Len(sent))
  /\ buff' = EMPTY
  /\ Return(debug_state', greeting)
  /\ UNCHANGED <<greeting, end>>

Comm ==
  \/ CommLater \/ Listen \/ NoAccept \/ Accept \/ Greet \/ ReadNothing \/ ReadEnd
  \/ \E k \in 1 .. Len(sent) : ReadPart(k) \/ ReadLine(k)

Thread == While \/ Exec \/ Halted \/ Loop \/ Comm \/ Sending

Next == Client \/ Signal \/ Thread

Spec == Init /\ [][Next]_vars

(* The thread goes on; a socket with data is not found empty for ever.     *)
(* A client that is connected reads, and an output is not endless: nothing *)
(* in the code sees to the first, so it is an assumption about the client. *)
ClientReads == WF_vars(Drain) /\ SF_vars(SendRest)
Fairness ==
  /\ WF_vars(Thread)
  /\ SF_vars(\E k \in 1 .. Len(sent) : ReadPart(k) \/ ReadLine(k))
  /\ ClientReads
LiveSpec == Spec /\ Fairness

-------------------------------------------------------------------------------
TypeOK ==
  /\ debug_state \in {"RUNNING", "TOSTOP", "STOPPED"}
  /\ comm_state \in {"NOSERVICE", "NOCONNECTION", "CONNECTED"}
  /\ stop_at \in Breakpoints \cup {0} /\ step_count \in 0 .. MaxRan
  /\ canQuit \in BOOLEAN /\ count \in 0 .. PollEvery - 1
  /\ client \in {"away", "waiting", "open", "gone"}
  /\ sending \in {"done", "writing", "full"}
  /\ status \in {"DEFAULT", "HALT", "RESET"} /\ PC \in Addresses /\ end \in BOOLEAN
  /\ at \in {"while", "exec", "halt", "loop", "comm", "greet", "ended"}
  /\ ran \in 0 .. MaxRan

(* The command t n lets the CPU take n turns and no more, whatever else    *)
(* happens meanwhile (resets, clients that come and leave); after s none,  *)
(* and after z only the turn that resets it.                               *)
StepsAreCounted ==
  /\ asked.c = "t" => ran <= asked.v
  /\ asked.c = "s" => ran = 0
  /\ asked.c = "z" => ran <= 1

(* It does not stop earlier than asked: at a breakpoint, when the count is *)
(* used up, on a reset of the debugger or after HLT.                       *)
StopsWhereAsked ==
  [][(at = "loop" /\ debug_state = "RUNNING" /\ debug_state' = "STOPPED") =>
       \/ PC = stop_at
       \/ asked.c = "t" /\ ran = asked.v
       \/ asked.c = "z" /\ ran = 1
       \/ asked = NOTHING]_vars

(* The instruction at the breakpoint runs only as the first turn after a   *)
(* command that lets the CPU run: no poll of the socket, halt or reset     *)
(* between the test of the breakpoint and the turn lets one slip through.  *)
BreakpointHolds ==
  (at = "exec" /\ status = "DEFAULT" /\ PC = stop_at) => ran = 0

(* HLT ends the program of a connected client only after its command Z:    *)
(* for any other it stops the CPU (bs3_debug).                             *)
QuitsOnlyIfAsked ==
  [][(at = "halt" /\ at' = "while" /\ end' /\ ~end) => comm_state # "CONNECTED" \/ asked.c = "Z"]_vars

(* A client that can type no more is read, or the connection or the        *)
(* program ends: running or stopped, the socket is polled for ever, if the *)
(* client also reads what is sent to it (ClientReads).                     *)
ClientIsHeard ==
  (client = "open" /\ Len(sent) + 2 > MaxSent)
    ~> (client # "open" \/ Len(sent) + 2 <= MaxSent \/ at = "ended")
===============================================================================
