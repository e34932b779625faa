---------------------------- MODULE BS3DebugProofs ----------------------------
(***************************************************************************)
(* Proofs about the debugger, for any program, any number of commands read *)
(* in any parts, any addresses and counts, any period of the polls, and    *)
(* any depth of accepts within accepts.                                    *)
(***************************************************************************)
EXTENDS BS3Debug, SequenceTheorems, TLAPS

Typed ==
  /\ TypeOK
  /\ buff \in Commands \cup {EMPTY}
  /\ sent \in Seq(Commands \cup {EOL})
  /\ greeting \in Seq(Nat)
  /\ asked \in Commands \cup {NOTHING}

Over == end /\ at \in {"while", "ended"}

(* While stopped the thread stays in bs3_debug; it leaves it with TOSTOP   *)
(* only to reset the CPU.                                                  *)
Places ==
  /\ debug_state = "STOPPED" => at \in {"while", "loop", "comm", "greet", "ended"}
  /\ debug_state = "STOPPED" /\ at = "while" => asked = NOTHING
  /\ debug_state = "TOSTOP" /\ at \notin {"while", "ended"} => at \in {"comm", "greet", "exec"} /\ status = "RESET"

(* What is left of the count, what each other command has come to.         *)
CountLeft ==
  asked.c = "t" =>
    /\ asked.v \in Counts /\ ran <= asked.v
    /\ debug_state = "RUNNING" =>
         /\ step_count >= 1
         /\ step_count = IF at \in {"comm", "greet", "exec"} THEN asked.v - ran ELSE asked.v - ran + 1
    /\ debug_state = "TOSTOP" => Over

ResetWay ==
  asked.c = "z" =>
    \/ debug_state = "TOSTOP" /\ at \in {"comm", "greet", "exec"} /\ status = "RESET" /\ ran = 0
    \/ debug_state = "TOSTOP" /\ at \in {"while", "ended"} /\ status = "DEFAULT" /\ ran = 1
    \/ debug_state = "RUNNING" /\ at = "loop" /\ step_count = 1 /\ ran = 1
    \/ debug_state = "STOPPED" /\ at \in {"loop", "comm", "greet"} /\ ran <= 1

OtherWays ==
  /\ asked.c = "s" => debug_state = "STOPPED" /\ at \in {"loop", "comm", "greet"} /\ ran = 0
  /\ asked.c = "g" => (debug_state = "RUNNING" => step_count = 0) /\ (debug_state = "TOSTOP" => Over)
  /\ asked.c = "Z" =>
       \/ debug_state = "RUNNING" /\ status = "HALT" /\ at \in {"comm", "greet", "exec", "halt"}
       \/ Over
  /\ asked.c \in {"g", "t", "s", "z", "Z", "nothing"}

(* Between the test of the breakpoint and the turn of the CPU.             *)
Tested ==
  (/\ at \in {"comm", "greet", "exec"} /\ debug_state = "RUNNING"
   /\ status = "DEFAULT" /\ PC = stop_at) => ran = 0

(* With a client, outside of the polls of an accept, the program may end   *)
(* only on the way of Z to its end.                                        *)
MayQuit ==
  (canQuit /\ comm_state = "CONNECTED" /\ (at \notin {"comm", "greet"} \/ greeting = << >>)) =>
    /\ asked.c = "Z"
    /\ (at \in {"exec", "halt"} /\ status = "HALT") \/ Over

Greeted == at = "greet" => greeting # << >>

IInv == Typed /\ Places /\ CountLeft /\ ResetWay /\ OtherWays /\ Tested /\ MayQuit /\ Greeted


LEMMA InitIInv == Init => IInv
  <1> SUFFICES ASSUME Init PROVE IInv OBVIOUS
  <1>1. Typed
    <2>1. /\ buff \in Commands \cup {EMPTY} /\ asked \in Commands \cup {NOTHING}
          /\ sent \in Seq(Commands \cup {EOL}) /\ greeting \in Seq(Nat)
      BY EmptySeq DEF Init
    <2>2. canQuit \in BOOLEAN /\ end \in BOOLEAN
      BY DebugAssumption DEF Init
    <2>3. step_count \in 0 .. MaxRan /\ count \in 0 .. PollEvery - 1 /\ ran \in 0 .. MaxRan
      BY DebugAssumption DEF Init
    <2>4. /\ debug_state \in {"RUNNING", "STOPPED"} /\ comm_state = "NOSERVICE"
          /\ stop_at = 0 /\ client = "away" /\ sending = "done" /\ status = "DEFAULT" /\ PC \in Addresses /\ at = "while"
      BY DebugAssumption DEF Init
    <2> QED BY <2>1, <2>2, <2>3, <2>4 DEF Typed, TypeOK
  <1>2. Places /\ CountLeft /\ ResetWay /\ OtherWays /\ Tested /\ MayQuit /\ Greeted
    BY DEF Init, Places, CountLeft, ResetWay, OtherWays, Tested, MayQuit, Greeted, NOTHING
  <1> QED BY <1>1, <1>2 DEF IInv

(* A line put together from any parts of the stream is a command, or none. *)
LEMMA LineIsCommand ==
  ASSUME Typed, NEW k \in 1 .. Len(sent)
  PROVE  LineOf(k) \in Commands \cup {EMPTY}
  <1> DEFINE typed == {j \in 1 .. k : sent[j] # EOL}
  <1>1. CASE typed = {}
    BY <1>1 DEF LineOf, Typed
  <1>2. CASE typed # {} /\ buff = EMPTY /\ \E j \in typed : typed = {j}
    <2>1. PICK j \in typed : typed = {j}
      BY <1>2
    <2>2. (CHOOSE i \in typed : TRUE) = j
      BY <2>1
    <2>3. sent[j] \in Commands
      BY <2>1 DEF Typed
    <2>4. LineOf(k) = sent[CHOOSE i \in typed : TRUE]
      BY <1>2 DEF LineOf
    <2> QED BY <2>2, <2>3, <2>4
  <1>3. CASE typed # {} /\ ~(buff = EMPTY /\ \E j \in typed : typed = {j})
    <2>1. LineOf(k) = OTHERLINE
      BY <1>3 DEF LineOf
    <2> QED BY <2>1 DEF OTHERLINE, Commands
  <1> QED BY <1>1, <1>2, <1>3

(* The commands, one by one.                                               *)
LEMMA Obeyed ==
  ASSUME NEW line \in Commands \cup {EMPTY}, Obey(line)
  PROVE  \/ /\ line.c = "g" /\ debug_state' = "RUNNING" /\ asked' \in Commands /\ asked'.c = "g" /\ ran' = 0
            /\ stop_at' \in Breakpoints \cup {0} /\ step_count' = 0 /\ UNCHANGED <<status, PC, canQuit>>
         \/ /\ line.c = "t" /\ debug_state' = "RUNNING" /\ asked' \in Commands /\ asked'.c = "t" /\ ran' = 0
            /\ asked'.v \in Counts /\ step_count' = asked'.v /\ UNCHANGED <<stop_at, status, PC, canQuit>>
         \/ /\ line.c = "s" /\ debug_state' = "STOPPED" /\ asked' \in Commands /\ asked'.c = "s" /\ ran' = 0
            /\ step_count' = 0 /\ UNCHANGED <<stop_at, status, PC, canQuit>>
         \/ /\ line.c = "z" /\ debug_state' = "TOSTOP" /\ asked' \in Commands /\ asked'.c = "z" /\ ran' = 0
            /\ status' = "RESET" /\ step_count' = 0 /\ UNCHANGED <<stop_at, PC, canQuit>>
         \/ /\ line.c = "Z" /\ debug_state' = "RUNNING" /\ asked' \in Commands /\ asked'.c = "Z" /\ ran' = 0
            /\ status' = "HALT" /\ step_count' = 1 /\ canQuit' = TRUE /\ UNCHANGED <<stop_at, PC>>
         \/ /\ line.c \notin {"g", "t", "s", "z", "Z"}
            /\ PC' = PC \/ (debug_state # "RUNNING" /\ PC' \in Addresses)
            /\ UNCHANGED <<debug_state, stop_at, step_count, status, canQuit, asked, ran>>
  <1>1. /\ line.c = "g" => line.v \in Breakpoints \cup {0}
        /\ line.c = "t" => line.v \in Counts
        /\ line.c = "set" => line.v \in Addresses
        /\ line.c \in {"t", "s", "z", "Z"} => line \in Commands
    BY DEF Commands, EMPTY
  <1>2. CASE line.c = "g" /\ Go(line.v)
    BY <1>1, <1>2 DEF Go, Resume, Commands
  <1>3. CASE line.c = "t" /\ Trace(line)
    BY <1>1, <1>3 DEF Trace, Resume
  <1>4. CASE line.c = "s" /\ Pause(line)
    BY <1>1, <1>4 DEF Pause, Resume
  <1>5. CASE line.c = "z" /\ ResetCpu(line)
    BY <1>1, <1>5 DEF ResetCpu, Resume
  <1>6. CASE line.c = "Z" /\ HaltCpu(line)
    BY <1>1, <1>6 DEF HaltCpu, Resume
  <1>7. CASE line.c = "set" /\ SetPC(line.v)
    <2>1. PC' = PC \/ (debug_state # "RUNNING" /\ PC' \in Addresses)
      BY <1>1, <1>7 DEF SetPC
    <2>2. UNCHANGED <<debug_state, stop_at, step_count, status, canQuit, asked, ran>>
      BY <1>7 DEF SetPC
    <2> QED BY <1>7, <2>1, <2>2
  <1>8. CASE /\ line.c \in {"q", "other", "empty"}
             /\ UNCHANGED <<debug_state, stop_at, step_count, status, PC, canQuit, asked, ran>>
    BY <1>8
  <1> QED BY <1>2, <1>3, <1>4, <1>5, <1>6, <1>7, <1>8 DEF Obey

(* What the steps below use of the types.                                  *)
Basic ==
  /\ debug_state \in {"RUNNING", "TOSTOP", "STOPPED"}
  /\ status \in {"DEFAULT", "HALT", "RESET"}
  /\ at \in {"while", "exec", "halt", "loop", "comm", "greet", "ended"}
  /\ ran \in Nat /\ step_count \in Nat /\ end \in BOOLEAN /\ canQuit \in BOOLEAN
  /\ asked.c = "t" /\ asked.v \in Counts => asked.v \in Nat /\ asked.v < MaxRan

Control == Places /\ CountLeft /\ ResetWay /\ OtherWays /\ Tested /\ MayQuit /\ Greeted

LEMMA BasicTypes == Typed => Basic
  <1> SUFFICES ASSUME Typed PROVE Basic OBVIOUS
  <1>1. \A v \in Counts : v \in Nat /\ v < MaxRan
    BY DebugAssumption
  <1>2. ran \in Nat /\ step_count \in Nat
    BY DebugAssumption DEF Typed, TypeOK
  <1> QED BY <1>1, <1>2 DEF Typed, TypeOK, Basic

(* The client and the signal touch nothing of the debugger.                *)
LEMMA OutsideStep ==
  ASSUME IInv, Client \/ Signal
  PROVE  IInv'
  <1>1. /\ UNCHANGED <<debugVars, status, PC, at, asked, ran>>
        /\ end' = end \/ end' = TRUE
    BY DEF Client, Connect, Type, Leave, Drain, Signal
  <1>2. /\ end' \in BOOLEAN /\ client' \in {"away", "waiting", "open", "gone"}
        /\ sending' \in {"done", "writing", "full"}
    BY DEF Client, Connect, Type, Leave, Drain, Signal, IInv, Typed, TypeOK
  <1>3. sent' \in Seq(Commands \cup {EOL})
    <2>1. CASE Connect
      BY <2>1, EmptySeq DEF Connect
    <2>2. ASSUME NEW command \in Commands, Type(command) PROVE sent' \in Seq(Commands \cup {EOL})
      <3>1. <<command, EOL>> \in Seq(Commands \cup {EOL})
        OBVIOUS
      <3> QED BY <2>2, <3>1, ConcatProperties DEF Type, IInv, Typed
    <2>3. CASE Leave \/ Drain \/ Signal
      BY <2>3 DEF Leave, Drain, Signal, IInv, Typed
    <2> QED BY <2>1, <2>2, <2>3 DEF Client
  <1>4. Typed'
    BY <1>1, <1>2, <1>3 DEF IInv, Typed, TypeOK, debugVars
  <1>5. Control'
    BY <1>1 DEF IInv, Control, Places, CountLeft, ResetWay, OtherWays, Tested, MayQuit, Greeted, Over, debugVars
  <1> QED BY <1>4, <1>5 DEF IInv, Control

(* Sending keeps the thread where it goes on, and may lose the connection. *)
LEMMA SendingStep ==
  ASSUME IInv, Sending
  PROVE  IInv'
  <1>1. /\ UNCHANGED <<debug_state, stop_at, step_count, canQuit, count, buff, greeting, sent, status, PC, end, at, asked, ran>>
        /\ comm_state' = comm_state \/ comm_state' = "NOCONNECTION"
    BY DEF Sending, SendPart, SendRest, SendFails, debugVars
  <1>2. client' \in {"away", "waiting", "open", "gone"} /\ sending' \in {"done", "writing", "full"}
    BY DEF Sending, SendPart, SendRest, SendFails, IInv, Typed, TypeOK
  <1>3. Typed'
    BY <1>1, <1>2 DEF IInv, Typed, TypeOK
  <1>4. Control'
    BY <1>1 DEF IInv, Control, Places, CountLeft, ResetWay, OtherWays, Tested, MayQuit, Greeted, Over
  <1> QED BY <1>3, <1>4 DEF IInv, Control

LEMMA WhileStep ==
  ASSUME IInv, While
  PROVE  IInv'
  <1>1. Typed'
    BY DebugAssumption DEF IInv, Typed, TypeOK, While
  <1>2. Control'
    <2>1. Basic BY BasicTypes DEF IInv
    <2>2. Places' /\ Tested' /\ Greeted'
      BY <2>1 DEF IInv, Basic, While, Places, Tested, Greeted
    <2>5. OtherWays'
      BY <2>1 DEF IInv, Basic, While, OtherWays, Over
    <2>6. MayQuit'
      BY <2>1 DEF IInv, Basic, While, MayQuit, Over
    <2>3. CountLeft'
      BY <2>1 DEF IInv, Basic, While, CountLeft, Over
    <2>4. ResetWay'
      BY <2>1 DEF IInv, Basic, While, ResetWay
    <2> QED BY <2>2, <2>3, <2>4, <2>5, <2>6 DEF Control
  <1> QED BY <1>1, <1>2 DEF IInv, Control

LEMMA ExecStep ==
  ASSUME IInv, Exec
  PROVE  IInv'
  <1>1. Typed'
    BY DebugAssumption DEF IInv, Typed, TypeOK, Exec, debugVars
  <1>2. asked.c = "t" => ran < MaxRan /\ ran' = ran + 1 /\ debug_state = "RUNNING"
    BY BasicTypes, DebugAssumption DEF IInv, Basic, Exec, CountLeft, Places, Over
  <1>3. Places' /\ Tested' /\ Greeted'
    BY BasicTypes DEF IInv, Basic, Exec, Places, Tested, Greeted, debugVars
  <1>7. MayQuit'
    BY BasicTypes DEF IInv, Basic, Exec, MayQuit, Over, debugVars
  <1>4. CountLeft'
    BY <1>2, BasicTypes DEF IInv, Basic, Exec, CountLeft, Over, debugVars
  <1>5. ResetWay'
    BY BasicTypes, DebugAssumption DEF IInv, Basic, Exec, ResetWay, debugVars
  <1>6. OtherWays'
    BY BasicTypes DEF IInv, Basic, Exec, Places, OtherWays, Over, debugVars
  <1> QED BY <1>1, <1>3, <1>4, <1>5, <1>6, <1>7 DEF IInv

LEMMA HaltedStep ==
  ASSUME IInv, Halted
  PROVE  IInv'
  <1>1. Typed'
    BY DEF IInv, Typed, TypeOK, Halted
  <1>2. Control'
    BY BasicTypes DEF IInv, Basic, Halted, Control, Places, CountLeft, ResetWay, OtherWays, Tested, MayQuit, Greeted, Over, NOTHING
  <1> QED BY <1>1, <1>2 DEF IInv, Control

LEMMA LoopStep ==
  ASSUME IInv, Loop
  PROVE  IInv'
  <1>1. Typed'
    BY DebugAssumption DEF IInv, Typed, TypeOK, Loop, Stop, Send
  <1>2. Control'
    <2>1. Basic BY BasicTypes DEF IInv
    <2>2. Places' /\ Tested' /\ Greeted' /\ OtherWays'
      BY <2>1 DEF IInv, Basic, Loop, Stop, Places, OtherWays, Tested, Greeted, Over
    <2>3. MayQuit'
      BY <2>1 DEF IInv, Basic, Loop, Stop, Send, MayQuit, Over
    <2>4. CountLeft'
      BY <2>1 DEF IInv, Basic, Loop, Stop, Places, CountLeft, Over
    <2>5. ResetWay'
      BY <2>1 DEF IInv, Basic, Loop, Stop, ResetWay
    <2> QED BY <2>2, <2>3, <2>4, <2>5 DEF Control
  <1> QED BY <1>1, <1>2 DEF IInv, Control

(* The way back from a poll: to the accept that polls, to the loop while   *)
(* stopped, or to the CPU.                                                 *)
LEMMA Returns ==
  ASSUME NEW state, NEW stack, Return(state, stack)
  PROVE  \/ at' = "greet" /\ stack # << >>
         \/ at' = "loop" /\ stack = << >> /\ state = "STOPPED"
         \/ at' = "exec" /\ stack = << >> /\ state # "STOPPED"
  BY DEF Return

LEMMA CountTyped ==
  ASSUME Typed, Called
  PROVE  count' \in 0 .. PollEvery - 1
  <1>1. count \in Nat /\ PollEvery \in Nat \ {0}
    BY DebugAssumption DEF Typed, TypeOK
  <1> QED BY <1>1 DEF Called

(* A poll that obeys no command keeps what the commands left.              *)
LEMMA QuietStep ==
  ASSUME IInv, at \in {"comm", "greet"},
         UNCHANGED <<debug_state, stop_at, step_count, status, PC, end, asked, ran>>,
         \/ at' = "greet" /\ greeting' # << >>
         \/ at' = "comm" /\ at = "greet" /\ greeting' # << >>
         \/ at' = "loop" /\ greeting' = << >> /\ debug_state = "STOPPED"
         \/ at' = "exec" /\ greeting' = << >> /\ debug_state # "STOPPED",
         greeting' = << >> => ~(canQuit' /\ comm_state' = "CONNECTED")
  PROVE  Control'
  <1>1. Basic
    BY BasicTypes DEF IInv
  <1>2. Places' /\ Tested' /\ Greeted'
    BY <1>1 DEF IInv, Basic, Places, Tested, Greeted
  <1>3. OtherWays'
    BY <1>1 DEF IInv, Basic, Places, OtherWays, Over
  <1>4. MayQuit'
    BY <1>1 DEF IInv, Basic, MayQuit
  <1>5. CountLeft'
    BY <1>1 DEF IInv, Basic, CountLeft, Over
  <1>6. ResetWay'
    BY <1>1 DEF IInv, Basic, ResetWay
  <1> QED BY <1>2, <1>3, <1>4, <1>5, <1>6 DEF Control

LEMMA PollStep ==
  ASSUME IInv, CommLater \/ Listen \/ NoAccept \/ ReadNothing \/ ReadEnd
  PROVE  IInv'
  <1>1. /\ at = "comm" /\ Return(debug_state, greeting) /\ greeting' = greeting
        /\ UNCHANGED <<debug_state, stop_at, step_count, status, PC, end, asked, ran, buff, sent, sending>>
        /\ Called
    BY DEF CommLater, Listen, NoAccept, ReadNothing, ReadEnd, Called, Others
  <1>2. greeting = << >> => ~(canQuit /\ comm_state = "CONNECTED")
    BY <1>1 DEF IInv, MayQuit, Over
  <1>3. \/ UNCHANGED <<canQuit, comm_state, client>>
        \/ comm_state' \in {"NOSERVICE", "NOCONNECTION"} /\ canQuit' \in {canQuit, TRUE} /\ client' \in {client, "away"}
    BY DEF CommLater, Listen, NoAccept, ReadNothing, ReadEnd
  <1>4. Control'
    <2>1. \/ at' = "greet" /\ greeting' # << >>
          \/ at' = "loop" /\ greeting' = << >> /\ debug_state = "STOPPED"
          \/ at' = "exec" /\ greeting' = << >> /\ debug_state # "STOPPED"
      BY <1>1, Returns
    <2>2. greeting' = << >> => ~(canQuit' /\ comm_state' = "CONNECTED")
      BY <1>1, <1>2, <1>3
    <2> QED BY <1>1, <2>1, <2>2, QuietStep
  <1>5. Typed'
    <2>1. count' \in 0 .. PollEvery - 1
      BY <1>1, CountTyped DEF IInv
    <2>2. at' \in {"greet", "loop", "exec"}
      BY <1>1, Returns
    <2>3. canQuit' \in BOOLEAN
      BY <1>3 DEF IInv, Typed, TypeOK
    <2>4. comm_state' \in {"NOSERVICE", "NOCONNECTION", "CONNECTED"} /\ client' \in {"away", "waiting", "open", "gone"}
      BY <1>3 DEF IInv, Typed, TypeOK
    <2>5. TypeOK'
      BY <1>1, <2>1, <2>2, <2>3, <2>4 DEF IInv, Typed, TypeOK
    <2> QED BY <1>1, <2>5 DEF IInv, Typed
  <1> QED BY <1>4, <1>5 DEF IInv, Control

LEMMA AcceptStep ==
  ASSUME IInv, Accept
  PROVE  IInv'
  <1>1. /\ at = "comm" /\ at' = "greet"
        /\ UNCHANGED <<debug_state, stop_at, step_count, status, PC, end, asked, ran, buff, sent>>
        /\ Called /\ greeting' = <<Greetings>> \o greeting
        /\ canQuit' = TRUE /\ comm_state' = "CONNECTED" /\ client' = "open" /\ sending' = "writing"
    BY DEF Accept, Called
  <1>2. greeting' \in Seq(Nat) /\ greeting' # << >>
    <2>1. greeting \in Seq(Nat) /\ <<Greetings>> \in Seq(Nat) /\ Len(<<Greetings>>) = 1
      BY DebugAssumption DEF IInv, Typed
    <2>2. greeting' \in Seq(Nat) /\ Len(greeting') = 1 + Len(greeting)
      BY <1>1, <2>1, ConcatProperties
    <2>3. Len(greeting) \in Nat
      BY <2>1
    <2> QED BY <2>2, <2>3, EmptySeq
  <1>3. Control'
    BY <1>1, <1>2, QuietStep
  <1>4. TypeOK'
    BY <1>1, CountTyped DEF IInv, Typed, TypeOK
  <1> QED BY <1>1, <1>2, <1>3, <1>4 DEF IInv, Typed, Control

LEMMA GreetStep ==
  ASSUME IInv, Greet
  PROVE  IInv'
  <1>1. /\ at = "greet"
        /\ UNCHANGED <<debug_state, stop_at, step_count, count, sent, status, PC, end, asked, ran>>
        /\ greeting \in Seq(Nat) /\ greeting # << >>
    BY DEF Greet, IInv, Typed, Greeted
  <1>2. Head(greeting) \in Nat /\ Tail(greeting) \in Seq(Nat)
    BY <1>1, HeadTailProperties
  <1>3. CASE Head(greeting) > 0
    <2>1. /\ greeting' = <<Head(greeting) - 1>> \o Tail(greeting) /\ at' = "comm"
          /\ UNCHANGED <<comm_state, buff, canQuit, client, sending>>
      BY <1>3 DEF Greet
    <2>2. <<Head(greeting) - 1>> \in Seq(Nat) /\ Len(<<Head(greeting) - 1>>) = 1
      BY <1>2, <1>3
    <2>3. greeting' \in Seq(Nat) /\ Len(greeting') = 1 + Len(Tail(greeting)) /\ Len(Tail(greeting)) \in Nat
      BY <1>2, <2>1, <2>2, ConcatProperties
    <2>4. greeting' # << >>
      BY <2>3, EmptySeq
    <2>5. Control'
      BY <1>1, <2>1, <2>4, QuietStep
    <2>6. TypeOK'
      BY <1>1, <2>1 DEF IInv, Typed, TypeOK
    <2> QED BY <1>1, <2>1, <2>3, <2>5, <2>6 DEF IInv, Typed, Control
  <1>4. CASE ~(Head(greeting) > 0)
    <2>1. /\ greeting' = Tail(greeting) /\ buff' = EMPTY /\ canQuit' = FALSE
          /\ Send /\ Return(debug_state, Tail(greeting))
      BY <1>4 DEF Greet
    <2> DEFINE rest == Tail(greeting)
    <2>5. \/ at' = "greet" /\ rest # << >>
          \/ at' = "loop" /\ rest = << >> /\ debug_state = "STOPPED"
          \/ at' = "exec" /\ rest = << >> /\ debug_state # "STOPPED"
      <3> HIDE DEF rest
      <3> SUFFICES ASSUME Return(debug_state, rest)
                   PROVE  \/ at' = "greet" /\ rest # << >>
                          \/ at' = "loop" /\ rest = << >> /\ debug_state = "STOPPED"
                          \/ at' = "exec" /\ rest = << >> /\ debug_state # "STOPPED"
        BY <2>1 DEF rest
      <3> QED BY DEF Return
    <2>2. \/ at' = "greet" /\ greeting' # << >>
          \/ at' = "loop" /\ greeting' = << >> /\ debug_state = "STOPPED"
          \/ at' = "exec" /\ greeting' = << >> /\ debug_state # "STOPPED"
      BY <2>1, <2>5
    <2>3. Control'
      BY <1>1, <2>1, <2>2, QuietStep
    <2>4. TypeOK'
      BY <1>1, <2>1, <2>2 DEF IInv, Typed, TypeOK, Send
    <2> QED BY <1>1, <1>2, <2>1, <2>3, <2>4 DEF IInv, Typed, Control
  <1> QED BY <1>3, <1>4

LEMMA RestOfStream ==
  ASSUME Typed, NEW k \in 1 .. Len(sent)
  PROVE  SubSeq(sent, k + 1, Len(sent)) \in Seq(Commands \cup {EOL})
  BY SubSeqProperties DEF Typed

LEMMA PartStep ==
  ASSUME IInv, NEW k \in 1 .. Len(sent), ReadPart(k)
  PROVE  IInv'
  <1>1. /\ at = "comm" /\ Return(debug_state, greeting) /\ greeting' = greeting
        /\ UNCHANGED <<debug_state, stop_at, step_count, status, PC, end, asked, ran, canQuit, comm_state, client, sending>>
        /\ Called /\ buff' = LineOf(k) /\ sent' = SubSeq(sent, k + 1, Len(sent))
    BY DEF ReadPart, Called, Others
  <1>2. greeting = << >> => ~(canQuit /\ comm_state = "CONNECTED")
    BY <1>1 DEF IInv, MayQuit, Over
  <1>3. \/ at' = "greet" /\ greeting' # << >>
        \/ at' = "loop" /\ greeting' = << >> /\ debug_state = "STOPPED"
        \/ at' = "exec" /\ greeting' = << >> /\ debug_state # "STOPPED"
    BY <1>1, Returns
  <1>4. Control'
    BY <1>1, <1>2, <1>3, QuietStep
  <1>5. TypeOK'
    BY <1>1, <1>3, CountTyped DEF IInv, Typed, TypeOK
  <1>6. buff' \in Commands \cup {EMPTY} /\ sent' \in Seq(Commands \cup {EOL})
    BY <1>1, LineIsCommand, RestOfStream DEF IInv
  <1> QED BY <1>1, <1>4, <1>5, <1>6 DEF IInv, Typed, Control

(* A command, whatever it is: what is left of it is where it should be.    *)
LEMMA LineControl ==
  ASSUME IInv, NEW line \in Commands \cup {EMPTY}, Obey(line), at = "comm",
         comm_state = "CONNECTED",
         Return(debug_state', greeting), UNCHANGED <<greeting, end>>
  PROVE  Control'
  <1>1. Basic
    BY BasicTypes DEF IInv
  <1>2. \/ at' = "greet" /\ greeting' # << >>
        \/ at' = "loop" /\ greeting' = << >> /\ debug_state' = "STOPPED"
        \/ at' = "exec" /\ greeting' = << >> /\ debug_state' # "STOPPED"
    BY DEF Return
  <1>3. greeting' = << >> => ~canQuit
    BY DEF IInv, MayQuit, Over
  <1>4. CASE debug_state' = "RUNNING" /\ asked'.c = "g" /\ ran' = 0 /\ step_count' = 0 /\ UNCHANGED <<status, canQuit>>
    BY <1>1, <1>2, <1>3, <1>4 DEF Basic, Control, Places, CountLeft, ResetWay, OtherWays, Tested, MayQuit, Greeted
  <1>5. CASE /\ debug_state' = "RUNNING" /\ asked'.c = "t" /\ ran' = 0 /\ asked'.v \in Counts /\ step_count' = asked'.v
             /\ UNCHANGED <<status, canQuit>>
    <2>0. \A v \in Counts : v \in Nat \ {0}
      BY DebugAssumption
    <2>1. asked'.v \in Nat \ {0}
      BY <1>5, <2>0
    <2> QED BY <1>1, <1>2, <1>3, <1>5, <2>1 DEF Basic, Control, Places, CountLeft, ResetWay, OtherWays, Tested, MayQuit, Greeted
  <1>6. CASE debug_state' = "STOPPED" /\ asked'.c = "s" /\ ran' = 0 /\ UNCHANGED <<status, canQuit>>
    BY <1>1, <1>2, <1>3, <1>6 DEF Basic, Control, Places, CountLeft, ResetWay, OtherWays, Tested, MayQuit, Greeted
  <1>7. CASE debug_state' = "TOSTOP" /\ asked'.c = "z" /\ ran' = 0 /\ status' = "RESET" /\ UNCHANGED canQuit
    BY <1>1, <1>2, <1>3, <1>7 DEF Basic, Control, Places, CountLeft, ResetWay, OtherWays, Tested, MayQuit, Greeted
  <1>8. CASE debug_state' = "RUNNING" /\ asked'.c = "Z" /\ ran' = 0 /\ status' = "HALT" /\ canQuit' = TRUE
    BY <1>1, <1>2, <1>8 DEF Basic, Control, Places, CountLeft, ResetWay, OtherWays, Tested, MayQuit, Greeted
  <1>9. CASE /\ PC' = PC \/ debug_state # "RUNNING"
             /\ UNCHANGED <<debug_state, stop_at, step_count, status, canQuit, asked, ran>>
    <2>1. Places' /\ Tested' /\ Greeted'
      BY <1>1, <1>2, <1>9 DEF IInv, Basic, Places, Tested, Greeted
    <2>2. OtherWays'
      BY <1>1, <1>2, <1>9 DEF IInv, Basic, Places, OtherWays, Over
    <2>3. MayQuit'
      BY <1>2, <1>3, <1>9 DEF MayQuit
    <2>4. CountLeft'
      BY <1>1, <1>2, <1>9 DEF IInv, Basic, CountLeft, Over
    <2>5. ResetWay'
      BY <1>1, <1>2, <1>9 DEF IInv, Basic, ResetWay
    <2> QED BY <2>1, <2>2, <2>3, <2>4, <2>5 DEF Control
  <1> QED BY <1>4, <1>5, <1>6, <1>7, <1>8, <1>9, Obeyed

LEMMA LineStep ==
  ASSUME IInv, NEW k \in 1 .. Len(sent), ReadLine(k)
  PROVE  IInv'
  <1> DEFINE line == LineOf(k)
  <1>1. line \in Commands \cup {EMPTY} /\ sent' \in Seq(Commands \cup {EOL})
    BY LineIsCommand, RestOfStream DEF IInv, ReadLine
  <1>2. /\ at = "comm" /\ comm_state = "CONNECTED" /\ Return(debug_state', greeting) /\ UNCHANGED <<greeting, end>>
        /\ Obey(line) /\ buff' = EMPTY /\ Called
    BY DEF ReadLine, Called
  <1>3. Control'
    <2> HIDE DEF line
    <2> QED BY <1>1, <1>2, LineControl
  <1>4. TypeOK' /\ asked' \in Commands \cup {NOTHING}
    <2>1. /\ comm_state' \in {"NOCONNECTION", "CONNECTED"} /\ client' \in {"away", client}
          /\ sending' \in {sending, "writing", "done"}
      BY <1>2 DEF ReadLine, Send
    <2>2. count' \in 0 .. PollEvery - 1
      BY <1>2, CountTyped DEF IInv
    <2>3. at' \in {"greet", "loop", "exec"}
      BY <1>2 DEF Return
    <2>4. /\ debug_state' \in {"RUNNING", "TOSTOP", "STOPPED"} /\ status' \in {"DEFAULT", "HALT", "RESET"}
          /\ stop_at' \in Breakpoints \cup {0} /\ PC' \in Addresses /\ canQuit' \in BOOLEAN
          /\ asked' \in Commands \cup {NOTHING}
      <3> HIDE DEF line
      <3> QED BY <1>1, <1>2, Obeyed DEF IInv, Typed, TypeOK
    <2>5. step_count' \in 0 .. MaxRan /\ ran' \in 0 .. MaxRan
      <3> HIDE DEF line
      <3>1. \A v \in Counts : v \in 0 .. MaxRan
        BY DebugAssumption
      <3>2. 0 \in 0 .. MaxRan /\ 1 \in 0 .. MaxRan
        BY DebugAssumption
      <3> QED BY <1>1, <1>2, <3>1, <3>2, Obeyed DEF IInv, Typed, TypeOK
    <2> QED BY <1>2, <2>1, <2>2, <2>3, <2>4, <2>5 DEF IInv, Typed, TypeOK
  <1> QED BY <1>1, <1>2, <1>3, <1>4 DEF IInv, Typed, Control

LEMMA NextIInv == IInv /\ [Next]_vars => IInv'
  <1> SUFFICES ASSUME IInv, [Next]_vars PROVE IInv' OBVIOUS
  <1>1. CASE Client \/ Signal
    BY <1>1, OutsideStep
  <1>2. CASE While \/ Exec \/ Halted \/ Loop
    BY <1>2, WhileStep, ExecStep, HaltedStep, LoopStep
  <1>5. CASE Sending
    BY <1>5, SendingStep
  <1>3. CASE Comm
    BY <1>3, PollStep, AcceptStep, GreetStep, PartStep, LineStep DEF Comm
  <1>4. CASE UNCHANGED vars
    BY <1>4 DEF vars, debugVars, IInv, Typed, TypeOK, Places, CountLeft, ResetWay, OtherWays, Tested, MayQuit, Greeted, Over
  <1> QED BY <1>1, <1>2, <1>3, <1>4, <1>5 DEF Next, Thread

THEOREM Invariant == Spec => []IInv
  BY InitIInv, NextIInv, PTL DEF Spec

(* The variables of the debugger keep their types (bs3_debug_data).        *)
THEOREM DebugTypeOK == Spec => []TypeOK
  <1>1. IInv => TypeOK
    BY DEF IInv, Typed
  <1> QED BY <1>1, Invariant, PTL

(* The command t n lets the CPU take n turns and no more, s none, and z    *)
(* the one that resets it, for every n, whatever the program and the       *)
(* clients do meanwhile.                                                   *)
THEOREM CountsTurns == Spec => []StepsAreCounted
  <1>1. IInv => StepsAreCounted
    BY BasicTypes DEF IInv, Basic, StepsAreCounted, CountLeft, ResetWay, OtherWays
  <1> QED BY <1>1, Invariant, PTL

(* No turn of the CPU at the breakpoint, but the first after a command.    *)
THEOREM HoldsBreakpoints == Spec => []BreakpointHolds
  <1>1. IInv => BreakpointHolds
    BY DEF IInv, Typed, TypeOK, Places, Tested, BreakpointHolds
  <1> QED BY <1>1, Invariant, PTL

(* The debugger stops the CPU at the breakpoint, when the count is used    *)
(* up, after its reset and after HLT: never earlier.                       *)
THEOREM StopsNowhereElse == Spec => StopsWhereAsked
  <1> DEFINE A == (at = "loop" /\ debug_state = "RUNNING" /\ debug_state' = "STOPPED") =>
                    \/ PC = stop_at
                    \/ asked.c = "t" /\ ran = asked.v
                    \/ asked.c = "z" /\ ran = 1
                    \/ asked = NOTHING
  <1>1. IInv /\ [Next]_vars => [A]_vars
    <2> SUFFICES ASSUME IInv, Next, at = "loop", debug_state = "RUNNING", debug_state' = "STOPPED", PC # stop_at
                 PROVE  \/ asked.c = "t" /\ ran = asked.v
                        \/ asked.c = "z" /\ ran = 1
                        \/ asked = NOTHING
      BY DEF vars, debugVars
    <2>1. ~Comm /\ ~While /\ ~Exec /\ ~Halted /\ ~Sending /\ ~Client /\ ~Signal
      BY DEF Comm, CommLater, Listen, NoAccept, Accept, Greet, ReadNothing, ReadEnd, ReadPart, ReadLine, Called,
             While, Exec, Halted, Client, Connect, Type, Leave, Drain, Signal, Sending, SendPart, SendRest, SendFails, debugVars
    <2>2. step_count = 1
      BY <2>1 DEF Next, Thread, Loop
    <2>3. Basic
      BY BasicTypes DEF IInv
    <2>4. asked.c # "nothing" \/ asked = NOTHING
      BY DEF IInv, Typed, Commands, NOTHING
    <2> QED BY <2>2, <2>3, <2>4 DEF IInv, Basic, CountLeft, ResetWay, OtherWays, Over
  <1> QED BY <1>1, Invariant, PTL DEF Spec, StopsWhereAsked

(* With a client connected HLT ends the program only after Z.              *)
THEOREM QuitsAsked == Spec => QuitsOnlyIfAsked
  <1> DEFINE A == (at = "halt" /\ at' = "while" /\ end' /\ ~end) => comm_state # "CONNECTED" \/ asked.c = "Z"
  <1>1. IInv /\ [Next]_vars => [A]_vars
    <2> SUFFICES ASSUME IInv, Next, at = "halt", at' = "while", end', ~end, comm_state = "CONNECTED"
                 PROVE  asked.c = "Z"
      BY DEF vars, debugVars
    <2>1. ~Comm /\ ~While /\ ~Exec /\ ~Loop /\ ~Sending /\ ~Client /\ ~Signal
      BY DEF Comm, CommLater, Listen, NoAccept, Accept, Greet, ReadNothing, ReadEnd, ReadPart, ReadLine, Called,
             While, Exec, Loop, Client, Connect, Type, Leave, Drain, Signal, Sending, SendPart, SendRest, SendFails, debugVars
    <2>2. canQuit
      BY <2>1 DEF Next, Thread, Halted, IInv, Typed, TypeOK
    <2> QED BY <2>2 DEF IInv, MayQuit
  <1> QED BY <1>1, Invariant, PTL DEF Spec, QuitsOnlyIfAsked
===============================================================================
