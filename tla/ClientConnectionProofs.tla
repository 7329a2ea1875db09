------------------------ MODULE ClientConnectionProofs ------------------------
(* Theorems about ClientConnection, for any sockets and number of requests. *)
EXTENDS ClientConnection, TLAPS

(* Where the front of what is unread is in its reply. *)
LEMMA FrontPartOf ==
    ASSUME NEW c \in Conn, unread[c] \in 1..5
    PROVE  FrontPart(c) = IF unread[c] <= 3 THEN 4 - unread[c] ELSE 7 - unread[c]
<1>1. unread[c] \in {1, 2, 3, 4, 5}
    OBVIOUS
<1>2. CASE unread[c] = 1
    BY <1>2 DEF FrontPart, Parts
<1>3. CASE unread[c] = 2
    BY <1>3 DEF FrontPart, Parts
<1>4. CASE unread[c] = 3
    BY <1>4 DEF FrontPart, Parts
<1>5. CASE unread[c] = 4
    BY <1>5 DEF FrontPart, Parts
<1>6. CASE unread[c] = 5
    BY <1>6 DEF FrontPart, Parts
<1> QED  BY <1>1, <1>2, <1>3, <1>4, <1>5, <1>6

(* A parser in step reads the reply to its own request, and nothing else is
   in the socket. *)
LEMMA InStepWhole ==
    ASSUME IInv, NEW c \in Conn, state[c] = "reading", unread[c] > 0, InStep(c)
    PROVE  served[c] /\ parsed[c] + unread[c] = 3 /\ OwnReply(c)
<1>1. parsed[c] \in 0..2 /\ unread[c] \in 1..5 /\ served[c] \in BOOLEAN
    BY DEF IInv, TypeOK, SocketInv
<1>2. FrontPart(c) = parsed[c] + 1
    BY DEF InStep
<1>3. unread[c] <= 3
    BY <1>1, <1>2, FrontPartOf DEF IInv, SocketInv, Parts
<1>4. parsed[c] + unread[c] = 3
    BY <1>1, <1>2, <1>3, FrontPartOf
<1>5. served[c]
    BY <1>1, <1>4 DEF IInv, SocketInv
<1> QED  BY <1>3, <1>4, <1>5 DEF OwnReply, Parts

(* One callback: the answer of the task of c, and no other. *)
LEMMA CalledBack ==
    ASSUME TypeOK, TasksInv, NEW c \in Conn, Holding(c), NEW a \in Answer, Callback(c, a)
    PROVE  /\ answers' \in [Task -> Seq(Answer)]
           /\ \A t \in Task : answers'[t] = IF t = p_task[c] THEN <<a>> ELSE answers[t]
<1>1. p_task[c] \in Task /\ answers[p_task[c]] = << >>
    BY DEF TasksInv
<1>2. Append(<< >>, a) = <<a>> /\ <<a>> \in Seq(Answer)
    OBVIOUS
<1> QED  BY <1>1, <1>2 DEF Callback, TypeOK

(* After a callback, with the connection out of the exchange, the tasks are
   as they should be: one more is answered. *)
LEMMA TasksAfterCallback ==
    ASSUME IInv, NEW c \in Conn, state[c] = "reading", NEW a \in Answer \ {"foreign"},
           Callback(c, a), NEW s \in {"connecting", "checking"},
           state' = [state EXCEPT ![c] = s],
           UNCHANGED <<request_count, tasks, p_task, dropped>>
    PROVE  TasksInv' /\ AnsweredOnce' /\ NoForeignAnswer'
<1>1. Holding(c)
    BY DEF Holding
<1>2. \A t \in Task : answers'[t] = IF t = p_task[c] THEN <<a>> ELSE answers[t]
    BY <1>1, CalledBack DEF IInv
<1>3. \A d \in Conn : Holding(d)' => d # c /\ Holding(d) /\ p_task'[d] = p_task[d]
    BY DEF Holding, IInv, TypeOK
<1>4. p_task[c] \in Task /\ p_task[c] < request_count /\ p_task[c] \notin tasks \cup dropped
    BY <1>1 DEF IInv, TasksInv
<1>5. <<a>> # << >> /\ Len(<<a>>) = 1 /\ <<a>> # <<"foreign">>
    OBVIOUS
<1>6. TasksInv'
  <2>1. tasks \subseteq Task /\ dropped \subseteq Task
      BY DEF IInv, TypeOK
  <2>2. \A t \in tasks' \cup dropped' : t < request_count' /\ answers'[t] = << >>
      BY <1>2, <1>4, <2>1 DEF IInv, TasksInv
  <2>3. \A t \in Task : t >= request_count' => answers'[t] = << >>
    <3>1. request_count \in Nat /\ p_task[c] \in Nat
        BY DEF IInv, TypeOK
    <3> QED  BY <1>2, <1>4, <3>1 DEF IInv, TasksInv, Task
  <2>4. ASSUME NEW d \in Conn, Holding(d)'
        PROVE  /\ p_task'[d] \in Task /\ p_task'[d] < request_count'
               /\ p_task'[d] \notin tasks' \cup dropped'
               /\ answers'[p_task'[d]] = << >>
               /\ \A e \in Conn : e # d /\ Holding(e)' => p_task'[e] # p_task'[d]
      BY <1>1, <1>2, <1>3, <2>4 DEF IInv, TasksInv
  <2>5. tasks' \cap dropped' = {}
      BY DEF IInv, TasksInv
  <2> QED  BY <2>2, <2>3, <2>4, <2>5 DEF TasksInv
<1>7. AnsweredOnce'
  <2>1. ASSUME NEW t \in Task
        PROVE  /\ Len(answers'[t]) <= 1
               /\ answers'[t] # << >> => t \notin tasks' \cup dropped'
    <3>1. CASE t = p_task[c]
      <4>1. answers'[t] = <<a>>
          BY <1>2, <3>1
      <4>2. Len(answers'[t]) <= 1
          BY <1>5, <4>1
      <4> QED  BY <1>4, <3>1, <4>2
    <3>2. CASE t # p_task[c]
        BY <1>2, <3>2 DEF IInv, AnsweredOnce
    <3> QED  BY <3>1, <3>2
  <2> QED  BY <2>1 DEF AnsweredOnce
<1>8. NoForeignAnswer'
    BY <1>2, <1>5 DEF IInv, NoForeignAnswer
<1> QED  BY <1>6, <1>7, <1>8

-----------------------------------------------------------------------------
(* Each step keeps the invariant. *)
LEMMA SendMessageInv == ASSUME IInv, SendMessage PROVE IInv'
<1>0. request_count \in Task /\ request_count' = request_count + 1
      /\ request_count' \in 0..MAX_TASKS
    BY MaxTasksAssumption DEF SendMessage, IInv, TypeOK, Task
<1>1. TypeOK'
  <2>1. tasks' \subseteq Task
      BY <1>0 DEF SendMessage, IInv, TypeOK
  <2> QED  BY <1>0, <2>1 DEF SendMessage, server, response, IInv, TypeOK
<1>2. TasksInv'
  <2>1. answers[request_count] = << >> /\ request_count \notin dropped
      BY <1>0 DEF IInv, TasksInv, Task
  <2>2. \A d \in Conn : Holding(d)' <=> Holding(d)
      BY DEF Holding, SendMessage
  <2>3. request_count \in Nat
      BY <1>0 DEF Task
  <2>4. \A t \in tasks' \cup dropped' : t < request_count' /\ answers'[t] = << >>
    <3>1. tasks \cup dropped \subseteq Nat
        BY DEF IInv, TypeOK, Task
    <3> QED  BY <1>0, <2>1, <2>3, <3>1 DEF SendMessage, IInv, TasksInv
  <2>5. \A t \in Task : t >= request_count' => answers'[t] = << >>
      BY <1>0, <2>3 DEF SendMessage, IInv, TasksInv, Task
  <2>6. ASSUME NEW d \in Conn, Holding(d)'
        PROVE  /\ p_task'[d] \in Task /\ p_task'[d] < request_count'
               /\ p_task'[d] \notin tasks' \cup dropped'
               /\ answers'[p_task'[d]] = << >>
               /\ \A e \in Conn : e # d /\ Holding(e)' => p_task'[e] # p_task'[d]
    <3>1. p_task[d] \in Task /\ p_task[d] < request_count
        BY <2>2, <2>6 DEF IInv, TasksInv
    <3>2. p_task[d] # request_count /\ p_task[d] < request_count'
        BY <1>0, <2>3, <3>1 DEF Task
    <3> QED  BY <2>2, <2>6, <3>1, <3>2 DEF SendMessage, IInv, TasksInv
  <2>7. tasks' \cap dropped' = {}
      BY <2>1 DEF SendMessage, IInv, TasksInv
  <2> QED  BY <2>4, <2>5, <2>6, <2>7 DEF TasksInv
<1>3. SocketInv' /\ CutInv'
    BY DEF SendMessage, server, response, IInv, SocketInv, CutInv
<1>4. AnsweredOnce' /\ NoForeignAnswer'
  <2>1. answers[request_count] = << >>
      BY <1>0 DEF IInv, TasksInv, Task
  <2> QED  BY <2>1 DEF SendMessage, IInv, AnsweredOnce, NoForeignAnswer
<1> QED  BY <1>1, <1>2, <1>3, <1>4 DEF IInv

LEMMA TryConnectInv == ASSUME IInv, NEW c \in Conn, TryConnect(c) PROVE IInv'
<1>1. TypeOK'
    BY DEF TryConnect, IInv, TypeOK, State, response
<1>2. TasksInv'
  <2>1. \A d \in Conn : Holding(d)' <=> Holding(d)
      BY DEF Holding, TryConnect, IInv, TypeOK
  <2> QED  BY <2>1 DEF TryConnect, IInv, TasksInv
<1>3. SocketInv'
    BY DEF TryConnect, response, IInv, TypeOK, SocketInv
<1>4. CutInv'
    BY DEF TryConnect, response, IInv, TypeOK, SocketInv, CutInv
<1>5. AnsweredOnce' /\ NoForeignAnswer'
    BY DEF TryConnect, IInv, AnsweredOnce, NoForeignAnswer
<1> QED  BY <1>1, <1>2, <1>3, <1>4, <1>5 DEF IInv

LEMMA CheckTasksInv == ASSUME IInv, NEW c \in Conn, CheckTasks(c) PROVE IInv'
<1>0. PICK t \in tasks : tasks' = tasks \ {t} /\ p_task' = [p_task EXCEPT ![c] = t]
    BY DEF CheckTasks
<1>1. t \in Task /\ t \in Nat /\ t < request_count /\ answers[t] = << >> /\ t \notin dropped
    BY <1>0 DEF IInv, TypeOK, TasksInv, Task
<1>2. TypeOK'
    BY <1>0, <1>1 DEF CheckTasks, IInv, TypeOK, State, response
<1>3. TasksInv'
  <2>1. \A d \in Conn : d # c => p_task'[d] = p_task[d] /\ (Holding(d)' <=> Holding(d))
      BY <1>0 DEF Holding, CheckTasks, IInv, TypeOK
  <2>2. p_task'[c] = t
      BY <1>0 DEF IInv, TypeOK
  <2>3. \A d \in Conn : Holding(d) => p_task[d] # t
      BY <1>0 DEF IInv, TasksInv
  <2>4. ASSUME NEW d \in Conn, Holding(d)'
        PROVE  /\ p_task'[d] \in Task /\ p_task'[d] < request_count'
               /\ p_task'[d] \notin tasks' \cup dropped'
               /\ answers'[p_task'[d]] = << >>
               /\ \A e \in Conn : e # d /\ Holding(e)' => p_task'[e] # p_task'[d]
    <3>1. CASE d = c
        BY <1>0, <1>1, <2>1, <2>2, <2>3, <3>1 DEF CheckTasks
    <3>2. CASE d # c
        BY <1>0, <2>1, <2>2, <2>3, <2>4, <3>2 DEF CheckTasks, IInv, TasksInv
    <3> QED  BY <3>1, <3>2
  <2>5. /\ \A u \in tasks' \cup dropped' : u < request_count' /\ answers'[u] = << >>
        /\ tasks' \cap dropped' = {}
        /\ \A u \in Task : u >= request_count' => answers'[u] = << >>
      BY <1>0 DEF CheckTasks, IInv, TasksInv
  <2> QED  BY <2>4, <2>5 DEF TasksInv
<1>4. SocketInv'
    BY DEF CheckTasks, response, IInv, TypeOK, SocketInv
<1>5. CutInv'
    BY DEF CheckTasks, response, IInv, TypeOK, SocketInv, CutInv
<1>6. AnsweredOnce' /\ NoForeignAnswer'
    BY <1>0 DEF CheckTasks, IInv, AnsweredOnce, NoForeignAnswer
<1> QED  BY <1>2, <1>3, <1>4, <1>5, <1>6 DEF IInv

LEMMA WriteInv == ASSUME IInv, NEW c \in Conn, Write(c) PROVE IInv'
<1>1. TypeOK'
    BY DEF Write, IInv, TypeOK, State, response, server
<1>2. TasksInv'
  <2>1. \A d \in Conn : Holding(d)' <=> Holding(d)
      BY DEF Holding, Write, IInv, TypeOK
  <2> QED  BY <2>1 DEF Write, IInv, TasksInv
<1>3. ~served[c]
    BY DEF Write, IInv, SocketInv
<1>4. SocketInv'
    BY <1>3 DEF Write, response, server, IInv, TypeOK, SocketInv
<1>5. CutInv'
    BY <1>3 DEF Write, response, server, IInv, TypeOK, SocketInv, CutInv
<1>6. AnsweredOnce' /\ NoForeignAnswer'
    BY DEF Write, IInv, AnsweredOnce, NoForeignAnswer
<1> QED  BY <1>1, <1>2, <1>4, <1>5, <1>6 DEF IInv

LEMMA WriteFailsInv == ASSUME IInv, NEW c \in Conn, WriteFails(c) PROVE IInv'
<1>0. /\ state' = [state EXCEPT ![c] = "connecting"] /\ unread' = [unread EXCEPT ![c] = 0]
      /\ dropped' = dropped \cup {p_task[c]} /\ state[c] = "writing" /\ Holding(c)
    BY DEF WriteFails, Reset, Holding
<1>1. /\ p_task[c] \in Task /\ p_task[c] < request_count
      /\ p_task[c] \notin tasks \cup dropped /\ answers[p_task[c]] = << >>
    BY <1>0 DEF IInv, TasksInv
<1>2. TypeOK'
    BY <1>0, <1>1 DEF WriteFails, IInv, TypeOK, State, response, server
<1>3. TasksInv'
  <2>1. \A d \in Conn : Holding(d)' => Holding(d) /\ d # c
      BY <1>0 DEF Holding, IInv, TypeOK
  <2>2. ASSUME NEW d \in Conn, Holding(d)'
        PROVE  /\ p_task'[d] \in Task /\ p_task'[d] < request_count'
               /\ p_task'[d] \notin tasks' \cup dropped'
               /\ answers'[p_task'[d]] = << >>
               /\ \A e \in Conn : e # d /\ Holding(e)' => p_task'[e] # p_task'[d]
      BY <1>0, <2>1, <2>2 DEF WriteFails, IInv, TasksInv
  <2>3. /\ \A u \in tasks' \cup dropped' : u < request_count' /\ answers'[u] = << >>
        /\ tasks' \cap dropped' = {}
        /\ \A u \in Task : u >= request_count' => answers'[u] = << >>
      BY <1>0, <1>1 DEF WriteFails, IInv, TasksInv
  <2> QED  BY <2>2, <2>3 DEF TasksInv
<1>4. SocketInv'
    BY <1>0 DEF WriteFails, response, server, IInv, TypeOK, SocketInv
<1>5. CutInv'
    BY <1>0 DEF WriteFails, response, server, IInv, TypeOK, SocketInv, CutInv
<1>6. AnsweredOnce' /\ NoForeignAnswer'
    BY <1>0, <1>1 DEF WriteFails, IInv, AnsweredOnce, NoForeignAnswer
<1> QED  BY <1>2, <1>3, <1>4, <1>5, <1>6 DEF IInv

LEMMA ServeInv == ASSUME IInv, NEW c \in Conn, Serve(c) PROVE IInv'
<1>0. unread[c] \in 0..2 /\ parsed[c] = 0 /\ unread' = [unread EXCEPT ![c] = @ + 3]
    BY DEF Serve, IInv, TypeOK, SocketInv, Parts
<1>1. TypeOK'
  <2>1. refused' \in [Conn -> BOOLEAN] /\ served' \in [Conn -> BOOLEAN]
    <3>1. PICK r \in BOOLEAN : refused' = [refused EXCEPT ![c] = r]
        BY DEF Serve
    <3>2. refused' \in [Conn -> BOOLEAN]
        BY <3>1 DEF IInv, TypeOK
    <3> QED  BY <3>2 DEF Serve, IInv, TypeOK
  <2>2. unread' \in [Conn -> Nat]
      BY <1>0 DEF IInv, TypeOK
  <2> QED  BY <2>1, <2>2 DEF Serve, IInv, TypeOK, response
<1>2. TasksInv'
  <2>1. \A d \in Conn : Holding(d)' <=> Holding(d)
      BY DEF Holding, Serve
  <2> QED  BY <2>1 DEF Serve, IInv, TasksInv
<1>3. /\ \A d \in Conn : d # c => unread'[d] = unread[d] /\ served'[d] = served[d]
      /\ unread'[c] = unread[c] + 3 /\ served'[c] /\ unread'[c] \in 3..5
      /\ residue' = residue /\ parsed' = parsed /\ state' = state /\ state[c] = "reading"
    BY <1>0 DEF Serve, IInv, TypeOK, response
<1>4. SocketInv'
    BY <1>0, <1>3 DEF Serve, IInv, SocketInv, Parts
<1>5. CutInv'
    BY <1>0, <1>3 DEF Serve, IInv, TypeOK, SocketInv, CutInv, Parts
<1>6. AnsweredOnce' /\ NoForeignAnswer'
    BY DEF Serve, IInv, AnsweredOnce, NoForeignAnswer
<1> QED  BY <1>1, <1>2, <1>4, <1>5, <1>6 DEF IInv

(* While a connection goes on reading, no task changes hands. *)
LEMMA ReadingOn ==
    ASSUME IInv, UNCHANGED <<request_count, tasks, state, p_task, answers, dropped>>
    PROVE  TasksInv' /\ AnsweredOnce' /\ NoForeignAnswer'
<1>1. \A d \in Conn : Holding(d)' <=> Holding(d)
    BY DEF Holding
<1> QED  BY <1>1 DEF IInv, TasksInv, AnsweredOnce, NoForeignAnswer

LEMMA ReadReplyInv ==
    ASSUME IInv, NEW c \in Conn, NEW n \in 1..unread[c], ReadReply(c, n)
    PROVE  IInv'
<1>0. /\ unread[c] \in 1..5 /\ n \in Nat /\ parsed[c] \in 0..2 /\ state[c] = "reading"
      /\ served[c] /\ parsed[c] + unread[c] = 3 /\ OwnReply(c) /\ residue[c] = "none"
      /\ unread' = [unread EXCEPT ![c] = @ - n] /\ Holding(c)
  <2>1. unread[c] \in 1..5 /\ n \in Nat /\ parsed[c] \in 0..2
      BY DEF IInv, TypeOK, SocketInv
  <2>2. state[c] = "reading" /\ InStep(c)
      BY DEF ReadReply
  <2> QED  BY <2>1, <2>2, InStepWhole DEF ReadReply, InStep, Holding
<1>1. CASE parsed[c] + n < Parts
  <2>0. /\ parsed' = [parsed EXCEPT ![c] = @ + n]
        /\ cut' = IF p_task[c] = 0 /\ parsed[c] + n = 2 THEN cut \cup {c} ELSE cut
        /\ UNCHANGED <<request_count, tasks, state, p_task, served, refused, residue, answers,
                       dropped>>
      BY <1>1 DEF ReadReply, server
  <2>1. parsed[c] + n \in 1..2 /\ unread[c] - n \in 1..2 /\ (parsed[c] + n) + (unread[c] - n) = 3
      BY <1>0, <1>1 DEF Parts
  <2>2. /\ parsed'[c] = parsed[c] + n /\ unread'[c] = unread[c] - n
        /\ \A d \in Conn : d # c => parsed'[d] = parsed[d] /\ unread'[d] = unread[d]
      BY <1>0, <2>0 DEF IInv, TypeOK
  <2>3. TypeOK'
      BY <1>0, <2>0, <2>1 DEF IInv, TypeOK
  <2>4. SocketInv'
      BY <1>0, <2>0, <2>1, <2>2 DEF IInv, SocketInv, Parts
  <2>5. CutInv'
      BY <1>0, <2>0, <2>1, <2>2 DEF IInv, CutInv, Parts
  <2> QED  BY <2>0, <2>3, <2>4, <2>5, ReadingOn DEF IInv
<1>2. CASE ~(parsed[c] + n < Parts)
  <2> DEFINE a == IF refused[c] THEN "error" ELSE "own"
  <2>0. /\ Callback(c, a) /\ parsed' = [parsed EXCEPT ![c] = 0]
        /\ state' = [state EXCEPT ![c] = "checking"]
        /\ UNCHANGED <<request_count, tasks, p_task, served, refused, residue, dropped, cut>>
      BY <1>0, <1>2 DEF ReadReply, server
  <2>1. unread[c] - n = 0
      BY <1>0, <1>2 DEF Parts
  <2>2. a \in Answer \ {"foreign"} /\ a \in Answer /\ <<a>> # <<"garbage">>
      BY DEF Answer
  <2> HIDE DEF a
  <2>3. /\ answers' \in [Task -> Seq(Answer)]
        /\ \A t \in Task : answers'[t] = IF t = p_task[c] THEN <<a>> ELSE answers[t]
      BY <1>0, <2>0, <2>2, CalledBack DEF IInv
  <2>4. TypeOK'
      BY <1>0, <2>0, <2>1, <2>3 DEF IInv, TypeOK, State
  <2>5. TasksInv' /\ AnsweredOnce' /\ NoForeignAnswer'
      BY <1>0, <2>0, <2>2, TasksAfterCallback
  <2>6. SocketInv'
      BY <1>0, <2>0, <2>1 DEF IInv, TypeOK, SocketInv, Parts
  <2>7. CutInv'
    <3>1. \A d \in Conn \ cut' :
            /\ residue'[d] = "none"
            /\ state'[d] # "reading" \/ ~served'[d] => unread'[d] = 0
            /\ state'[d] = "reading" /\ served'[d] =>
                parsed'[d] + unread'[d] = Parts /\ ~(p_task'[d] = 0 /\ parsed'[d] = 2)
        BY <1>0, <2>0, <2>1 DEF IInv, TypeOK, CutInv
    <3>2. cut' = {} => \A t \in Task : answers'[t] # <<"garbage">>
        BY <2>0, <2>2, <2>3 DEF IInv, CutInv
    <3> QED  BY <3>1, <3>2 DEF CutInv
  <2> QED  BY <2>4, <2>5, <2>6, <2>7 DEF IInv
<1> QED  BY <1>1, <1>2

(* Only a connection that lost the thread of a reply is ever out of step. *)
LEMMA OutOfStep ==
    ASSUME IInv, NEW c \in Conn, state[c] = "reading", unread[c] > 0, ~InStep(c)
    PROVE  c \in cut
<1>1. SUFFICES ASSUME c \in Conn \ cut
               PROVE  FALSE
    OBVIOUS
<1>2. unread[c] \in 1..5 /\ parsed[c] \in 0..2 /\ served[c] \in BOOLEAN
    BY DEF IInv, TypeOK, SocketInv
<1>3. /\ residue[c] = "none" /\ parsed[c] + unread[c] = 3
      /\ ~(p_task[c] = 0 /\ parsed[c] = 2)
    BY <1>1, <1>2 DEF IInv, CutInv, Parts
<1>4. FrontPart(c) = parsed[c] + 1
    BY <1>2, <1>3, FrontPartOf
<1> QED  BY <1>3, <1>4 DEF InStep

(* What is parsed out of step comes from the reply to this request. *)
LEMMA GarbledOwn ==
    ASSUME IInv, NEW c \in Conn, state[c] = "reading", unread[c] > 0, Garbled(c)
    PROVE  served[c] /\ unread[c] <= 3
<1>1. unread[c] \in 1..5 /\ parsed[c] \in 0..2 /\ residue[c] \in Residue /\ served[c] \in BOOLEAN
    BY DEF IInv, TypeOK, SocketInv
<1>2. residue[c] # "short" /\ (residue[c] = "none" /\ parsed[c] = 0 => FrontPart(c) = 1)
    BY DEF Garbled, WrongMagic
<1>3. CASE residue[c] \in {"garbled", "filled"}
    BY <1>1, <1>3 DEF IInv, SocketInv, Parts
<1>4. CASE residue[c] = "none" /\ parsed[c] = 0
    BY <1>2, <1>4 DEF Garbled, InStep
<1>5. CASE residue[c] = "none" /\ parsed[c] > 0
    BY <1>1, <1>5 DEF IInv, SocketInv, Parts
<1> QED  BY <1>1, <1>2, <1>3, <1>4, <1>5 DEF Residue

LEMMA ReadMoreInv ==
    ASSUME IInv, NEW c \in Conn, NEW n \in 1..unread[c], ReadMore(c, n)
    PROVE  IInv'
<1>0. /\ unread[c] \in 1..5 /\ n \in Nat /\ n >= 1 /\ n <= unread[c] /\ state[c] = "reading"
      /\ c \in cut /\ residue[c] \in Residue
      /\ parsed' = [parsed EXCEPT ![c] = 0] /\ unread' = [unread EXCEPT ![c] = @ - n]
  <2>1. unread[c] \in 1..5 /\ n \in Nat /\ n >= 1 /\ n <= unread[c] /\ residue[c] \in Residue
      BY DEF IInv, TypeOK, SocketInv
  <2> QED  BY <2>1, OutOfStep DEF ReadMore
<1> DEFINE r == IF WrongMagic(c) THEN "short" ELSE IF residue[c] = "filled" THEN "filled" ELSE "garbled"
<1>1. residue' = [residue EXCEPT ![c] = r]
    BY DEF ReadMore
<1>2. r \in Residue /\ (r # "short" => Garbled(c))
    BY DEF Residue, ReadMore, Garbled
<1> HIDE DEF r
<1>3. TypeOK'
    BY <1>0, <1>1, <1>2 DEF ReadMore, server, IInv, TypeOK
<1>4. SocketInv'
  <2>1. r # "short" => served[c] /\ unread[c] <= 3
      BY <1>0, <1>2, GarbledOwn
  <2>2. r # "none"
      BY DEF r
  <2> QED  BY <1>0, <1>1, <2>1, <2>2 DEF ReadMore, server, IInv, TypeOK, SocketInv, Parts
<1>5. CutInv'
    BY <1>0, <1>1 DEF ReadMore, server, IInv, TypeOK, CutInv
<1> QED  BY <1>3, <1>4, <1>5, ReadingOn DEF ReadMore, IInv

LEMMA ReadErrorInv ==
    ASSUME IInv, NEW c \in Conn, unread[c] > 0, ReadError(c)
    PROVE  IInv'
<1>0. /\ state[c] = "reading" /\ Holding(c) /\ c \in cut /\ Callback(c, "empty")
      /\ state' = [state EXCEPT ![c] = "connecting"] /\ unread' = [unread EXCEPT ![c] = 0]
      /\ parsed' = [parsed EXCEPT ![c] = 0]
      /\ UNCHANGED <<request_count, tasks, p_task, served, refused, dropped, cut>>
    BY OutOfStep DEF ReadError, Reset, Holding, server
<1>1. PICK r \in {"garbled", "filled"} : residue' = [residue EXCEPT ![c] = r]
    BY DEF ReadError
<1>2. "empty" \in Answer \ {"foreign"} /\ "empty" \in Answer
    BY DEF Answer
<1>3. answers' \in [Task -> Seq(Answer)]
    BY <1>0, <1>2, CalledBack DEF IInv
<1>4. TypeOK'
    BY <1>0, <1>1, <1>3 DEF IInv, TypeOK, State, Residue
<1>5. TasksInv' /\ AnsweredOnce' /\ NoForeignAnswer'
    BY <1>0, <1>2, TasksAfterCallback
<1>6. SocketInv'
    BY <1>0, <1>1 DEF IInv, TypeOK, SocketInv, Parts
<1>7. CutInv'
    BY <1>0, <1>1 DEF IInv, TypeOK, CutInv
<1> QED  BY <1>4, <1>5, <1>6, <1>7 DEF IInv

LEMMA ReadGarbageInv ==
    ASSUME IInv, NEW c \in Conn, NEW n \in 1..unread[c], ReadGarbage(c, n)
    PROVE  IInv'
<1> DEFINE a == IF residue[c] = "filled" THEN "garbage" ELSE "empty"
<1>0. /\ unread[c] \in 1..5 /\ n \in Nat /\ n >= 1 /\ n <= unread[c]
      /\ state[c] = "reading" /\ Garbled(c) /\ Holding(c) /\ Callback(c, a)
      /\ state' = [state EXCEPT ![c] = "checking"] /\ unread' = [unread EXCEPT ![c] = @ - n]
      /\ parsed' = [parsed EXCEPT ![c] = 0] /\ residue' = [residue EXCEPT ![c] = "none"]
      /\ UNCHANGED <<request_count, tasks, p_task, served, refused, dropped, cut>>
  <2>1. unread[c] \in 1..5 /\ n \in Nat /\ n >= 1 /\ n <= unread[c]
      BY DEF IInv, TypeOK, SocketInv
  <2> QED  BY <2>1 DEF ReadGarbage, Holding, server
<1>1. c \in cut /\ unread[c] <= 3
    BY <1>0, OutOfStep, GarbledOwn DEF Garbled
<1>2. a \in Answer \ {"foreign"} /\ a \in Answer
    BY DEF Answer
<1> HIDE DEF a
<1>3. answers' \in [Task -> Seq(Answer)]
    BY <1>0, <1>2, CalledBack DEF IInv
<1>4. TypeOK'
    BY <1>0, <1>3 DEF IInv, TypeOK, State, Residue
<1>5. TasksInv' /\ AnsweredOnce' /\ NoForeignAnswer'
    BY <1>0, <1>2, TasksAfterCallback
<1>6. SocketInv'
    BY <1>0, <1>1 DEF IInv, TypeOK, SocketInv, Parts
<1>7. CutInv'
    BY <1>0, <1>1 DEF IInv, TypeOK, CutInv
<1> QED  BY <1>4, <1>5, <1>6, <1>7 DEF IInv

LEMMA ReadFailsInv == ASSUME IInv, NEW c \in Conn, ReadFails(c) PROVE IInv'
<1>0. /\ state[c] = "reading" /\ Holding(c) /\ Callback(c, "empty")
      /\ state' = [state EXCEPT ![c] = "connecting"] /\ unread' = [unread EXCEPT ![c] = 0]
      /\ parsed' = [parsed EXCEPT ![c] = 0]
      /\ UNCHANGED <<request_count, tasks, p_task, served, refused, dropped>>
    BY DEF ReadFails, Reset, Holding, server
<1>1. parsed[c] \in 0..2 /\ residue[c] \in Residue
    BY DEF IInv, TypeOK
<1> DEFINE r == IF parsed[c] > 0 THEN "garbled" ELSE residue[c]
<1>2. /\ residue' = [residue EXCEPT ![c] = r] /\ r \in Residue
      /\ cut' = IF parsed[c] > 0 THEN cut \cup {c} ELSE cut
    BY <1>1 DEF ReadFails, Residue
<1>3. c \notin cut' => r = residue[c]
    BY <1>2
<1> HIDE DEF r
<1>4. "empty" \in Answer \ {"foreign"} /\ "empty" \in Answer /\ <<"empty">> # <<"garbage">>
    BY DEF Answer
<1>5. /\ answers' \in [Task -> Seq(Answer)]
      /\ \A t \in Task : answers'[t] = IF t = p_task[c] THEN <<"empty">> ELSE answers[t]
    BY <1>0, <1>4, CalledBack DEF IInv
<1>6. TypeOK'
    BY <1>0, <1>2, <1>5 DEF IInv, TypeOK, State
<1>7. TasksInv' /\ AnsweredOnce' /\ NoForeignAnswer'
    BY <1>0, <1>4, TasksAfterCallback
<1>8. SocketInv'
    BY <1>0, <1>2 DEF IInv, TypeOK, SocketInv, Parts
<1>9. CutInv'
  <2>1. \A d \in Conn \ cut' :
            /\ residue'[d] = "none"
            /\ state'[d] # "reading" \/ ~served'[d] => unread'[d] = 0
            /\ state'[d] = "reading" /\ served'[d] =>
                parsed'[d] + unread'[d] = Parts /\ ~(p_task'[d] = 0 /\ parsed'[d] = 2)
      BY <1>0, <1>2, <1>3 DEF IInv, TypeOK, CutInv
  <2>2. cut' = {} => \A t \in Task : answers'[t] # <<"garbage">>
      BY <1>2, <1>4, <1>5 DEF IInv, CutInv
  <2> QED  BY <2>1, <2>2 DEF CutInv
<1> QED  BY <1>6, <1>7, <1>8, <1>9 DEF IInv

-----------------------------------------------------------------------------
LEMMA InitInv == Init => IInv
<1> SUFFICES ASSUME Init PROVE IInv
    OBVIOUS
<1>1. TypeOK
    BY MaxTasksAssumption DEF Init, TypeOK, State, Residue
<1>2. TasksInv
    BY DEF Init, TasksInv, Holding
<1>3. SocketInv /\ CutInv
    BY DEF Init, SocketInv, CutInv
<1>4. AnsweredOnce /\ NoForeignAnswer
    BY DEF Init, AnsweredOnce, NoForeignAnswer
<1> QED  BY <1>1, <1>2, <1>3, <1>4 DEF IInv

LEMMA NextInv == IInv /\ [Next]_vars => IInv'
<1> SUFFICES ASSUME IInv, [Next]_vars PROVE IInv'
    OBVIOUS
<1>1. CASE SendMessage
    BY <1>1, SendMessageInv
<1>2. CASE \E c \in Conn : \/ TryConnect(c) \/ CheckTasks(c) \/ Write(c) \/ WriteFails(c)
                           \/ Serve(c) \/ Read(c) \/ ReadFails(c)
  <2>1. PICK c \in Conn : \/ TryConnect(c) \/ CheckTasks(c) \/ Write(c) \/ WriteFails(c)
                          \/ Serve(c) \/ Read(c) \/ ReadFails(c)
      BY <1>2
  <2>2. CASE Read(c)
      BY <2>2, ReadReplyInv, ReadMoreInv, ReadGarbageInv, ReadErrorInv DEF Read
  <2> QED  BY <2>1, <2>2, TryConnectInv, CheckTasksInv, WriteInv, WriteFailsInv, ServeInv,
              ReadFailsInv
<1>3. CASE UNCHANGED vars
  <2>1. TypeOK' /\ SocketInv' /\ CutInv'
      BY <1>3 DEF vars, server, response, IInv, TypeOK, SocketInv, CutInv
  <2> QED  BY <1>3, <2>1, ReadingOn DEF vars, IInv
<1> QED  BY <1>1, <1>2, <1>3 DEF Next

(* The invariant of the connections: which parts of which reply a socket and
   a parser may hold, and who holds which task. *)
THEOREM ConnectionInvariance == Spec => []IInv
BY InitInv, NextInv, PTL DEF Spec

(* No callback of send_message is called twice, whatever breaks. *)
THEOREM OneAnswer == Spec => []AnsweredOnce
<1>1. IInv => AnsweredOnce
    BY DEF IInv
<1> QED  BY <1>1, ConnectionInvariance, PTL

(* No caller is given the reply to another request. *)
THEOREM OwnAnswer == Spec => []NoForeignAnswer
<1>1. IInv => NoForeignAnswer
    BY DEF IInv
<1> QED  BY <1>1, ConnectionInvariance, PTL

(* Without a reply broken off, nothing is left over between exchanges. *)
THEOREM NothingLeft == Spec => []ThreadKept
<1>1. IInv => ThreadKept
  <2> SUFFICES ASSUME IInv PROVE ThreadKept
      OBVIOUS
  <2>1. ASSUME NEW c \in Conn \ cut
        PROVE  residue[c] = "none" /\ ~Stuck(c) /\ (state[c] # "reading" => unread[c] = 0)
    <3>1. residue[c] = "none" /\ parsed[c] \in 0..2 /\ (state[c] # "reading" => unread[c] = 0)
        BY DEF IInv, TypeOK, CutInv
    <3>2. state[c] = "reading" /\ served[c] => parsed[c] + unread[c] = 3
        BY DEF IInv, CutInv, Parts
    <3>3. ~Stuck(c)
        BY <3>1, <3>2 DEF Stuck
    <3> QED  BY <3>1, <3>3
  <2>2. cut = {} => \A t \in Task : answers[t] # <<"garbage">>
      BY DEF IInv, CutInv
  <2> QED  BY <2>1, <2>2 DEF ThreadKept
<1> QED  BY <1>1, ConnectionInvariance, PTL
-----------------------------------------------------------------------------
(* The client implements Requests: each step sends a request, breaks a
   reply off, settles the one request of a connection, or shows nothing. *)
Outcome ==
    [t \in Task |-> IF t \in dropped THEN Append(answers[t], "lost") ELSE answers[t]]

Settled == {"own", "error", "empty", "garbage", "lost"}

LEMMA ClientInit == Init => Client!Init
<1> SUFFICES ASSUME Init PROVE Client!Init
    OBVIOUS
<1>1. Outcome = [t \in Task |-> << >>]
    BY DEF Init, Outcome
<1>2. request_count = 0 /\ (cut # {}) = FALSE
    BY DEF Init
<1> QED  BY <1>1, <1>2 DEF Client!Init, Outcome, Task

(* A step with the same requests, answers and losses shows nothing, or that
   a reply was broken off. *)
LEMMA Unseen ==
    ASSUME cut \subseteq cut', UNCHANGED <<request_count, answers, dropped>>
    PROVE  [Client!Next]_Client!vars
<1>1. Outcome' = Outcome
    BY DEF Outcome
<1>2. CASE (cut' # {}) = (cut # {})
    BY <1>1, <1>2 DEF Client!vars, Outcome
<1>3. CASE (cut' # {}) # (cut # {})
  <2>1. (cut' # {}) = TRUE
      BY <1>3
  <2> QED  BY <1>1, <2>1 DEF Client!Next, Client!Break, Outcome
<1> QED  BY <1>2, <1>3

(* A request in an exchange is settled for good. *)
LEMMA SettlesOne ==
    ASSUME IInv, NEW c \in Conn, Holding(c), NEW a \in Settled,
           \A t \in Task : Outcome'[t] = IF t = p_task[c] THEN <<a>> ELSE Outcome[t],
           a = "garbage" => cut # {}, cut \subseteq cut', request_count' = request_count
    PROVE  Client!Next
<1> DEFINE p == p_task[c]
<1>1. p \in Task /\ p < request_count /\ Outcome[p] = << >>
    BY DEF IInv, TasksInv, Outcome
<1>2. Outcome' = [Outcome EXCEPT ![p] = <<a>>]
  <2>1. Outcome' = [t \in Task |-> Outcome'[t]] /\ Outcome = [t \in Task |-> Outcome[t]]
      BY DEF Outcome
  <2> QED  BY <1>1, <2>1
<1>3. (cut' # {}) \in {cut # {}, TRUE}
    BY DEF IInv
<1>4. Client!Settle(p, a)
    BY <1>1, <1>2, <1>3 DEF Client!Settle, Outcome
<1>5. p \in 0..(MAX_TASKS - 1)
    BY <1>1 DEF Task
<1> QED  BY <1>4, <1>5 DEF Client!Next, Settled

(* A callback settles the request of the connection. *)
LEMMA CallbackSettles ==
    ASSUME IInv, NEW c \in Conn, Holding(c), NEW a \in Answer \ {"foreign"}, Callback(c, a),
           a = "garbage" => cut # {}, cut \subseteq cut',
           UNCHANGED <<request_count, dropped>>
    PROVE  Client!Next
<1>1. \A t \in Task : answers'[t] = IF t = p_task[c] THEN <<a>> ELSE answers[t]
    BY CalledBack DEF IInv
<1>2. p_task[c] \in Task /\ p_task[c] \notin dropped
    BY DEF IInv, TasksInv
<1>3. \A t \in Task : Outcome'[t] = IF t = p_task[c] THEN <<a>> ELSE Outcome[t]
    BY <1>1, <1>2 DEF Outcome
<1>4. a \in Settled
    BY DEF Answer, Settled
<1> QED  BY <1>3, <1>4, SettlesOne

LEMMA SendShown == ASSUME IInv, SendMessage PROVE Client!Next
<1>1. Outcome' = Outcome
    BY DEF SendMessage, Outcome
<1> QED  BY <1>1 DEF SendMessage, Client!Next, Client!Send, Outcome

LEMMA WriteFailsShown ==
    ASSUME IInv, NEW c \in Conn, WriteFails(c)
    PROVE  Client!Next
<1>1. Holding(c) /\ "lost" \in Settled /\ "lost" # "garbage"
    BY DEF WriteFails, Holding, Settled
<1>2. p_task[c] \in Task /\ answers[p_task[c]] = << >>
    BY <1>1 DEF IInv, TasksInv
<1>3. dropped' = dropped \cup {p_task[c]} /\ answers' = answers /\ cut' = cut
      /\ request_count' = request_count
    BY DEF WriteFails
<1>4. Append(<< >>, "lost") = <<"lost">>
    OBVIOUS
<1>5. \A t \in Task : Outcome'[t] = IF t = p_task[c] THEN <<"lost">> ELSE Outcome[t]
    BY <1>2, <1>3, <1>4 DEF Outcome
<1> QED  BY <1>1, <1>3, <1>5, SettlesOne

LEMMA ReadShown ==
    ASSUME IInv, NEW c \in Conn, Read(c)
    PROVE  [Client!Next]_Client!vars
<1>0. state[c] = "reading" => Holding(c)
    BY DEF Holding
<1>1. ASSUME NEW n \in 1..unread[c], ReadReply(c, n)
      PROVE  [Client!Next]_Client!vars
  <2>1. CASE parsed[c] + n < Parts
    <3>1. cut \subseteq cut' /\ UNCHANGED <<request_count, answers, dropped>>
        BY <1>1, <2>1 DEF ReadReply
    <3> QED  BY <3>1, Unseen
  <2>2. CASE ~(parsed[c] + n < Parts)
    <3>1. unread[c] > 0 /\ state[c] = "reading" /\ InStep(c)
        BY <1>1 DEF ReadReply, IInv, TypeOK
    <3>2. OwnReply(c)
        BY <3>1, InStepWhole
    <3> DEFINE a == IF refused[c] THEN "error" ELSE "own"
    <3>3. Callback(c, a) /\ UNCHANGED <<request_count, dropped, cut>>
        BY <1>1, <2>2, <3>2 DEF ReadReply
    <3>4. a \in Answer \ {"foreign"} /\ a # "garbage"
        BY DEF Answer
    <3> HIDE DEF a
    <3> QED  BY <1>0, <3>1, <3>3, <3>4, CallbackSettles
  <2> QED  BY <2>1, <2>2
<1>2. ASSUME NEW n \in 1..unread[c], ReadMore(c, n)
      PROVE  [Client!Next]_Client!vars
  <2>1. cut \subseteq cut' /\ UNCHANGED <<request_count, answers, dropped>>
      BY <1>2 DEF ReadMore
  <2> QED  BY <2>1, Unseen
<1>3. ASSUME NEW n \in 1..unread[c], ReadGarbage(c, n)
      PROVE  [Client!Next]_Client!vars
  <2> DEFINE a == IF residue[c] = "filled" THEN "garbage" ELSE "empty"
  <2>1. state[c] = "reading" /\ Callback(c, a) /\ UNCHANGED <<request_count, dropped, cut>>
      BY <1>3 DEF ReadGarbage
  <2>2. a = "garbage" => cut # {}
      BY DEF IInv, CutInv
  <2>3. a \in Answer \ {"foreign"}
      BY DEF Answer
  <2> HIDE DEF a
  <2> QED  BY <1>0, <2>1, <2>2, <2>3, CallbackSettles
<1>4. ASSUME ReadError(c)
      PROVE  [Client!Next]_Client!vars
  <2>1. state[c] = "reading" /\ Callback(c, "empty") /\ UNCHANGED <<request_count, dropped, cut>>
      BY <1>4 DEF ReadError
  <2>2. "empty" \in Answer \ {"foreign"} /\ "empty" # "garbage"
      BY DEF Answer
  <2> QED  BY <1>0, <2>1, <2>2, CallbackSettles
<1> QED  BY <1>1, <1>2, <1>3, <1>4 DEF Read

LEMMA ReadFailsShown ==
    ASSUME IInv, NEW c \in Conn, ReadFails(c)
    PROVE  Client!Next
<1>1. Holding(c) /\ Callback(c, "empty") /\ UNCHANGED <<request_count, dropped>>
      /\ cut \subseteq cut'
    BY DEF ReadFails, Holding
<1>2. "empty" \in Answer \ {"foreign"} /\ "empty" # "garbage"
    BY DEF Answer
<1> QED  BY <1>1, <1>2, CallbackSettles

LEMMA ClientStep == IInv /\ [Next]_vars => [Client!Next]_Client!vars
<1> SUFFICES ASSUME IInv, [Next]_vars PROVE [Client!Next]_Client!vars
    OBVIOUS
<1>1. CASE SendMessage
    BY <1>1, SendShown
<1>2. ASSUME NEW c \in Conn, TryConnect(c) \/ CheckTasks(c) \/ Write(c) \/ Serve(c)
      PROVE  [Client!Next]_Client!vars
  <2>1. UNCHANGED <<request_count, answers, dropped, cut>>
      BY <1>2 DEF TryConnect, CheckTasks, Write, Serve
  <2> QED  BY <2>1, Unseen
<1>3. ASSUME NEW c \in Conn, WriteFails(c) \/ Read(c) \/ ReadFails(c)
      PROVE  [Client!Next]_Client!vars
    BY <1>3, WriteFailsShown, ReadShown, ReadFailsShown
<1>4. CASE UNCHANGED vars
    BY <1>4, Unseen DEF vars
<1> QED  BY <1>1, <1>2, <1>3, <1>4 DEF Next

(* What becomes of a request, seen from outside: at most one outcome, which
   never changes, and never the reply to another request. *)
THEOREM ClientImplementsRequests == Spec => ImplementsRequests
BY ClientInit, ClientStep, ConnectionInvariance, PTL DEF Spec, ImplementsRequests, Client!Spec
=============================================================================
