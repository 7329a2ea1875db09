--------------------------- MODULE ClientConnection ---------------------------
(***************************************************************************)
(* One core's client for another core: connections that take tasks from    *)
(* one queue, each for one exchange at a time: write the request, read the *)
(* reply, call the caller back, take the next task.  A connection that     *)
(* fails is replaced (reset), but the response that was being parsed is    *)
(* kept: what came of the broken reply stays in front of the next one.     *)
(*                                                                         *)
(* A reply comes in three parts: up to its id, from the id on, its end; a  *)
(* read takes as many as have come.  Where the parser is out of step with  *)
(* the replies it takes their bytes for sizes, keys and signatures, and    *)
(* all that parse may then return is possible, but no signature is right.  *)
(***************************************************************************)
EXTENDS Integers, Sequences

CONSTANTS
    Conn,      \* the sockets of meta_client
    MAX_TASKS  \* bound: requests sent

ASSUME MaxTasksAssumption == MAX_TASKS \in Nat

(* A task is known by its request_id; they count from 0. *)
Task == 0..(MAX_TASKS - 1)

VARIABLES
    request_count,
    tasks,      \* the queue
    state,      \* what a connection waits for
    p_task,     \* the task it took last
    served,     \* whether the server replied to it
    refused,    \* whether with an error, after which the server closes
    unread,     \* parts of replies in the socket
    parsed,     \* parts of the reply in response
    residue,    \* what else is in response
    answers,    \* what the callback of each task was called with
    dropped,    \* history: tasks whose request could not be written
    cut         \* history: connections that lost the thread of a reply

server == <<served, refused>>
response == <<parsed, residue>>
vars == <<request_count, tasks, state, p_task, server, unread, response, answers,
          dropped, cut>>

Parts == 3

State == {"connecting", "checking", "writing", "reading"}

(* Nothing; too few bytes to tell that they are wrong; bytes read at wrong
   places; a message whose signature was found wrong. *)
Residue == {"none", "short", "garbled", "filled"}

Answer == {"own", "error", "foreign", "empty", "garbage"}

-----------------------------------------------------------------------------
SendMessage ==
    /\ request_count < MAX_TASKS
    /\ request_count' = request_count + 1
    /\ tasks' = tasks \cup {request_count}
    /\ UNCHANGED <<state, p_task, server, unread, response, answers, dropped, cut>>

TryConnect(c) ==
    /\ state[c] = "connecting"
    /\ state' = [state EXCEPT ![c] = "checking"]
    /\ refused' = [refused EXCEPT ![c] = FALSE]
    /\ UNCHANGED <<request_count, tasks, p_task, served, unread, response, answers,
                   dropped, cut>>

CheckTasks(c) ==
    /\ state[c] = "checking"
    /\ \E t \in tasks :
        /\ tasks' = tasks \ {t}
        /\ p_task' = [p_task EXCEPT ![c] = t]
    /\ state' = [state EXCEPT ![c] = "writing"]
    /\ served' = [served EXCEPT ![c] = FALSE]
    /\ UNCHANGED <<request_count, refused, unread, response, answers, dropped, cut>>

Write(c) ==
    /\ state[c] = "writing"
    /\ state' = [state EXCEPT ![c] = "reading"]
    /\ UNCHANGED <<request_count, tasks, p_task, server, unread, response, answers,
                   dropped, cut>>

(* Mutant: the old socket is kept. *)
ResetSocketKept(c) ==
    /\ state' = [state EXCEPT ![c] = "connecting"]
    /\ UNCHANGED unread

Reset(c) ==
    /\ state' = [state EXCEPT ![c] = "connecting"]
    /\ unread' = [unread EXCEPT ![c] = 0]

(* The request is gone: nobody is told, and it is not sent again. *)
WriteFails(c) ==
    /\ state[c] = "writing"
    /\ Reset(c)
    /\ dropped' = dropped \cup {p_task[c]}
    /\ UNCHANGED <<request_count, tasks, p_task, server, response, answers, cut>>

(* The server's Connection: one reply to one request.  After one that tells
   of an unknown sender or a wrong signature it closes. *)
Serve(c) ==
    /\ state[c] = "reading" /\ ~served[c] /\ ~refused[c]
    /\ served' = [served EXCEPT ![c] = TRUE]
    /\ \E r \in BOOLEAN : refused' = [refused EXCEPT ![c] = r]
    /\ unread' = [unread EXCEPT ![c] = @ + Parts]
    /\ UNCHANGED <<request_count, tasks, state, p_task, response, answers, dropped, cut>>

-----------------------------------------------------------------------------
(* read and Response::parse.  The replies in a socket are whole, but for   *)
(* the first, and the last is the one to p_task, if the server replied.    *)
FrontPart(c) == Parts - ((unread[c] - 1) % Parts)

OwnReply(c) == served[c] /\ unread[c] <= Parts

Callback(c, answer) == answers' = [answers EXCEPT ![p_task[c]] = Append(@, answer)]

(* Mutant: the id of any reply is read again. *)
InStepNoId(c) ==
    residue[c] = "none" /\ FrontPart(c) = parsed[c] + 1 /\ parsed[c] # 2

(* The parser is where the reply is.  An id of 0 counts as one that was not
   read yet: the next call of parse reads it again, from the wrong place. *)
InStep(c) ==
    /\ residue[c] = "none" /\ FrontPart(c) = parsed[c] + 1
    /\ ~(p_task[c] = 0 /\ parsed[c] = 2)

ReadReply(c, n) ==
    /\ state[c] = "reading" /\ InStep(c)
    /\ unread' = [unread EXCEPT ![c] = @ - n]
    /\ IF parsed[c] + n < Parts
       THEN /\ parsed' = [parsed EXCEPT ![c] = @ + n]
            /\ cut' = IF p_task[c] = 0 /\ parsed[c] + n = 2 THEN cut \cup {c} ELSE cut
            /\ UNCHANGED <<state, answers>>
       ELSE /\ Callback(c, IF ~OwnReply(c) THEN "foreign"
                           ELSE IF refused[c] THEN "error" ELSE "own")
            /\ parsed' = [parsed EXCEPT ![c] = 0]
            /\ state' = [state EXCEPT ![c] = "checking"]
            /\ UNCHANGED cut
    /\ UNCHANGED <<request_count, tasks, p_task, server, residue, dropped>>

(* The first bytes are not a magic number. *)
WrongMagic(c) ==
    \/ residue[c] = "short"
    \/ residue[c] = "none" /\ parsed[c] = 0 /\ FrontPart(c) # 1

Garbled(c) == ~InStep(c) /\ ~WrongMagic(c)

(* INCOMPLETE: the connection waits for more. *)
ReadMore(c, n) ==
    /\ state[c] = "reading"
    /\ ~InStep(c)
    /\ residue' = [residue EXCEPT ![c] =
            IF WrongMagic(c) THEN "short" ELSE IF @ = "filled" THEN @ ELSE "garbled"]
    /\ parsed' = [parsed EXCEPT ![c] = 0]
    /\ unread' = [unread EXCEPT ![c] = @ - n]
    /\ UNCHANGED <<request_count, tasks, state, p_task, server, answers, dropped, cut>>

(* WRONG_MAGIC_NUMBER or UNKNOWN_SENDER_METAHASH_ADDRESS, or INVALID_SIGN,
   after which the message counts as read. *)
ReadError(c) ==
    /\ state[c] = "reading"
    /\ ~InStep(c) /\ residue[c] # "filled"
    /\ Callback(c, "empty")
    /\ Reset(c)
    /\ parsed' = [parsed EXCEPT ![c] = 0]
    /\ \E r \in {"garbled"} \cup IF WrongMagic(c) THEN {} ELSE {"filled"} :
        residue' = [residue EXCEPT ![c] = r]
    /\ UNCHANGED <<request_count, tasks, p_task, server, dropped, cut>>

(* SUCCESS: with the message that was refused, or with none, by a size that
   was read as 0.  The rest of the reply stays in the socket. *)
ReadGarbage(c, n) ==
    /\ state[c] = "reading" /\ Garbled(c)
    /\ Callback(c, IF residue[c] = "filled" THEN "garbage" ELSE "empty")
    /\ state' = [state EXCEPT ![c] = "checking"]
    /\ residue' = [residue EXCEPT ![c] = "none"]
    /\ parsed' = [parsed EXCEPT ![c] = 0]
    /\ unread' = [unread EXCEPT ![c] = @ - n]
    /\ UNCHANGED <<request_count, tasks, p_task, server, dropped, cut>>

Read(c) ==
    \/ \E n \in 1..unread[c] : ReadReply(c, n) \/ ReadMore(c, n) \/ ReadGarbage(c, n)
    \/ unread[c] > 0 /\ ReadError(c)

(* Mutant: the request is sent again, by the next connection that is free. *)
ReadFailsRetry(c) ==
    /\ state[c] = "reading"
    /\ Callback(c, "empty")
    /\ Reset(c)
    /\ tasks' = tasks \cup {p_task[c]}
    /\ parsed' = [parsed EXCEPT ![c] = 0]
    /\ residue' = [residue EXCEPT ![c] = IF parsed[c] > 0 THEN "garbled" ELSE @]
    /\ cut' = IF parsed[c] > 0 THEN cut \cup {c} ELSE cut
    /\ UNCHANGED <<request_count, p_task, server, dropped>>

(* Mutant: the caller is not told. *)
ReadFailsQuiet(c) ==
    /\ state[c] = "reading"
    /\ Reset(c)
    /\ parsed' = [parsed EXCEPT ![c] = 0]
    /\ residue' = [residue EXCEPT ![c] = IF parsed[c] > 0 THEN "garbled" ELSE @]
    /\ cut' = IF parsed[c] > 0 THEN cut \cup {c} ELSE cut
    /\ UNCHANGED <<request_count, tasks, p_task, server, answers, dropped>>

(* The connection breaks, or the server closed it.  The parts that were
   parsed stay in response, and the rest of that reply will not come. *)
ReadFails(c) ==
    /\ state[c] = "reading"
    /\ Callback(c, "empty")
    /\ Reset(c)
    /\ parsed' = [parsed EXCEPT ![c] = 0]
    /\ residue' = [residue EXCEPT ![c] = IF parsed[c] > 0 THEN "garbled" ELSE @]
    /\ cut' = IF parsed[c] > 0 THEN cut \cup {c} ELSE cut
    /\ UNCHANGED <<request_count, tasks, p_task, server, dropped>>

-----------------------------------------------------------------------------
Init ==
    /\ request_count = 0
    /\ tasks = {}
    /\ state = [c \in Conn |-> "connecting"]
    /\ p_task = [c \in Conn |-> 0]
    /\ served = [c \in Conn |-> FALSE]
    /\ refused = [c \in Conn |-> FALSE]
    /\ unread = [c \in Conn |-> 0]
    /\ parsed = [c \in Conn |-> 0]
    /\ residue = [c \in Conn |-> "none"]
    /\ answers = [t \in Task |-> << >>]
    /\ dropped = {}
    /\ cut = {}

Next ==
    \/ SendMessage
    \/ \E c \in Conn :
        \/ TryConnect(c) \/ CheckTasks(c) \/ Write(c) \/ WriteFails(c)
        \/ Serve(c) \/ Read(c) \/ ReadFails(c)

Spec == Init /\ [][Next]_vars

-----------------------------------------------------------------------------
(* A callback is called once at most (send_with_return sets a promise in
   it), and not for a request that waits or was dropped. *)
AnsweredOnce ==
    \A t \in Task :
        /\ Len(answers[t]) <= 1
        /\ answers[t] # << >> => t \notin tasks \cup dropped

(* No request is answered with the reply to another one: what is left of a
   reply in a socket never holds its beginning, and reset leaves it there. *)
NoForeignAnswer == \A t \in Task : answers[t] # <<"foreign">>

(* A connection that waits for a reply it has read already. *)
Stuck(c) ==
    state[c] = "reading" /\ served[c] /\ ~refused[c] /\ unread[c] = 0

(* As long as no reply was broken off half-way, and the first reply came in
   one piece from its id on, nothing is left over between two exchanges:
   no connection waits for ever, and no caller gets garbage. *)
ThreadKept ==
    /\ \A c \in Conn \ cut :
        /\ residue[c] = "none" /\ ~Stuck(c)
        /\ state[c] # "reading" => unread[c] = 0
    /\ cut = {} => \A t \in Task : answers[t] # <<"garbage">>

(* The client implements Requests: what has come of a request is what its
   callback was called with, or that it was dropped; and never changes. *)
Client == INSTANCE Requests WITH
    sent <- request_count,
    outcome <- [t \in Task |->
                    IF t \in dropped THEN Append(answers[t], "lost") ELSE answers[t]],
    broken <- (cut # {})

ImplementsRequests == Client!Spec

-----------------------------------------------------------------------------
(* Liveness.  Timers fire, the server replies, bytes arrive, and a socket  *)
(* that the server closed ends; no reply has a deadline.                   *)
Fairness ==
    \A c \in Conn :
        /\ WF_vars(TryConnect(c)) /\ WF_vars(CheckTasks(c))
        /\ WF_vars(Write(c) \/ WriteFails(c))
        /\ WF_vars(Serve(c)) /\ WF_vars(Read(c))
        /\ WF_vars(refused[c] /\ unread[c] = 0 /\ ReadFails(c))

FairSpec == Spec /\ Fairness

(* Each request is answered, or dropped by a failed write, or waits on a
   connection that is stuck, or behind connections that all are. *)
AllAnswered ==
    \A t \in Task : t < request_count ~>
        \/ answers[t] # << >> \/ t \in dropped
        \/ \E c \in Conn : Stuck(c) /\ p_task[c] = t
        \/ \A c \in Conn : Stuck(c)

-----------------------------------------------------------------------------
(* The inductive invariant behind the safety properties. *)
TypeOK ==
    /\ request_count \in 0..MAX_TASKS
    /\ tasks \subseteq Task
    /\ state \in [Conn -> State]
    /\ p_task \in [Conn -> Nat]
    /\ served \in [Conn -> BOOLEAN] /\ refused \in [Conn -> BOOLEAN]
    /\ unread \in [Conn -> Nat]
    /\ parsed \in [Conn -> 0..2]
    /\ residue \in [Conn -> Residue]
    /\ answers \in [Task -> Seq(Answer)]
    /\ dropped \subseteq Task
    /\ cut \subseteq Conn

(* The task of a connection in an exchange is its own and not answered. *)
Holding(c) == state[c] \in {"writing", "reading"}

TasksInv ==
    /\ \A t \in tasks \cup dropped : t < request_count /\ answers[t] = << >>
    /\ tasks \cap dropped = {}
    /\ \A t \in Task : t >= request_count => answers[t] = << >>
    /\ \A c \in Conn : Holding(c) =>
        /\ p_task[c] \in Task /\ p_task[c] < request_count
        /\ p_task[c] \notin tasks \cup dropped
        /\ answers[p_task[c]] = << >>
        /\ \A d \in Conn : d # c /\ Holding(d) => p_task[d] # p_task[c]

(* At most two parts are left of an older reply, and none when the parser
   is within a reply or out of step; the socket is new after a reset. *)
SocketInv ==
    \A c \in Conn :
        /\ state[c] = "connecting" => unread[c] = 0
        /\ state[c] # "reading" => parsed[c] = 0 /\ unread[c] <= 2
        /\ state[c] = "writing" => ~served[c]
        /\ ~served[c] => parsed[c] = 0
        /\ state[c] = "reading" /\ ~served[c] => unread[c] <= 2
        /\ unread[c] <= 5
        /\ parsed[c] > 0 => residue[c] = "none" /\ parsed[c] + unread[c] = Parts
        /\ residue[c] \in {"garbled", "filled"} =>
            IF state[c] = "reading" /\ served[c] THEN unread[c] <= Parts ELSE unread[c] = 0

(* What a connection outside cut has read and not read is one reply. *)
CutInv ==
    /\ \A c \in Conn \ cut :
        /\ residue[c] = "none"
        /\ state[c] # "reading" \/ ~served[c] => unread[c] = 0
        /\ state[c] = "reading" /\ served[c] =>
            parsed[c] + unread[c] = Parts /\ ~(p_task[c] = 0 /\ parsed[c] = 2)
    /\ cut = {} => \A t \in Task : answers[t] # <<"garbage">>

IInv == TypeOK /\ TasksInv /\ SocketInv /\ CutInv /\ AnsweredOnce /\ NoForeignAnswer
=============================================================================
