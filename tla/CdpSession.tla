----------------------------- MODULE CdpSession -----------------------------
(***************************************************************************)
(* One connection to the page's debugger (cdpSession in bridge.go).  Any   *)
(* number of goroutines send commands over it; one goroutine reads and     *)
(* hands every response to the command that waits for it, through a        *)
(* channel that holds one.  A command also gives up after a time, and      *)
(* the connection may end under all of them.                               *)
(*                                                                         *)
(* The peer, Chromium, answers a command at most once, in any order, or    *)
(* never, and sends events of the page's binding in between; the handler   *)
(* of an event is a goroutine that sends a command itself.                 *)
(***************************************************************************)
EXTENDS Naturals, FiniteSets

CONSTANTS
    Commands,     \* goroutines that send a command
    Handlers,     \* those of them that a binding event starts
    NoCommand

ASSUME CommandAssumption == Handlers \subseteq Commands /\ NoCommand \notin Commands

VARIABLES
    nextID, pending,   \* pending: from ids to the commands whose channel they hold
    command,           \* the goroutines
    writer,            \* the one that holds writeMu
    channel,           \* what lies in a command's channel
    reading,           \* the response readLoop is about to hand over
    readerEnded,
    wire               \* ids the peer may still answer

cdpVars == <<nextID, pending, command, writer, channel, reading, readerEnded, wire>>

NoResponse == 0
Nothing == [id |-> NoResponse, to |-> NoCommand]
Unsent == [stage |-> "unsent", id |-> NoResponse, got |-> NoResponse, result |-> "none"]

CdpInit ==
    /\ nextID = 1 /\ pending = << >>
    /\ command = [c \in Commands |->
                    [Unsent EXCEPT !.stage = IF c \in Handlers THEN "unstarted" ELSE @]]
    /\ writer = NoCommand
    /\ channel = [c \in Commands |-> NoResponse]
    /\ reading = Nothing /\ readerEnded = FALSE /\ wire = {}

Without(id) == [i \in DOMAIN pending \ {id} |-> pending[i]]

\* readLoop got a binding event and starts handleBinding, whose handler ends
\* with the command that resolves the page's call.
BindingCalled(c) ==
    /\ ~readerEnded /\ reading = Nothing
    /\ command[c].stage = "unstarted"
    /\ command' = [command EXCEPT ![c].stage = "unsent"]
    /\ UNCHANGED <<nextID, pending, writer, channel, reading, readerEnded, wire>>

\* send: the id and the channel, under mu.
Register(c) ==
    /\ command[c].stage = "unsent"
    /\ command' = [command EXCEPT ![c].stage = "registered", ![c].id = nextID]
    /\ pending' = [i \in DOMAIN pending \cup {nextID} |-> IF i = nextID THEN c ELSE pending[i]]
    /\ nextID' = nextID + 1
    /\ UNCHANGED <<writer, channel, reading, readerEnded, wire>>

LockWrite(c) ==
    /\ command[c].stage = "registered" /\ writer = NoCommand /\ writer' = c
    /\ command' = [command EXCEPT ![c].stage = "writing"]
    /\ UNCHANGED <<nextID, pending, channel, reading, readerEnded, wire>>

\* WriteJSON succeeds, or fails as it must when the connection is closed.
Written(c) ==
    /\ command[c].stage = "writing" /\ writer' = NoCommand
    /\ \/ /\ ~readerEnded /\ wire' = wire \cup {command[c].id}
          /\ command' = [command EXCEPT ![c].stage = "waiting"]
       \/ /\ command' = [command EXCEPT ![c].stage = "leaving", ![c].result = "write"]
          /\ UNCHANGED wire
    /\ UNCHANGED <<nextID, pending, channel, reading, readerEnded>>

\* The select: a response, or the time or the context has run out.  Both may
\* be there, then either is taken.
ResponseCame(c) ==
    /\ command[c].stage = "waiting" /\ channel[c] # NoResponse
    /\ command' = [command EXCEPT ![c].stage = "ended", ![c].result = "ok", ![c].got = channel[c]]
    /\ channel' = [channel EXCEPT ![c] = NoResponse]
    /\ UNCHANGED <<nextID, pending, writer, reading, readerEnded, wire>>

TimeOut(c) ==
    /\ command[c].stage = "waiting"
    /\ command' = [command EXCEPT ![c].stage = "leaving", ![c].result = "timeout"]
    /\ UNCHANGED <<nextID, pending, writer, channel, reading, readerEnded, wire>>

\* Mutant of Forget: the entry of a command that gave up stays.
ForgetNothing(c) ==
    /\ command[c].stage = "leaving"
    /\ command' = [command EXCEPT ![c].stage = "ended"]
    /\ UNCHANGED <<nextID, pending, writer, channel, reading, readerEnded, wire>>

\* The command that failed or gave up removes its entry, under mu.
Forget(c) ==
    /\ command[c].stage = "leaving"
    /\ command' = [command EXCEPT ![c].stage = "ended"]
    /\ pending' = Without(command[c].id)
    /\ UNCHANGED <<nextID, writer, channel, reading, readerEnded, wire>>

\* readLoop: ReadJSON, and the entry taken under mu; an answer that nobody
\* waits for any more is dropped.
ReadResponse(id) ==
    /\ ~readerEnded /\ reading = Nothing
    /\ wire' = wire \ {id}
    /\ IF id \in DOMAIN pending
       THEN reading' = [id |-> id, to |-> pending[id]] /\ pending' = Without(id)
       ELSE UNCHANGED <<reading, pending>>
    /\ UNCHANGED <<nextID, command, writer, channel, readerEnded>>

\* The response goes into the channel, which holds one.
HandOver ==
    /\ reading # Nothing /\ channel[reading.to] = NoResponse
    /\ channel' = [channel EXCEPT ![reading.to] = reading.id]
    /\ reading' = Nothing
    /\ UNCHANGED <<nextID, pending, command, writer, readerEnded, wire>>

\* ReadJSON fails: the page is gone, or installBridge closed the connection.
\* The commands that wait are left to their timers.
ReaderEnds ==
    /\ ~readerEnded /\ reading = Nothing /\ readerEnded' = TRUE /\ wire' = {}
    /\ UNCHANGED <<nextID, pending, command, writer, channel, reading>>

CdpQuiet ==
    /\ \A c \in Commands : command[c].stage \in {"ended", "unstarted"}
    /\ readerEnded /\ UNCHANGED cdpVars

CdpNext ==
    \/ \E c \in Commands :
          \/ BindingCalled(c) \/ Register(c) \/ LockWrite(c) \/ Written(c)
          \/ ResponseCame(c) \/ TimeOut(c) \/ Forget(c)
    \/ \E id \in wire : ReadResponse(id)
    \/ HandOver \/ ReaderEnds \/ CdpQuiet

CdpSpec == CdpInit /\ [][CdpNext]_cdpVars

------------------------------------------------------------------------------
\* Every command gets its own answer or none, whatever order the answers come
\* in and however late; a command that ended leaves nothing behind in the
\* table, and the reader never finds a channel full, so that it cannot be held
\* up by a command that gave up (send and readLoop).
CommandsEndTidily ==
    /\ \A c \in Commands :
          /\ command[c].result = "ok" => command[c].got = command[c].id
          /\ command[c].stage = "ended" => \A i \in DOMAIN pending : pending[i] # c
    /\ reading # Nothing => channel[reading.to] = NoResponse

\* What a proof of it needs.  The fields keep their types.
CommandStages ==
    {"unstarted", "unsent", "registered", "writing", "waiting", "leaving", "ended"}
CommandType ==
    [stage : CommandStages, id : Nat, got : Nat, result : {"none", "ok", "timeout", "write"}]
CdpTypeOK ==
    /\ nextID \in Nat \ {0}
    /\ \A i \in DOMAIN pending : i \in 1 .. nextID - 1 /\ pending[i] \in Commands
    /\ command \in [Commands -> CommandType]
    /\ writer \in Commands \cup {NoCommand}
    /\ channel \in [Commands -> Nat]
    /\ reading \in [id : Nat, to : Commands \cup {NoCommand}]
    /\ readerEnded \in BOOLEAN
    /\ wire \subseteq Nat

\* A command has an entry from its registration until the reader takes it or the
\* command removes it; its response is the reader's, in its channel, or nowhere,
\* and there at most once.
EntriesAreOpen ==
    \A i \in DOMAIN pending :
        LET c == pending[i]
        IN  /\ command[c].id = i /\ command[c].stage \in {"registered", "writing", "waiting", "leaving"}
            /\ channel[c] = NoResponse /\ reading.to # c
ResponsesAreOwn ==
    /\ reading # Nothing =>
          /\ reading.to \in Commands /\ reading.id = command[reading.to].id
          /\ reading.id # NoResponse /\ channel[reading.to] = NoResponse
    /\ \A c \in Commands : channel[c] # NoResponse => channel[c] = command[c].id
    /\ \A c \in Commands : command[c].stage \in {"unstarted", "unsent"} =>
          channel[c] = NoResponse /\ reading.to # c /\ command[c].result = "none"
    /\ \A c \in Commands : command[c].result = "ok" =>
          command[c].got = command[c].id /\ command[c].stage = "ended"
CdpIInv == CdpTypeOK /\ EntriesAreOpen /\ ResponsesAreOwn
=============================================================================
