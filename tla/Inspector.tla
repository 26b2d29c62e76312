------------------------------ MODULE Inspector ------------------------------
(***************************************************************************)
(* net/inspect/Inspector.cc: commands that are added under mutex_ by any   *)
(* thread and looked up by requests, without it.  A request that looks a   *)
(* command up while add() is under way finds the maps as they are between  *)
(* two of its assignments (a map whose tree is just being changed is       *)
(* undefined behaviour, and left out); a command is added once.  A path is *)
(* a sequence of characters.                                               *)
(***************************************************************************)
EXTENDS Connections, TLC

CONSTANTS
  Paths,        \* the paths that are requested
  Commands,     \* what is added: pairs of a module and a command
  Adders,       \* threads that call add()
  MaxGets       \* bound: requests

\* split() that takes what is between two slashes, also when it is nothing.
splitAll(path) ==
  FoldLeft(LAMBDA parts, ch : IF ch = "/" THEN Append(parts, <<>>)
                              ELSE Append(Front(parts), Append(Last(parts), ch)),
           << <<>> >>, path)

\* split(), a character at a time: pos is at each slash in turn.
split(path) ==
  LET Step(s, pos) ==
        IF path[pos] # "/" THEN s
        ELSE [start |-> pos + 1,
              result |-> IF pos > s.start THEN Append(s.result, SubSeq(path, s.start, pos - 1))
                         ELSE s.result]
      end == FoldLeft(Step, [start |-> 1, result |-> <<>>], [n \in 1..Len(path) |-> n])
  IN  IF end.start <= Len(path) THEN Append(end.result, SubSeq(path, end.start, Len(path)))
      ELSE end.result

-----------------------------------------------------------------------------
\* The maps: commands_ has the modules, and the commands in them with their
\* callback, which is FALSE as long as it is empty.
Init ==
  /\ ConnectionsInit
  /\ app = [modules |-> {}, commands |-> [c \in {} |-> FALSE], helps |-> {},
            mutex |-> "free", at |-> [t \in Adders |-> "out"], adds |-> [t \in Adders |-> <<>>],
            seen |-> {}, gets |-> 0,
            response |-> [path |-> <<>>, ok |-> FALSE, seen |-> {}, ready |-> {}, args |-> <<>>]]

\* add(): commands_[module], then [command], then the callback, then helps_.
Add(t, c) ==
  /\ app.at[t] = "out" /\ app.mutex = "free" /\ c \notin DOMAIN app.commands
  /\ app' = [app EXCEPT !.mutex = t, !.at[t] = "module", !.adds[t] = c]
AddModule(t) ==
  /\ app.at[t] = "module"
  /\ app' = [app EXCEPT !.modules = @ \cup {app.adds[t][1]}, !.at[t] = "command"]
AddCommand(t) ==
  /\ app.at[t] = "command"
  /\ app' = [app EXCEPT !.commands = @ @@ (app.adds[t] :> FALSE), !.at[t] = "callback"]
AddCallback(t) ==
  /\ app.at[t] = "callback"
  /\ app' = [app EXCEPT !.commands[app.adds[t]] = TRUE, !.at[t] = "help"]
AddHelp(t) ==
  /\ app.at[t] = "help"
  /\ app' = [app EXCEPT !.helps = @ \cup {app.adds[t]}, !.mutex = "free", !.at[t] = "out"]

\* onRequest() of the root, under mutex_.
List ==
  /\ app.gets < MaxGets /\ app.mutex = "free"
  /\ app' = [app EXCEPT !.gets = @ + 1, !.seen = @ \cup app.helps]

\* The look-up that does not ask whether there is a callback.
FoundEmpty(parts) ==
  Len(parts) >= 2 /\ parts[1] \in app.modules /\ SubSeq(parts, 1, 2) \in DOMAIN app.commands

\* onRequest() of anything else: a module, a command with a callback, arguments.
Found(parts) ==
  /\ Len(parts) >= 2 /\ parts[1] \in app.modules
  /\ SubSeq(parts, 1, 2) \in DOMAIN app.commands /\ app.commands[SubSeq(parts, 1, 2)]
onRequest(path) ==
  LET parts == split(path)
  IN  /\ app.gets < MaxGets /\ path # <<"/">>
      /\ app' = [app EXCEPT !.gets = @ + 1,
                   !.response = [path |-> path, ok |-> Found(parts), seen |-> app.seen,
                      ready |-> {c \in DOMAIN app.commands : app.commands[c]},
                      args |-> IF Found(parts) THEN SubSeq(parts, 3, Len(parts)) ELSE <<>>]]

Next ==
  /\ \/ \E t \in Adders, c \in Commands : Add(t, c)
     \/ \E t \in Adders : AddModule(t) \/ AddCommand(t) \/ AddCallback(t) \/ AddHelp(t)
     \/ List
     \/ \E path \in Paths : onRequest(path)
  /\ UNCHANGED <<conn, sent, queue>>

-----------------------------------------------------------------------------
\* A request is answered by the command its path names, with the rest of the path
\* as arguments, however many slashes there are; a command is called only once its
\* callback is there, although nothing locks the map; and every command that the
\* list at the root has shown is found from then on.
RequestsAreAnswered ==
  LET r == app.response
      parts == SelectSeq(splitAll(r.path), LAMBDA p : p # <<>>)
  IN  /\ r.ok => /\ SubSeq(parts, 1, 2) \in r.ready
                 /\ r.args = SubSeq(parts, 3, Len(parts))
      /\ Len(parts) >= 2 /\ SubSeq(parts, 1, 2) \in r.seen => r.ok
=============================================================================
