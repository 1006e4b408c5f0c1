------------------------------- MODULE Server -------------------------------
(***************************************************************************)
(* The life of the server: HttpFileServer accepts connections and starts a *)
(* session for each, and the sessions change the files (FileApi).  A new   *)
(* session needs three things that these changes, and the sessions before  *)
(* it, can take away: a descriptor for its socket, the working directory   *)
(* of the process, and the directory that all sessions serve.              *)
(*                                                                         *)
(* Everything runs in one event loop: the accept loop goes on only while   *)
(* no handler runs.                                                        *)
(***************************************************************************)
EXTENDS FileApi

CONSTANTS
  Client,  \* whoever connects to the server
  MaxOpen  \* Bound: the sessions that the process has descriptors for

ASSUME ServerAssumption == MaxOpen \in Nat \ {0}

VARIABLES
  given,     \* whether the server was started with the argument root_path
  cwd,       \* where the process's working directory is now, if it is
  acceptor,  \* start_accept: "accepting", "failed" once, "dead"; or "exited"
  backlog,   \* connections the host has taken and start_accept has not
  open,      \* the clients that have a session
  named      \* whether a request was carried out on the root or on the
             \* working directory, or on what they lie in (history)

serverVars ==
  <<tree, pc, req, old, todo, code, given, cwd, acceptor, backlog, open, named>>

Running == acceptor # "exited"

-----------------------------------------------------------------------------
(* The acceptor is a local of HttpFileServer::Impl::start: the host takes  *)
(* connections for it until io_context::run returns, also after            *)
(* start_accept has ended.                                                 *)
Connect(c) ==
  /\ Running
  /\ c \notin open /\ c \notin Range(backlog)
  /\ backlog' = Append(backlog, c)
  /\ UNCHANGED <<vars, given, cwd, acceptor, open, named>>

Accepting == acceptor = "accepting" /\ pc # "copy" /\ backlog # << >>

HasDescriptor == Cardinality(open) < MaxOpen

(* What a session is made with.  Its two protocols each begin with an      *)
(* HttpFileSystem of their own, for which fs::current_path finds the       *)
(* working directory; with root_path, fs::canonical then finds the root.   *)
CanStartSession ==
  /\ cwd # NoPath
  /\ given => Exists(tree, RootDir)

Accept ==
  /\ Accepting
  /\ HasDescriptor
  /\ CanStartSession
  /\ open' = open \union {Head(backlog)}
  /\ backlog' = Tail(backlog)
  /\ UNCHANGED <<vars, given, cwd, acceptor, named>>

(* The one or the other throws, which ends start_accept; "detached" drops  *)
(* the exception.  The session is not started: its socket is closed.       *)
AcceptThrows ==
  /\ Accepting
  /\ HasDescriptor
  /\ ~CanStartSession
  /\ acceptor' = "dead"
  /\ backlog' = Tail(backlog)
  /\ UNCHANGED <<vars, given, cwd, open, named>>

(* Mutant: an error of async_accept ends the loop.                         *)
AcceptFailsForGood ==
  /\ Accepting
  /\ ~HasDescriptor
  /\ acceptor' = "dead"
  /\ UNCHANGED <<vars, given, cwd, backlog, open, named>>

(* async_accept reports an error: there is no descriptor for the socket.   *)
(* The connection stays where it is.                                       *)
AcceptFails ==
  /\ Accepting
  /\ ~HasDescriptor
  /\ acceptor' = "failed"
  /\ UNCHANGED <<vars, given, cwd, backlog, open, named>>

(* The loop does nothing about the error and waits for the next connection,*)
(* which is the same one: it goes round until there is a descriptor.       *)
Retry ==
  /\ acceptor = "failed" /\ pc # "copy"
  /\ acceptor' = "accepting"
  /\ UNCHANGED <<vars, given, cwd, backlog, open, named>>

(* A session carries out a request, and with it takes away the directory p *)
(* if it deletes or replaces p or something p lies in.                     *)
Takes(r, p) ==
  \/ r.op = "delete" /\ IsPrefix(r.src, p)
  \/ r.op \in Binary /\ IsPrefix(r.dst, p)

(* Where the working directory, which was at p, is after a handler's step: *)
(* the host moves it along with the directories it lies in, and has none   *)
(* for the process once it is removed, even if another takes its name.     *)
WorkingDir(p) ==
  LET moves == /\ pc = "idle" /\ req'.op = "move" /\ code' \in {200, 201}
               /\ req'.src # req'.dst
  IN  IF p = NoPath THEN NoPath
      ELSE IF moves /\ IsPrefix(req'.src, p) THEN Origin(p, req'.dst, req'.src)
      ELSE IF (moves /\ IsPrefix(req'.dst, p)) \/ ~IsDir(tree', p) THEN NoPath
      ELSE p

FileStep ==
  /\ open # {}
  /\ Next
  /\ cwd' = WorkingDir(cwd)
  /\ named' = \/ named
              \/ /\ code' \notin 400 .. 499
                 /\ \E p \in {RootDir, cwd} : Takes(req', p)
  /\ UNCHANGED <<given, acceptor, backlog, open>>

(* A connection ends: handle_session leaves its loop and stops.            *)
EndSession(c) ==
  /\ pc = "idle"
  /\ c \in open
  /\ open' = open \ {c}
  /\ UNCHANGED <<vars, given, cwd, acceptor, backlog, named>>

(* io_context::run returns when nothing is left to wait for; then start,   *)
(* and main with it.                                                       *)
Exit ==
  /\ acceptor = "dead" /\ open = {}
  /\ pc = "idle"
  /\ acceptor' = "exited"
  /\ backlog' = << >>
  /\ UNCHANGED <<vars, given, cwd, open, named>>

-----------------------------------------------------------------------------
(* The process may be started in any directory; without root_path it       *)
(* serves that one.                                                        *)
ServerInit ==
  /\ Init
  /\ given \in BOOLEAN
  /\ cwd \in {p \in Path : IsDir(tree, p)}
  /\ ~given => cwd = RootDir
  /\ acceptor = "accepting"
  /\ backlog = << >>
  /\ open = {}
  /\ named = FALSE

ServerNext ==
  \/ \E c \in Client : Connect(c) \/ EndSession(c)
  \/ Accept \/ AcceptThrows \/ AcceptFails \/ Retry
  \/ FileStep
  \/ Exit

ServerSpec == ServerInit /\ [][ServerNext]_serverVars

(* The event loop takes what is ready in turn: neither a handler nor the   *)
(* accept loop waits for ever while others run.  The fairness of the       *)
(* accept loop is strong because a copy holds it up again and again.       *)
ServerFairness ==
  /\ WF_serverVars(pc = "copy" /\ FileStep)
  /\ SF_serverVars(Accept \/ AcceptThrows \/ AcceptFails \/ Retry)

FairServerSpec == ServerSpec /\ ServerFairness

-----------------------------------------------------------------------------
(* Every variable has a value of its kind; a client waits or is served.    *)
(* The working directory is a directory wherever requests move it; and if  *)
(* it is what the server serves it cannot be moved, so that all sessions   *)
(* serve the same place although each asks for it anew.                    *)
ServerTypeOK ==
  /\ given \in BOOLEAN
  /\ cwd \in Path \union {NoPath}
  /\ cwd # NoPath => IsDir(tree, cwd)
  /\ ~given => cwd \in {RootDir, NoPath}
  /\ acceptor \in {"accepting", "failed", "dead", "exited"}
  /\ backlog \in Seq(Client)
  /\ open \subseteq Client
  /\ named \in BOOLEAN
  /\ open \intersect Range(backlog) = {}

(* Requests on files cannot stop the server, whatever they do to them,     *)
(* with one exception: start_accept ends only after a request was carried  *)
(* out that deletes or replaces the served root, or the process's working  *)
(* directory wherever requests have moved it, or what these lie in (the    *)
(* constructor of HttpSession or set_root_path throws,                     *)
(* http_file_server.cpp:40 and 42).                                        *)
StopsOnlyIfNamed == acceptor \notin {"accepting", "failed"} => named

(* As long as the root and the working directory stay, and sessions end so *)
(* that there is a descriptor again and again, every client that connects  *)
(* is accepted: running out of descriptors does not end the loop.          *)
EveryoneIsAccepted ==
  [](Exists(tree, RootDir) /\ cwd # NoPath) /\ []<>HasDescriptor =>
    \A c \in Client : c \in Range(backlog) ~> c \notin Range(backlog)
=============================================================================
