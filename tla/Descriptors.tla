---------------------------- MODULE Descriptors ----------------------------
(***************************************************************************)
(* What the runtime keeps of each descriptor: the FdCtx of FdManager       *)
(* (fd_manager.cc), which tells the hook how to call the system, and the   *)
(* FdContext of IOManager, through which a fiber that waits is reached.    *)
(* Both tables grow with the numbers, and numbers are used again.  Callers *)
(* are fibers; some run on threads without the hook.  With one thread a    *)
(* fiber goes on until it waits; with more, steps of all interleave.       *)
(***************************************************************************)
EXTENDS Integers, FiniteSets, FiniteSetsExt

CONSTANTS
  Callers,
  Outsiders,                \* callers on a thread whose t_hook_enable is false
  Fds,                      \* the numbers sockets get; lower ones are files
  TableSize, ContextSize,   \* 64 and 32, the first sizes of the tables
  MaxOpen                   \* bound: sockets that are opened

ASSUME DescriptorsAssumption ==
  /\ Outsiders \subseteq Callers
  /\ IsFiniteSet(Fds) /\ Fds \subseteq Nat \ {0, 1}
  /\ TableSize \in Nat /\ ContextSize \in Nat /\ MaxOpen \in Nat

VARIABLES
  parallel,      \* whether the scheduler has several threads
  file,          \* the kernel: what each number is open to
  opened,
  outside,       \* history: the sockets that were closed without the hook
  m_datas,       \* the FdCtx of a number, or None
  datasSize,     \* m_datas.size()
  contextsSize,  \* m_fdContexts.size()
  doing          \* what each caller is about to do

descriptorVars == <<parallel, file, opened, outside, m_datas, datasSize, contextsSize, doing>>
kernel == <<file, opened, outside>>
tables == <<m_datas, datasSize, contextsSize>>

None == [of |-> 0, user |-> FALSE]
Closed == [id |-> 0, nonblock |-> FALSE, hooked |-> FALSE, cleared |-> FALSE]
\* the call, its number and socket, and what do_io and fcntl() have decided; on:
\* the socket it is registered for, kept: its context is still in the table
Idle == [to |-> "idle", fd |-> 0, id |-> 0, set |-> FALSE, keep |-> FALSE,
         on |-> 0, kept |-> TRUE]
Hooked(c) == c \notin Outsiders
IsOpen(fd) == file[fd] # Closed

\* with one thread a fiber takes a step when no other one is in the middle of a call
Resting == {"idle", "waiting", "woken"}
Runs(c) == parallel \/ c \in Outsiders
             \/ \A d \in Callers \ (Outsiders \cup {c}) : doing[d].to \in Resting
At(c, place) == doing[c].to = place /\ Runs(c)
Goto(c, place) == doing' = [doing EXCEPT ![c].to = place]
Begin(c, place, fd) ==
  doing' = [doing EXCEPT ![c] = [Idle EXCEPT !.to = place, !.fd = fd, !.id = file[fd].id]]
End(c) == doing' = [doing EXCEPT ![c] = Idle]

\* a descriptor its opener has been given, and that nobody is closing
Making(fd) == \E c \in Callers : doing[c].to \in {"get", "create"} /\ doing[c].fd = fd
Closing(fd) == \E c \in Callers : doing[c].to \in {"cancel", "del", "close"} /\ doing[c].fd = fd
Usable(fd) == IsOpen(fd) /\ ~Making(fd) /\ ~Closing(fd)
Waits(c) == doing[c].to \in {"try", "size", "resize", "register", "waiting", "woken", "blocked"}

DescriptorsInit ==
  /\ parallel \in BOOLEAN
  /\ file = [fd \in Fds |-> Closed] /\ opened = 0 /\ outside = {}
  /\ m_datas = [fd \in Fds |-> None] /\ datasSize = TableSize
  /\ contextsSize = ContextSize
  /\ doing = [c \in Callers |-> Idle]

-----------------------------------------------------------------------------
(* Opening: socket(), and accept() once it has a connection.               *)

Socket(c) ==
  /\ At(c, "idle") /\ opened < MaxOpen /\ \E fd \in Fds : ~IsOpen(fd)
  /\ LET fd == Min({n \in Fds : ~IsOpen(n)})
         id == opened + 1
     IN /\ file' = [file EXCEPT ![fd] = [Closed EXCEPT !.id = id, !.hooked = Hooked(c)]]
        /\ opened' = id
        /\ doing' = IF Hooked(c)
                      THEN [doing EXCEPT ![c] = [Idle EXCEPT !.to = "get", !.fd = fd, !.id = id]]
                      ELSE doing
  /\ UNCHANGED <<parallel, outside, tables>>
\* FdManager::get(fd, true) under the read lock
Get(c) ==
  /\ At(c, "get")
  /\ IF doing[c].fd < datasSize /\ m_datas[doing[c].fd] # None THEN End(c) ELSE Goto(c, "create")
  /\ UNCHANGED <<parallel, kernel, tables>>
Grown(fd) == (3 * fd) \div 2
\* FdCtx::init() makes the socket non-blocking
NewCtx(fd) == [of |-> file[fd].id, user |-> FALSE]
\* Faulty: what the read lock has shown is not looked at again.
CreateUnchecked(c) ==
  LET fd == doing[c].fd
      size == Grown(fd)
  IN /\ At(c, "create")
     /\ file' = [file EXCEPT ![fd].nonblock = TRUE]
     /\ datasSize' = size
     /\ m_datas' = [n \in Fds |-> IF n = fd THEN NewCtx(fd)
                                  ELSE IF n < size THEN m_datas[n] ELSE None]
     /\ End(c)
     /\ UNCHANGED <<parallel, opened, outside, contextsSize>>
\* under the write lock
Create(c) ==
  LET fd == doing[c].fd
  IN /\ At(c, "create")
     /\ file' = [file EXCEPT ![fd].nonblock = TRUE]
     /\ datasSize' = IF fd >= datasSize THEN Grown(fd) ELSE datasSize
     /\ m_datas' = [m_datas EXCEPT ![fd] = NewCtx(fd)]
     /\ End(c)
     /\ UNCHANGED <<parallel, opened, outside, contextsSize>>

-----------------------------------------------------------------------------
(* Flags.                                                                  *)

Ctx(fd) == IF fd < datasSize THEN m_datas[fd] ELSE None
SetUser(fd, flag) ==
  m_datas' = IF Ctx(fd) = None THEN m_datas ELSE [m_datas EXCEPT ![fd].user = flag]
\* fcntl(F_SETFL): the socket stays non-blocking whatever the user says
SetFlags(c) ==
  /\ At(c, "idle") /\ Hooked(c)
  /\ \E fd \in Fds, nonblock \in BOOLEAN :
       /\ Usable(fd)
       /\ SetUser(fd, nonblock)
       /\ doing' = [doing EXCEPT ![c] =
            [Idle EXCEPT !.to = "flags", !.fd = fd, !.id = file[fd].id,
                         !.set = nonblock \/ Ctx(fd) # None, !.keep = TRUE]]
  /\ UNCHANGED <<parallel, kernel, datasSize, contextsSize>>
\* ioctl(FIONBIO): what the user says goes to the system as it is
Ioctl(c) ==
  /\ At(c, "idle") /\ Hooked(c)
  /\ \E fd \in Fds, nonblock \in BOOLEAN :
       /\ Usable(fd)
       /\ SetUser(fd, nonblock)
       /\ doing' = [doing EXCEPT ![c] =
            [Idle EXCEPT !.to = "flags", !.fd = fd, !.id = file[fd].id, !.set = nonblock]]
  /\ UNCHANGED <<parallel, kernel, datasSize, contextsSize>>
\* the call of the system, on whatever the number is open to by now
SystemFlags(c) ==
  /\ At(c, "flags")
  /\ LET fd == doing[c].fd
     IN file' = IF ~IsOpen(fd) THEN file
                ELSE [file EXCEPT ![fd].nonblock = doing[c].set,
                                  ![fd].cleared = ~doing[c].set /\ (~doing[c].keep \/ doing[c].id # file[fd].id)]
  /\ End(c)
  /\ UNCHANGED <<parallel, opened, outside, tables>>
-----------------------------------------------------------------------------
(* A call that may wait: do_io() and, in it, addEvent().                   *)

\* one fiber at a time waits for a socket
EnterIo(c) ==
  /\ At(c, "idle") /\ Hooked(c)
  /\ \E fd \in Fds :
       /\ Usable(fd)
       /\ \A d \in Callers : Waits(d) => doing[d].fd # fd
       /\ doing' = [doing EXCEPT ![c] =
            [Idle EXCEPT !.to = "try", !.fd = fd, !.id = file[fd].id,
                         !.set = Ctx(fd) # None /\ ~Ctx(fd).user]]
  /\ UNCHANGED <<parallel, kernel, tables>>
\* the call of the system: done, EAGAIN, an error, or the thread blocks
Try(c) ==
  /\ (doing[c].to = "try" \/ doing[c].to = "woken") /\ Runs(c)
  /\ LET fd == doing[c].fd
     IN \/ End(c)
        \/ IsOpen(fd) /\ file[fd].nonblock /\ doing[c].set /\ Goto(c, "size")
        \/ IsOpen(fd) /\ ~file[fd].nonblock /\ Goto(c, "blocked")
  /\ UNCHANGED <<parallel, kernel, tables>>
\* addEvent() under the read lock
ReadSize(c) ==
  /\ At(c, "size")
  /\ Goto(c, IF contextsSize > doing[c].fd THEN "register" ELSE "resize")
  /\ UNCHANGED <<parallel, kernel, tables>>
\* contextResize(fd * 1.5) under the write lock: it may make the table smaller,
\* and the contexts that are cut off are known to epoll only
ContextResize(c) ==
  LET size == Grown(doing[c].fd)
  IN /\ At(c, "resize")
     /\ contextsSize' = size
     /\ doing' = [d \in Callers |->
          IF d = c THEN [doing[c] EXCEPT !.to = "register"]
          ELSE [doing[d] EXCEPT !.kept = @ /\ (doing[d].to \in {"register", "waiting"} => doing[d].fd < size)]]
     /\ UNCHANGED <<parallel, kernel, m_datas, datasSize>>
\* epoll_ctl() refuses a descriptor that has been closed
Register(c) ==
  /\ At(c, "register")
  /\ IF IsOpen(doing[c].fd)
       THEN doing' = [doing EXCEPT ![c].to = "waiting", ![c].on = file[doing[c].fd].id]
       ELSE End(c)
  /\ UNCHANGED <<parallel, kernel, tables>>

Woken(c) == [doing[c] EXCEPT !.to = "woken", !.on = 0, !.kept = TRUE]
\* external: what is waited for comes
Ready(c) ==
  /\ doing[c].to = "waiting" /\ file[doing[c].fd].id = doing[c].on
  /\ doing' = [doing EXCEPT ![c] = Woken(c)]
  /\ UNCHANGED <<parallel, kernel, tables>>
Unblock(c) == /\ doing[c].to = "blocked" /\ End(c)
              /\ UNCHANGED <<parallel, kernel, tables>>
\* the timer of the call: cancelEvent() does nothing unless the context is in the
\* table (a call without a timeout need not take this step)
Expire(c) ==
  /\ doing[c].to = "waiting" /\ doing[c].kept /\ doing[c].fd < contextsSize
  /\ End(c)
  /\ UNCHANGED <<parallel, kernel, tables>>

-----------------------------------------------------------------------------
(* close()                                                                 *)

Close(c) ==
  /\ At(c, "idle")
  /\ \E fd \in Fds : /\ Usable(fd)
                     /\ Begin(c, IF Hooked(c) /\ Ctx(fd) # None THEN "cancel" ELSE "close", fd)
  /\ UNCHANGED <<parallel, kernel, tables>>
\* Faulty: nobody is woken.
CancelNone(c) == At(c, "cancel") /\ Goto(c, "del") /\ UNCHANGED <<parallel, kernel, tables>>
\* IOManager::cancelAll()
CancelAll(c) ==
  /\ At(c, "cancel")
  /\ doing' = [d \in Callers |->
       IF d = c THEN [doing[c] EXCEPT !.to = "del"]
       ELSE IF doing[d].to = "waiting" /\ doing[d].fd = doing[c].fd
                 /\ doing[d].kept /\ doing[d].fd < contextsSize
            THEN Woken(d) ELSE doing[d]]
  /\ UNCHANGED <<parallel, kernel, tables>>
\* FdManager::del()
Del(c) ==
  /\ At(c, "del")
  /\ m_datas' = IF doing[c].fd < datasSize THEN [m_datas EXCEPT ![doing[c].fd] = None] ELSE m_datas
  /\ Goto(c, "close")
  /\ UNCHANGED <<parallel, kernel, datasSize, contextsSize>>
CloseSystem(c) ==
  /\ At(c, "close")
  /\ file' = [file EXCEPT ![doing[c].fd] = Closed]
  /\ outside' = IF Hooked(c) THEN outside ELSE outside \cup {doing[c].id}
  /\ End(c)
  /\ UNCHANGED <<parallel, opened, tables>>

CallerStep(c) ==
  \/ Socket(c) \/ Get(c) \/ Create(c)
  \/ SetFlags(c) \/ Ioctl(c) \/ SystemFlags(c)
  \/ EnterIo(c) \/ Try(c) \/ ReadSize(c) \/ ContextResize(c) \/ Register(c)
  \/ Ready(c) \/ Unblock(c) \/ Expire(c)
  \/ Close(c) \/ CancelAll(c) \/ Del(c) \/ CloseSystem(c)
DescriptorsNext == \E c \in Callers : CallerStep(c)
DescriptorsSpec == DescriptorsInit /\ [][DescriptorsNext]_descriptorVars

-----------------------------------------------------------------------------
(***************************************************************************)
(* However threads open and close, every socket that was opened through    *)
(* the hook has its own context and does not block in the system, so that  *)
(* calls on it let other fibers run.  There are two ways out: a number     *)
(* that was closed on a thread without the hook keeps the old context,     *)
(* with its flags and timeouts; and ioctl(), or a fcntl() that was meant   *)
(* for a socket closed meanwhile, takes O_NONBLOCK away.                   *)
(***************************************************************************)
ContextsFit ==
  \A fd \in Fds :
    Usable(fd) /\ file[fd].hooked =>
      /\ Ctx(fd) # None
      /\ \/ Ctx(fd).of = file[fd].id /\ (file[fd].nonblock \/ file[fd].cleared)
         \/ Ctx(fd).of \in outside

(***************************************************************************)
(* With one thread, whatever waits for its socket can be reached: its      *)
(* context is in the table, where a timeout and close() look for it, and   *)
(* the number is still open to that socket, unless a thread without the    *)
(* hook has closed it.  With several threads the table can lose it, and    *)
(* with any a call woken by close() goes on with whatever has got the      *)
(* number by then.                                                         *)
(***************************************************************************)
WaitersReachable ==
  ~parallel => \A c \in Callers :
    doing[c].to = "waiting" /\ doing[c].on = doing[c].id =>
      /\ doing[c].kept /\ doing[c].fd < contextsSize
      /\ file[doing[c].fd].id = doing[c].id \/ doing[c].id \in outside
=============================================================================
