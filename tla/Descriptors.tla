----------------------------- MODULE Descriptors -----------------------------
(***************************************************************************)
(* Files and devices of the board support package: start-up and exit       *)
(* (alt_main.c, alt_sys_init.c, alt_io_redirect.c, alt_exit.c), the pool   *)
(* of descriptors (alt_get_fd.c, alt_release_fd.c, alt_fd_lock.c) and the  *)
(* calls a program makes on it (open, close, read, write, ioctl, ...).     *)
(*                                                                         *)
(* There is one thread, so a call is one step.  What a driver answers is   *)
(* open within what it may answer; a program does not use a descriptor it  *)
(* has not got, but may pass on the -1 of an open that failed.             *)
(***************************************************************************)
EXTENDS Integers, Sequences, FiniteSets, FiniteSetsExt

CONSTANTS ALT_MAX_FD,                        \* size of the pool (32)
          ALT_STDIN, ALT_STDOUT, ALT_STDERR, \* names in system.h
          FileSystems,                       \* file systems that register
          Constructors,                      \* entries of __CTOR_LIST__
          Modes,                             \* bound: access modes asked for
          Flagged                            \* bound: descriptors for F_SETFL

(* What is taken for granted of the constants.                               *)
Bounds ==
  /\ ALT_MAX_FD \in Nat /\ ALT_MAX_FD > 3
  /\ Modes \subseteq {"r", "w"}
  /\ FileSystems \subseteq {"fs"} /\ Constructors \in Nat
  /\ ALT_STDIN = ALT_STDOUT /\ ALT_STDERR = ALT_STDOUT    \* system.h

VARIABLES stage,          \* where start-up, the program or exit is
          alt_dev_list,   \* registered devices, the last one first
          alt_fs_list,    \* registered file systems
          alt_fd_list,    \* the pool
          alt_max_fd,     \* highest descriptor ever allocated
          ctors,          \* constructors, then destructors, still to run
          answer          \* how the last call ended: "ok" or its errno

lists == <<alt_dev_list, alt_fs_list>>
pool  == <<alt_fd_list, alt_max_fd>>
vars  == <<stage, lists, pool, ctors, answer>>

None  == "none"
Fds   == 0 .. ALT_MAX_FD - 1
Std   == 0 .. 2
StdName == <<ALT_STDOUT, ALT_STDIN, ALT_STDERR>>  \* in the order of alt_io_redirect()
StdFd   == <<1, 0, 2>>

(* The functions each device provides; the rest are NULL.                  *)
Provides == [null |-> {"write"},
             uart |-> {"close", "read", "write", "ioctl"},
             fs   |-> {"open", "close", "read", "write", "lseek", "fstat", "ioctl"}]

(* The names a program may use: of a device in full, of a file under the   *)
(* mount point, and of nothing.                                            *)
Names == {"/dev/null", "/dev/jtag_uart_0", "/mnt/file", "/nothing"}
NamesOf == [null |-> {"/dev/null"}, uart |-> {"/dev/jtag_uart_0"}, fs |-> {"/mnt/file"}]

(* An unused entry; flags of 0 mean O_RDONLY.                              *)
Unused == [dev |-> None, mode |-> "r", flags |-> {}]
Fd(dev, mode, flags) == [dev |-> dev, mode |-> mode, flags |-> flags]

Init ==
  /\ stage = "irq"
  /\ alt_dev_list = <<"null">> /\ alt_fs_list = <<>>
  /\ alt_fd_list = [f \in Fds |-> IF f \in Std THEN Fd("null", "r", {}) ELSE Unused]
  /\ alt_max_fd = -1
  /\ ctors = Constructors
  /\ answer = "ok"

-----------------------------------------------------------------------------
(* What the calls are made of.                                             *)

(* The first of a list that answers to the name: alt_find_dev(),           *)
(* alt_find_file().                                                        *)
Find(list, name) ==
  LET found == {i \in 1 .. Len(list) : name \in NamesOf[list[i]]}
  IN  IF found = {} THEN None ELSE list[Min(found)]

Free == {f \in Fds : alt_fd_list[f].dev = None}

\* Mutant: the highest descriptor is not looked at.
LockedBelow(fd, dev, mark) ==
  \E i \in 0 .. mark - 1 : /\ alt_fd_list[i].dev = dev
                           /\ "EXCL" \in alt_fd_list[i].flags
                           /\ i # fd

(* Another descriptor of the device, up to the mark, has it to itself.     *)
alt_file_locked(fd, dev, mark) ==
  \E i \in 0 .. mark : /\ alt_fd_list[i].dev = dev
                       /\ "EXCL" \in alt_fd_list[i].flags
                       /\ i # fd

(* The flags that are not the caller's to set.                             *)
Unlocked(flags) == flags \ {"EXCL"}

(* alt_release_fd(): standard streams are never given back.                *)
Released(fd) == IF fd > 2 THEN [alt_fd_list EXCEPT ![fd] = Unused] ELSE alt_fd_list

(* What open() comes to: the descriptor and its entry, or the error.  The  *)
(* mark rises as soon as an entry is taken, and stays if the open fails.   *)
Opening(name, mode, flags, refused) ==
  LET device == Find(alt_dev_list, name)
      dev    == IF device # None THEN device ELSE Find(alt_fs_list, name)
      fd     == Min(Free)
      mark   == Max({alt_max_fd, fd})
      failed(err, m) == [err |-> err, fd |-> -1, mark |-> m, entry |-> Unused]
  IN  CASE dev = None -> failed("ENODEV", alt_max_fd)
        [] dev # None /\ Free = {} -> failed("EMFILE", alt_max_fd)
        [] dev # None /\ Free # {} /\ device # None /\ alt_file_locked(fd, dev, mark)
             -> failed("EACCES", mark)
        [] dev # None /\ Free # {} /\ device = None /\ "open" \in Provides[dev] /\ refused
             -> failed("EIO", mark)
        [] OTHER -> [err |-> "ok", fd |-> fd, mark |-> mark,
                     entry |-> Fd(dev, mode, IF device # None THEN flags \cup {"DEV"} ELSE flags)]

(* What a function of the driver may answer.                               *)
Answers(fd, function) ==
  LET f == alt_fd_list[fd]
      wait == IF "NONBLOCK" \in f.flags THEN "EWOULDBLOCK" ELSE "EIO"
  IN  CASE f.dev = "null" -> {"ok"}
        [] f.dev = "uart" /\ function = "close" -> {"ok"} \cup ({wait} \ {"EIO"})
        [] f.dev = "uart" /\ function = "ioctl" -> {"ok", "ENOTTY"}
        [] f.dev = "uart" /\ function \in {"read", "write"} -> {"ok", wait}
        [] OTHER -> {"ok", "EIO"}

Call(fd, function) == IF function \in Provides[alt_fd_list[fd].dev]
                      THEN Answers(fd, function) ELSE {"ok"}

-----------------------------------------------------------------------------
(* Start-up                                                                *)

Goto(from, to) == stage = from /\ stage' = to

(* alt_irq_init(): nothing here depends on it.                             *)
AltIrqInit == Goto("irq", "sys") /\ UNCHANGED <<lists, pool, ctors, answer>>

(* Registering: the last of a list is the first to be found.               *)
alt_dev_llist_insert(dev, list) == <<dev>> \o list
alt_fs_reg(dev) == alt_dev_llist_insert(dev, alt_fs_list)

(* alt_sys_init(): the drivers register.                                   *)
AltSysInit ==
  /\ Goto("sys", "redirect1")
  /\ alt_dev_list' = alt_dev_llist_insert("uart", alt_dev_list)
  /\ alt_fs_list' = IF FileSystems = {} THEN alt_fs_list ELSE alt_fs_reg("fs")
  /\ UNCHANGED <<pool, ctors, answer>>

(* alt_io_redirect(): opens the device, copies the entry, gives it back.   *)
Redirect(i) ==
  /\ Goto(<<"redirect1", "redirect2", "redirect3">>[i],
          <<"redirect2", "redirect3", "ctors">>[i])
  /\ LET o == Opening(StdName[i], IF StdFd[i] = 0 THEN "r" ELSE "w", {}, FALSE)
     IN  /\ alt_fd_list' = IF o.err = "ok" THEN [alt_fd_list EXCEPT ![StdFd[i]] = o.entry]
                           ELSE alt_fd_list
         /\ alt_max_fd' = o.mark
         /\ answer' = o.err
  /\ UNCHANGED <<lists, ctors>>

Construct ==
  /\ stage = "ctors" /\ ctors > 0
  /\ ctors' = ctors - 1
  /\ UNCHANGED <<stage, lists, pool, answer>>

(* atexit(_do_dtors), main().                                              *)
CallMain ==
  /\ Goto("ctors", "main") /\ ctors = 0
  /\ ctors' = Constructors
  /\ UNCHANGED <<lists, pool, answer>>

-----------------------------------------------------------------------------
(* The program's calls                                                     *)

(* Its descriptors, and the -1 of an open that failed.                     *)
Held == {f \in Fds : alt_fd_list[f].dev # None}
Bad  == /\ answer' = "EBADFD" /\ UNCHANGED pool

Calls == stage = "main" /\ UNCHANGED <<stage, lists, ctors>>

Open ==
  /\ Calls
  /\ \E name \in Names, mode \in Modes, flags \in SUBSET {"NONBLOCK", "EXCL"}, refused \in BOOLEAN :
       LET o == Opening(name, mode, Unlocked(flags), refused)
       IN  /\ alt_fd_list' = IF o.err = "ok" THEN [alt_fd_list EXCEPT ![o.fd] = o.entry]
                             ELSE alt_fd_list
           /\ alt_max_fd' = o.mark
           /\ answer' = o.err

(* The entry is given back whatever the driver answers.                    *)
Close ==
  /\ Calls
  /\ \/ Bad
     \/ \E fd \in Held : /\ answer' \in Call(fd, "close")
                         /\ alt_fd_list' = Released(fd)
                         /\ UNCHANGED alt_max_fd

Transfer(fd, function, wrong) ==
  /\ answer' \in IF alt_fd_list[fd].mode # wrong /\ function \in Provides[alt_fd_list[fd].dev]
                 THEN Answers(fd, function) ELSE {"EACCES"}
  /\ UNCHANGED pool

Read  == Calls /\ (Bad \/ \E fd \in Held : Transfer(fd, "read", "w"))
Write == Calls /\ (Bad \/ \E fd \in Held : Transfer(fd, "write", "r"))

\* Mutant: one more descriptor is left out.
SharedLess(fd) == \E i \in 0 .. alt_max_fd - 2 : i # fd /\ alt_fd_list[i].dev = alt_fd_list[fd].dev

(* alt_fd_lock() looks at the descriptors below the mark.                  *)
Shared(fd) == \E i \in 0 .. alt_max_fd - 1 : i # fd /\ alt_fd_list[i].dev = alt_fd_list[fd].dev

Lock(fd) ==
  /\ "DEV" \in alt_fd_list[fd].flags
  /\ IF Shared(fd) THEN answer' = "EACCES" /\ UNCHANGED pool
     ELSE /\ alt_fd_list' = [alt_fd_list EXCEPT ![fd].flags = @ \cup {"EXCL"}]
          /\ answer' = "ok" /\ UNCHANGED alt_max_fd

Unlock(fd) ==
  /\ "DEV" \in alt_fd_list[fd].flags
  /\ alt_fd_list' = [alt_fd_list EXCEPT ![fd].flags = Unlocked(@)]
  /\ answer' = "ok" /\ UNCHANGED alt_max_fd

(* Any other request, and the two of a file system.                        *)
Vector(fd) ==
  /\ answer' \in IF "ioctl" \in Provides[alt_fd_list[fd].dev]
                 THEN Answers(fd, "ioctl") ELSE {"ENOTTY"}
  /\ UNCHANGED pool

Ioctl == Calls /\ (Bad \/ \E fd \in Held : Lock(fd) \/ Unlock(fd) \/ Vector(fd))

Fstat  == Calls /\ (Bad \/ \E fd \in Held : answer' \in Call(fd, "fstat") /\ UNCHANGED pool)

(* A device without fstat() is a terminal, else its answer decides; an     *)
(* error of fstat() is not looked at.                                      *)
Isatty == Calls /\ (Bad \/ (answer' = "ok" /\ UNCHANGED pool))

Lseek ==
  /\ Calls
  /\ \/ Bad
     \/ \E fd \in Held :
          /\ answer' \in IF "lseek" \in Provides[alt_fd_list[fd].dev]
                         THEN Answers(fd, "lseek") ELSE {"ENOTSUP"}
          /\ UNCHANGED pool

(* F_GETFL; F_SETFL; anything else.  O_APPEND goes with O_NONBLOCK.        *)
Fcntl ==
  /\ Calls
  /\ \/ Bad
     \/ answer' \in {"ok", "EINVAL"} /\ UNCHANGED pool
     \/ \E fd \in Held \cap Flagged, flags \in SUBSET {"NONBLOCK"} :
          /\ alt_fd_list' = [alt_fd_list EXCEPT ![fd].flags = (@ \ {"NONBLOCK"}) \cup flags]
          /\ answer' = "ok" /\ UNCHANGED alt_max_fd

(* open(), fstat(), close(); if the first fails the others say EBADFD.     *)
Stat ==
  /\ Calls
  /\ \E name \in Names, refused \in BOOLEAN :
       LET o == Opening(name, "r", {}, refused)
       IN  /\ answer' \in IF o.err # "ok" THEN {"EBADFD"}
                          ELSE IF o.entry.dev = "fs" THEN {"ok", "EIO"} ELSE {"ok"}
           /\ alt_max_fd' = o.mark
           /\ UNCHANGED alt_fd_list

(* What goes through the standard streams.                                 *)
alt_getchar == Calls /\ Transfer(0, "read", "w")
alt_putchar == Calls /\ Transfer(1, "write", "r")
alt_putstr  == Calls /\ Transfer(1, "write", "r")

(* Calls there is nothing behind: no processes, no links, no channels.     *)
Fails(err) == Calls /\ answer' = err /\ UNCHANGED pool
alt_fork   == Fails("ENOSYS")
alt_link   == Fails("ENOSYS")
alt_unlink == Fails("ENOSYS")
alt_rename == Fails("ENOSYS")
alt_execve == Fails("ENOSYS")
alt_wait   == Fails("ECHILD")
alt_dma_txchan_open == Fails("ENODEV")
alt_dma_rxchan_open == Fails("ENODEV")
Stubs == \/ alt_fork \/ alt_link \/ alt_unlink \/ alt_rename \/ alt_execve \/ alt_wait
         \/ alt_dma_txchan_open \/ alt_dma_rxchan_open

(* The program may signal itself alone.  A signal that kills ends it where *)
(* it stands: nothing is closed and no destructor runs.                    *)
alt_kill ==
  /\ stage = "main"
  /\ \/ answer' \in {"ok", "EINVAL", "ESRCH"} /\ UNCHANGED stage
     \/ stage' = "exit" /\ UNCHANGED answer
  /\ UNCHANGED <<lists, pool, ctors>>

-----------------------------------------------------------------------------
(* Exit: main() returns, stdout is closed, the destructors run, and _exit  *)
(* has nowhere to go.                                                      *)
Return ==
  /\ Goto("main", "dtors")
  /\ answer' \in Call(1, "close")
  /\ alt_fd_list' = Released(1)
  /\ UNCHANGED <<lists, alt_max_fd, ctors>>

Destruct ==
  /\ stage = "dtors" /\ ctors > 0
  /\ ctors' = ctors - 1
  /\ UNCHANGED <<stage, lists, pool, answer>>

AltExit == Goto("dtors", "exit") /\ ctors = 0 /\ UNCHANGED <<lists, pool, ctors, answer>>
Spin    == stage = "exit" /\ UNCHANGED vars

AltMain == \/ AltIrqInit \/ AltSysInit \/ (\E i \in 1 .. 3 : Redirect(i))
           \/ Construct \/ CallMain \/ Return \/ Destruct \/ AltExit \/ Spin

Next == \/ AltMain \/ Open \/ Close \/ Read \/ Write \/ Ioctl \/ Fstat \/ Isatty
        \/ Lseek \/ Fcntl \/ Stat \/ alt_getchar \/ alt_putchar \/ alt_putstr
        \/ Stubs \/ alt_kill

Spec == Init /\ [][Next]_vars
-----------------------------------------------------------------------------
Locks(f, dev) == alt_fd_list[f].dev = dev /\ "EXCL" \in alt_fd_list[f].flags

(* What is opened is not locked by anybody.                                *)
OpensUnlocked ==
  \A f \in Fds : alt_fd_list[f].dev = None /\ alt_fd_list'[f].dev # None
                  => ~\E g \in Fds : Locks(g, alt_fd_list'[f].dev)

(* A device that somebody has locked is not opened, however the pool was   *)
(* filled, emptied and filled again since (alt_open.c, alt_file_locked).   *)
LockRespected == [][OpensUnlocked]_vars

(* A lock can be undone by closing its descriptor, is the only one of its  *)
(* device, and is shared with at most one descriptor: the one that was the *)
(* highest when it was granted (alt_fd_lock.c:61 leaves it out).           *)
LockOfTwo ==
  \A f \in Fds : LET dev == alt_fd_list[f].dev IN
    Locks(f, dev) => /\ f \notin Std
                     /\ \A g \in Fds : Locks(g, dev) => g = f
                     /\ \E h \in Fds : \A g \in Fds : alt_fd_list[g].dev = dev => g \in {f, h}
-----------------------------------------------------------------------------
(* What LockOfTwo and LockRespected rest on.                               *)

Entries == [dev : {None} \cup DOMAIN Provides, mode : {"r", "w"},
            flags : SUBSET {"NONBLOCK", "EXCL", "DEV"}]
Early == {"irq", "sys", "redirect1", "redirect2", "redirect3", "ctors"}

TypeOK ==
  /\ stage \in Early \cup {"main", "dtors", "exit"}
  /\ alt_dev_list \in Seq({"null", "uart"}) /\ alt_fs_list \in Seq({"fs"})
  /\ alt_fd_list \in [Fds -> Entries]
  /\ alt_max_fd \in -1 .. ALT_MAX_FD - 1
  /\ ctors \in 0 .. Constructors

(* The standard streams are used from the start and for ever, the others   *)
(* once the program runs, and up to the mark.  Only a device is locked,    *)
(* and by the time one is opened the mark is past the standard streams.    *)
PoolSound ==
  \A f \in Fds : LET e == alt_fd_list[f] IN
    /\ f \in Std => e.dev # None
    /\ f \notin Std /\ e.dev # None => f <= alt_max_fd /\ stage \notin Early
    /\ "EXCL" \in e.flags => "DEV" \in e.flags /\ stage \notin Early
    /\ "DEV" \in e.flags => e.dev \in {"null", "uart"} /\ alt_max_fd > 2

(* The device behind the standard streams, and those that have got it.     *)
Stream ==
  LET device == Find(alt_dev_list, ALT_STDOUT)
      dev    == IF device # None THEN device ELSE Find(alt_fs_list, ALT_STDOUT)
  IN  IF dev # None THEN dev ELSE "null"

Redirected ==
  CASE stage \in {"irq", "sys", "redirect1"} -> {}
    [] stage = "redirect2" -> {1}
    [] stage = "redirect3" -> {0, 1}
    [] OTHER -> Std

StreamsShared ==
  \A f \in Std : alt_fd_list[f].dev = IF f \in Redirected THEN Stream ELSE "null"

(* Whoever shares a locked device came after the lock's holder, and alone. *)
LockAlone ==
  \A f, g, h \in Fds :
    LET dev == alt_fd_list[f].dev IN
      Locks(f, dev) /\ alt_fd_list[g].dev = dev /\ alt_fd_list[h].dev = dev =>
        /\ f \notin Std
        /\ g # f => g > f
        /\ g # f /\ h # f => g = h

PoolInv == TypeOK /\ PoolSound /\ StreamsShared /\ LockAlone
=============================================================================
