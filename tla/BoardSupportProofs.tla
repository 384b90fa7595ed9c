------------------------- MODULE BoardSupportProofs -------------------------
(***************************************************************************)
(* Proofs about the board support package: who may open a locked device,   *)
(* when alarms are called, what time is told, what the profiler's tables   *)
(* say, and which register each of the program's pointers reaches; with    *)
(* what ConsoleTextProofs says of the console's texts, the invariant of    *)
(* all six parts.                                                          *)
(***************************************************************************)
EXTENDS MCBoardSupport, ConsoleTextProofs, TLAPS, SequenceTheorems, FiniteSetTheorems, WellFoundedInduction

-----------------------------------------------------------------------------
(* Files, devices and descriptors.                                         *)

\* The least of a set of numbers is one of them.
LEMMA LowestIn ==
  ASSUME NEW T, T \subseteq Nat, T # {}
  PROVE  Files!Min(T) \in T
BY LeastOf DEF Files!Min

\* Of two numbers one is the greater.
LEMMA HigherOf ==
  ASSUME NEW a \in Int, NEW b \in Int
  PROVE  Files!Max({a, b}) \in {a, b} /\ Files!Max({a, b}) >= a /\ Files!Max({a, b}) >= b
<1>1. \E x \in {a, b} : \A y \in {a, b} : x >= y
  OBVIOUS
<1> QED
  BY <1>1 DEF Files!Max

\* What is found is one of the list.
LEMMA FoundIn ==
  ASSUME NEW S, NEW list \in Seq(S), NEW name
  PROVE  Files!Find(list, name) \in S \cup {Files!None}
<1> DEFINE found == {i \in 1 .. Len(list) : name \in Files!NamesOf[list[i]]}
<1>1. CASE found = {}
  BY <1>1 DEF Files!Find
<1>2. CASE found # {}
  <2>1. found \subseteq Nat
    BY LenProperties
  <2>2. Files!Min(found) \in found
    BY <1>2, <2>1, LowestIn
  <2>3. Files!Min(found) \in 1 .. Len(list)
    BY <2>2
  <2>4. list[Files!Min(found)] \in S
    BY <2>3, ElementOfSeq
  <2> QED
    BY <1>2, <2>4 DEF Files!Find
<1> QED
  BY <1>1, <1>2

\* The standard descriptors are descriptors.
LEMMA Numbered ==
  /\ ALT_MAX_FD \in Nat /\ ALT_MAX_FD > 3
  /\ Files!Std \subseteq Files!Fds /\ Files!Fds \subseteq Nat
  /\ \A f \in Files!Fds \ Files!Std : f \in 3 .. ALT_MAX_FD - 1
BY BoardAssumption DEF Files!Bounds, Files!Std, Files!Fds

\* A new descriptor is none of the standard ones, lies below the mark, and its
\* device has been locked by nobody.
LEMMA Opened ==
  ASSUME Files!PoolInv, NEW name, NEW mode \in {"r", "w"},
         NEW flags \in SUBSET {"NONBLOCK"}, NEW refused,
         NEW o, o = Files!Opening(name, mode, flags, refused)
  PROVE  /\ o.mark \in -1 .. ALT_MAX_FD - 1 /\ o.mark >= alt_max_fd
         /\ o.err = "ok" =>
              /\ o.fd \in Files!Free \ Files!Std /\ o.fd <= o.mark
              /\ o.entry \in Files!Entries /\ o.entry.dev # Files!None
              /\ "EXCL" \notin o.entry.flags
              /\ "DEV" \in o.entry.flags => o.entry.dev \in {"null", "uart"}
              /\ \A g \in Files!Fds : ~Files!Locks(g, o.entry.dev)
<1>0. Files!TypeOK /\ Files!PoolSound /\ Files!LockAlone
  BY DEF Files!PoolInv
<1> DEFINE device == Files!Find(alt_dev_list, name)
           dev    == IF device # Files!None THEN device ELSE Files!Find(alt_fs_list, name)
           fd     == Files!Min(Files!Free)
           mark   == Files!Max({alt_max_fd, fd})
           failed(err, m) == [err |-> err, fd |-> -1, mark |-> m, entry |-> Files!Unused]
           entry  == Files!Fd(dev, mode, IF device # Files!None THEN flags \cup {"DEV"} ELSE flags)
<1>1. device \in {Files!None, "null", "uart"} /\ dev \in {Files!None, "null", "uart", "fs"}
      /\ (device = Files!None => dev \in {Files!None, "fs"})
  <2>1. device \in {"null", "uart"} \cup {Files!None}
    BY <1>0, FoundIn DEF Files!TypeOK
  <2>2. Files!Find(alt_fs_list, name) \in {"fs"} \cup {Files!None}
    BY <1>0, FoundIn DEF Files!TypeOK
  <2> QED
    BY <2>1, <2>2
<1>2. alt_max_fd \in -1 .. ALT_MAX_FD - 1
  BY <1>0 DEF Files!TypeOK
<1>3. Files!Free \subseteq Files!Fds \ Files!Std
  BY <1>0 DEF Files!Free, Files!PoolSound
<1>4. Files!Free # {} => fd \in Files!Free /\ fd \in 3 .. ALT_MAX_FD - 1
                   /\ mark \in -1 .. ALT_MAX_FD - 1 /\ mark >= alt_max_fd /\ mark >= fd
  <2> SUFFICES ASSUME Files!Free # {}
               PROVE  fd \in Files!Free /\ fd \in 3 .. ALT_MAX_FD - 1
                      /\ mark \in -1 .. ALT_MAX_FD - 1 /\ mark >= alt_max_fd /\ mark >= fd
    OBVIOUS
  <2>1. fd \in Files!Free
    BY <1>3, Numbered, LowestIn
  <2>2. fd \in 3 .. ALT_MAX_FD - 1
    BY <2>1, <1>3, Numbered
  <2>3. mark \in {alt_max_fd, fd} /\ mark >= alt_max_fd /\ mark >= fd
    <3>1. alt_max_fd \in Int /\ fd \in Int
      BY <2>2, <1>2
    <3> HIDE DEF fd
    <3> QED
      BY <3>1, HigherOf
  <2> HIDE DEF fd, mark
  <2> QED
    BY <2>1, <2>2, <2>3, <1>2, Numbered
<1> HIDE DEF device, dev, fd, mark
<1>5. o = CASE dev = Files!None -> failed("ENODEV", alt_max_fd)
            [] dev # Files!None /\ Files!Free = {} -> failed("EMFILE", alt_max_fd)
            [] dev # Files!None /\ Files!Free # {} /\ device # Files!None /\ Files!alt_file_locked(fd, dev, mark)
                 -> failed("EACCES", mark)
            [] dev # Files!None /\ Files!Free # {} /\ device = Files!None /\ "open" \in Files!Provides[dev] /\ refused
                 -> failed("EIO", mark)
            [] OTHER -> [err |-> "ok", fd |-> fd, mark |-> mark, entry |-> entry]
  BY DEF Files!Opening, device, dev, fd, mark
<1> HIDE DEF entry
<1>6. \/ o = failed("ENODEV", alt_max_fd)
      \/ o = failed("EMFILE", alt_max_fd)
      \/ Files!Free # {} /\ o = failed("EACCES", mark)
      \/ Files!Free # {} /\ o = failed("EIO", mark)
      \/ /\ dev # Files!None /\ Files!Free # {}
         /\ ~(device # Files!None /\ Files!alt_file_locked(fd, dev, mark))
         /\ o = [err |-> "ok", fd |-> fd, mark |-> mark, entry |-> entry]
  BY <1>5
<1>7. CASE o = failed("ENODEV", alt_max_fd)
  BY <1>7, <1>2
<1>8. CASE o = failed("EMFILE", alt_max_fd)
  BY <1>8, <1>2
<1>9. CASE Files!Free # {} /\ o = failed("EACCES", mark)
  BY <1>9, <1>2, <1>4
<1>10. CASE Files!Free # {} /\ o = failed("EIO", mark)
  BY <1>10, <1>2, <1>4
<1>11. CASE /\ dev # Files!None /\ Files!Free # {}
            /\ ~(device # Files!None /\ Files!alt_file_locked(fd, dev, mark))
            /\ o = [err |-> "ok", fd |-> fd, mark |-> mark, entry |-> entry]
  <2>1. o.err = "ok" /\ o.fd = fd /\ o.mark = mark /\ o.entry = entry
    BY <1>11
  <2>2. /\ entry \in Files!Entries /\ entry.dev = dev /\ "EXCL" \notin entry.flags
        /\ "DEV" \in entry.flags => dev \in {"null", "uart"}
    <3>1. CASE device # Files!None
      BY <3>1, <1>1 DEF entry, Files!Fd, Files!Entries, Files!Provides, dev
    <3>2. CASE device = Files!None
      BY <3>2, <1>1 DEF entry, Files!Fd, Files!Entries, Files!Provides
    <3> QED
      BY <3>1, <3>2
  <2>3. ASSUME NEW g \in Files!Fds, Files!Locks(g, dev) PROVE FALSE
    <3>1. /\ alt_fd_list[g].dev = dev /\ "EXCL" \in alt_fd_list[g].flags
          /\ "DEV" \in alt_fd_list[g].flags
      BY <2>3, <1>0 DEF Files!Locks, Files!PoolSound
    <3>2. device # Files!None
      BY <3>1, <1>0, <1>1, <1>11 DEF Files!PoolSound
    <3>3. g \notin Files!Std
      BY <2>3, <3>1, <1>0 DEF Files!LockAlone
    <3>4. g \in 0 .. mark /\ g # fd
      BY <3>1, <3>3, <1>0, <1>2, <1>4, <1>11, Numbered DEF Files!PoolSound, Files!Free
    <3> QED
      BY <3>1, <3>2, <3>4, <1>11 DEF Files!alt_file_locked
  <2> QED
    BY <2>1, <2>2, <2>3, <1>3, <1>4, <1>11
<1> QED
  BY <1>6, <1>7, <1>8, <1>9, <1>10, <1>11

\* Whoever was locked is still, and nobody has come to the device.
LEMMA LocksFewer ==
  ASSUME Files!PoolInv, Files!PoolSound',
         \A f \in Files!Fds : /\ alt_fd_list'[f].dev \in {alt_fd_list[f].dev, Files!None}
                              /\ "EXCL" \in alt_fd_list'[f].flags => "EXCL" \in alt_fd_list[f].flags
  PROVE  Files!LockAlone'
<1> SUFFICES ASSUME NEW f \in Files!Fds, NEW g \in Files!Fds, NEW h \in Files!Fds, NEW dev,
                    dev = alt_fd_list'[f].dev,
                    "EXCL" \in alt_fd_list'[f].flags,
                    alt_fd_list'[g].dev = dev, alt_fd_list'[h].dev = dev
             PROVE  f \notin Files!Std /\ (g # f => g > f) /\ (g # f /\ h # f => g = h)
  BY DEF Files!LockAlone, Files!Locks
<1>1. dev # Files!None
  BY DEF Files!PoolSound, Files!None
<1>2. /\ alt_fd_list[f].dev = dev /\ alt_fd_list[g].dev = dev /\ alt_fd_list[h].dev = dev
      /\ "EXCL" \in alt_fd_list[f].flags
  BY <1>1
<1>3. Files!LockAlone
  BY DEF Files!PoolInv
<1> QED
  BY <1>2, <1>3 DEF Files!LockAlone, Files!Locks

\* A call that opens nothing and leaves the flags alone.
LEMMA NothingOpened ==
  ASSUME Files!PoolInv, UNCHANGED <<Files!lists, alt_fd_list>>,
         alt_max_fd' \in -1 .. ALT_MAX_FD - 1, alt_max_fd' >= alt_max_fd,
         stage' = stage \/ (stage \notin Files!Early /\ stage' \in {"main", "dtors", "exit"}),
         ctors' \in 0 .. Constructors
  PROVE  Files!PoolInv' /\ Files!OpensUnlocked
<1>0. Files!TypeOK /\ Files!PoolSound /\ Files!StreamsShared
  BY DEF Files!PoolInv
<1>1. UNCHANGED <<alt_dev_list, alt_fs_list, alt_fd_list>>
  BY DEF Files!lists
<1>2. Files!TypeOK'
  BY <1>0, <1>1 DEF Files!TypeOK, Files!Early
<1>3. Files!PoolSound'
  <2> SUFFICES ASSUME NEW f \in Files!Fds
               PROVE  LET e == alt_fd_list[f] IN
                        /\ f \in Files!Std => e.dev # Files!None
                        /\ f \notin Files!Std /\ e.dev # Files!None => f <= alt_max_fd' /\ stage' \notin Files!Early
                        /\ "EXCL" \in e.flags => "DEV" \in e.flags /\ stage' \notin Files!Early
                        /\ "DEV" \in e.flags => e.dev \in {"null", "uart"} /\ alt_max_fd' > 2
    BY <1>1 DEF Files!PoolSound
  <2>1. f \in Nat /\ alt_max_fd \in Int /\ alt_max_fd' \in Int
    BY <1>0, Numbered DEF Files!TypeOK
  <2>2. stage \notin Files!Early => stage' \notin Files!Early
    BY DEF Files!Early
  <2> QED
    BY <2>1, <2>2, <1>0 DEF Files!PoolSound
<1>4. Files!StreamsShared'
  <2>1. Files!Stream' = Files!Stream
    BY <1>1 DEF Files!Stream, Files!Find
  <2>2. Files!Redirected' = Files!Redirected
    <3>1. CASE stage' = stage
      BY <3>1 DEF Files!Redirected
    <3>2. CASE stage \notin Files!Early /\ stage' \in {"main", "dtors", "exit"}
      BY <3>2 DEF Files!Redirected, Files!Early
    <3> QED
      BY <3>1, <3>2
  <2> QED
    BY <2>1, <2>2, <1>0, <1>1 DEF Files!StreamsShared
<1>5. Files!LockAlone'
  BY <1>1, <1>3, LocksFewer
<1> QED
  BY <1>1, <1>2, <1>3, <1>4, <1>5 DEF Files!PoolInv, Files!OpensUnlocked

\* An entry that is sound is written into a descriptor of the program.
Becomes(fd, e) ==
  /\ alt_fd_list' = [alt_fd_list EXCEPT ![fd] = e] /\ UNCHANGED Files!lists
  /\ fd \in Files!Std => e.dev = alt_fd_list[fd].dev
  /\ fd \notin Files!Std /\ e.dev # Files!None => fd <= alt_max_fd' /\ stage' \notin Files!Early
  /\ "EXCL" \in e.flags => "DEV" \in e.flags /\ stage' \notin Files!Early
  /\ "DEV" \in e.flags => e.dev \in {"null", "uart"} /\ alt_max_fd' > 2
  /\ alt_max_fd' \in -1 .. ALT_MAX_FD - 1 /\ alt_max_fd' >= alt_max_fd
  /\ stage = "main" /\ stage' \in {"main", "dtors", "exit"}
  /\ ctors' \in 0 .. Constructors

\* One descriptor gets an entry that is sound, the others keep theirs.
LEMMA EntrySet ==
  ASSUME Files!TypeOK, Files!PoolSound, Files!StreamsShared,
         NEW fd \in Files!Fds, NEW e \in Files!Entries, Becomes(fd, e)
  PROVE  /\ Files!TypeOK' /\ Files!PoolSound' /\ Files!StreamsShared'
         /\ \A f \in Files!Fds : alt_fd_list'[f] = IF f = fd THEN e ELSE alt_fd_list[f]
<1> USE DEF Becomes
<1>1. UNCHANGED <<alt_dev_list, alt_fs_list>>
  BY DEF Files!lists
<1>2. \A f \in Files!Fds : alt_fd_list'[f] = IF f = fd THEN e ELSE alt_fd_list[f]
  BY DEF Files!TypeOK
<1>3. Files!TypeOK'
  BY <1>1 DEF Files!TypeOK, Files!Early
<1>4. Files!PoolSound'
  <2> SUFFICES ASSUME NEW f \in Files!Fds
               PROVE  LET a == alt_fd_list'[f] IN
                        /\ f \in Files!Std => a.dev # Files!None
                        /\ f \notin Files!Std /\ a.dev # Files!None => f <= alt_max_fd' /\ stage' \notin Files!Early
                        /\ "EXCL" \in a.flags => "DEV" \in a.flags /\ stage' \notin Files!Early
                        /\ "DEV" \in a.flags => a.dev \in {"null", "uart"} /\ alt_max_fd' > 2
    BY DEF Files!PoolSound
  <2>1. f \in Nat /\ alt_max_fd \in Int /\ alt_max_fd' \in Int
    BY Numbered DEF Files!TypeOK
  <2>2. stage \notin Files!Early => stage' \notin Files!Early
    BY DEF Files!Early
  <2>3. CASE f = fd
    BY <2>3, <1>2 DEF Files!PoolSound
  <2>4. CASE f # fd
    BY <2>1, <2>2, <2>4, <1>2 DEF Files!PoolSound
  <2> QED
    BY <2>3, <2>4
<1>5. Files!StreamsShared'
  <2>1. Files!Stream' = Files!Stream
    BY <1>1 DEF Files!Stream, Files!Find
  <2>2. Files!Redirected' = Files!Redirected
    BY DEF Files!Redirected
  <2>3. \A f \in Files!Std : alt_fd_list'[f].dev = alt_fd_list[f].dev
    BY <1>2, Numbered
  <2> QED
    BY <2>1, <2>2, <2>3 DEF Files!StreamsShared
<1> QED
  BY <1>2, <1>3, <1>4, <1>5

\* A descriptor is given back, or keeps its device and gets no lock.
LEMMA EntryChanged ==
  ASSUME Files!PoolInv, NEW fd \in Files!Fds, NEW e \in Files!Entries,
         alt_fd_list' = [alt_fd_list EXCEPT ![fd] = e],
         \/ fd \notin Files!Std /\ e = Files!Unused
         \/ /\ e.dev = alt_fd_list[fd].dev
            /\ "EXCL" \in e.flags => "EXCL" \in alt_fd_list[fd].flags
            /\ "DEV" \in e.flags <=> "DEV" \in alt_fd_list[fd].flags,
         UNCHANGED <<Files!lists, alt_max_fd>>,
         stage = "main", stage' \in {"main", "dtors", "exit"},
         ctors' \in 0 .. Constructors
  PROVE  Files!PoolInv' /\ Files!OpensUnlocked
<1>1. Files!TypeOK /\ Files!PoolSound /\ Files!StreamsShared
  BY DEF Files!PoolInv
<1>2. /\ alt_max_fd' = alt_max_fd /\ alt_max_fd \in -1 .. ALT_MAX_FD - 1
      /\ alt_max_fd' \in -1 .. ALT_MAX_FD - 1 /\ alt_max_fd' >= alt_max_fd
      /\ stage' \notin Files!Early /\ UNCHANGED Files!lists
  BY <1>1 DEF Files!TypeOK, Files!Early
<1>3. /\ fd \in Files!Std => e.dev = alt_fd_list[fd].dev
      /\ fd \notin Files!Std /\ e.dev # Files!None => fd <= alt_max_fd'
      /\ "EXCL" \in e.flags => "DEV" \in e.flags
      /\ "DEV" \in e.flags => e.dev \in {"null", "uart"} /\ alt_max_fd' > 2
  <2>1. CASE fd \notin Files!Std /\ e = Files!Unused
    BY <2>1 DEF Files!Unused
  <2>2. CASE ~(fd \notin Files!Std /\ e = Files!Unused)
    BY <2>2, <1>1, <1>2 DEF Files!PoolSound
  <2> QED
    BY <2>1, <2>2
<1>4. /\ Files!TypeOK' /\ Files!PoolSound' /\ Files!StreamsShared'
      /\ \A f \in Files!Fds : alt_fd_list'[f] = IF f = fd THEN e ELSE alt_fd_list[f]
  <2>1. Becomes(fd, e)
    BY <1>1, <1>2, <1>3 DEF Becomes
  <2> QED
    BY <1>1, <2>1, EntrySet
<1>5. \A f \in Files!Fds : /\ alt_fd_list'[f].dev \in {alt_fd_list[f].dev, Files!None}
                           /\ "EXCL" \in alt_fd_list'[f].flags => "EXCL" \in alt_fd_list[f].flags
  BY <1>4 DEF Files!Unused
<1>6. Files!LockAlone'
  BY <1>4, <1>5, LocksFewer
<1>7. Files!OpensUnlocked
  BY <1>5 DEF Files!OpensUnlocked
<1> QED
  BY <1>4, <1>6, <1>7 DEF Files!PoolInv

\* A lock is granted to a descriptor that at most the highest one shares.
LEMMA LockKeeps ==
  ASSUME Files!PoolInv, stage = "main", stage' = "main", ctors' = ctors,
         UNCHANGED Files!lists,
         NEW fd \in Files!Held, Files!Lock(fd)
  PROVE  Files!PoolInv' /\ Files!OpensUnlocked
<1>1. Files!TypeOK /\ Files!PoolSound /\ Files!StreamsShared /\ Files!LockAlone
  BY DEF Files!PoolInv
<1>2. CASE Files!Shared(fd)
  BY <1>1, <1>2, NothingOpened DEF Files!Lock, Files!pool, Files!TypeOK
<1>3. CASE ~Files!Shared(fd)
  <2> DEFINE e == [alt_fd_list[fd] EXCEPT !.flags = @ \cup {"EXCL"}]
             dev == alt_fd_list[fd].dev
  <2>1. /\ fd \in Files!Fds /\ dev # Files!None /\ "DEV" \in alt_fd_list[fd].flags
        /\ alt_fd_list' = [alt_fd_list EXCEPT ![fd] = e] /\ UNCHANGED alt_max_fd
        /\ \A i \in 0 .. alt_max_fd - 1 : i # fd => alt_fd_list[i].dev # dev
    BY <1>3 DEF Files!Lock, Files!Held, Files!Shared
  <2>2. alt_fd_list[fd] \in Files!Entries /\ alt_max_fd \in -1 .. ALT_MAX_FD - 1
    BY <2>1, <1>1 DEF Files!TypeOK
  <2>3. /\ e \in Files!Entries /\ e.dev = dev /\ "EXCL" \in e.flags
        /\ "DEV" \in e.flags
    BY <2>1, <2>2 DEF Files!Entries
  <2> HIDE DEF e
  <2>4. dev \in {"null", "uart"} /\ alt_max_fd > 2 /\ (fd \notin Files!Std => fd <= alt_max_fd)
    BY <2>1, <1>1 DEF Files!PoolSound
  <2>5. /\ stage' \notin Files!Early /\ ctors' \in 0 .. Constructors
        /\ alt_max_fd' \in -1 .. ALT_MAX_FD - 1 /\ alt_max_fd' >= alt_max_fd
    BY <2>1, <2>2, <1>1 DEF Files!Early, Files!TypeOK
  <2>6. /\ Files!TypeOK' /\ Files!PoolSound' /\ Files!StreamsShared'
        /\ \A f \in Files!Fds : alt_fd_list'[f] = IF f = fd THEN e ELSE alt_fd_list[f]
    <3>1. Becomes(fd, e)
      BY <2>1, <2>2, <2>3, <2>4, <2>5, <1>1 DEF Becomes
    <3> QED
      BY <2>1, <2>3, <3>1, <1>1, EntrySet
  <2>7. fd \notin Files!Std
    <3> SUFFICES ASSUME fd \in Files!Std PROVE FALSE
      OBVIOUS
    <3>1. \A f \in Files!Std : alt_fd_list[f].dev = dev
      BY <1>1 DEF Files!StreamsShared, Files!Redirected
    <3>2. PICK f \in Files!Std : f # fd
      BY DEF Files!Std
    <3>3. f \in 0 .. alt_max_fd - 1
      BY <3>2, <2>2, <2>4 DEF Files!Std
    <3> QED
      BY <3>1, <3>2, <3>3, <2>1
  <2>8. ASSUME NEW g \in Files!Fds, alt_fd_list[g].dev = dev, g # fd
        PROVE  g = alt_max_fd /\ g > fd
    <3>1. g \notin 0 .. alt_max_fd - 1 /\ g \in Nat /\ fd \in Nat
      BY <2>1, <2>8, Numbered
    <3>2. g \notin Files!Std
      BY <3>1, <2>2, <2>4 DEF Files!Std
    <3>3. g <= alt_max_fd
      BY <3>2, <2>1, <2>8, <1>1 DEF Files!PoolSound
    <3> QED
      BY <3>1, <3>3, <2>2, <2>4, <2>7, <2>8
  <2>9. ASSUME NEW f \in Files!Fds, NEW g \in Files!Fds, NEW h \in Files!Fds, NEW d,
               Files!Locks(f, d)',
               d = alt_fd_list'[f].dev, alt_fd_list'[g].dev = d, alt_fd_list'[h].dev = d
        PROVE  f \notin Files!Std /\ (g # f => g > f) /\ (g # f /\ h # f => g = h)
    <3>1. alt_fd_list[f].dev = d /\ alt_fd_list[g].dev = d /\ alt_fd_list[h].dev = d
      BY <2>3, <2>6, <2>9
    <3>2. CASE f = fd
      BY <3>1, <3>2, <2>7, <2>8
    <3>3. CASE f # fd
      <4>1. Files!Locks(f, d)
        BY <3>1, <3>3, <2>6, <2>9 DEF Files!Locks
      <4> QED
        BY <4>1, <3>1, <1>1 DEF Files!LockAlone
    <3> QED
      BY <3>2, <3>3
  <2>10. Files!LockAlone'
    BY <2>9 DEF Files!LockAlone
  <2>11. Files!OpensUnlocked
    BY <2>3, <2>6 DEF Files!OpensUnlocked
  <2> QED
    BY <2>6, <2>10, <2>11 DEF Files!PoolInv
<1> QED
  BY <1>2, <1>3

\* A descriptor is opened: nobody has locked its device.
LEMMA OpenKeeps ==
  ASSUME Files!PoolInv, stage = "main", Files!Open
  PROVE  Files!PoolInv' /\ Files!OpensUnlocked
<1>1. Files!TypeOK /\ Files!PoolSound /\ Files!StreamsShared /\ Files!LockAlone
  BY DEF Files!PoolInv
<1>2. PICK name \in Files!Names, mode \in Modes, wish \in SUBSET {"NONBLOCK", "EXCL"}, refused \in BOOLEAN :
        LET o == Files!Opening(name, mode, Files!Unlocked(wish), refused)
        IN  /\ alt_fd_list' = IF o.err = "ok" THEN [alt_fd_list EXCEPT ![o.fd] = o.entry]
                              ELSE alt_fd_list
            /\ alt_max_fd' = o.mark
            /\ answer' = o.err
  BY DEF Files!Open
<1>3. /\ UNCHANGED Files!lists /\ stage' = "main" /\ stage' \notin Files!Early
      /\ ctors' \in 0 .. Constructors
  BY <1>1 DEF Files!Open, Files!Calls, Files!Early, Files!TypeOK
<1>4. mode \in {"r", "w"} /\ Files!Unlocked(wish) \in SUBSET {"NONBLOCK"}
  BY BoardAssumption DEF Files!Bounds, Files!Unlocked
<1>5. PICK flags \in SUBSET {"NONBLOCK"} : flags = Files!Unlocked(wish)
  BY <1>4
<1>6. PICK o : o = Files!Opening(name, mode, flags, refused)
  OBVIOUS
<1>7. /\ alt_fd_list' = IF o.err = "ok" THEN [alt_fd_list EXCEPT ![o.fd] = o.entry] ELSE alt_fd_list
      /\ alt_max_fd' = o.mark
  BY <1>2, <1>5, <1>6
<1>8. /\ o.mark \in -1 .. ALT_MAX_FD - 1 /\ o.mark >= alt_max_fd
      /\ o.err = "ok" =>
           /\ o.fd \in Files!Free \ Files!Std /\ o.fd <= o.mark
           /\ o.entry \in Files!Entries /\ o.entry.dev # Files!None
           /\ "EXCL" \notin o.entry.flags
           /\ "DEV" \in o.entry.flags => o.entry.dev \in {"null", "uart"}
           /\ \A g \in Files!Fds : ~Files!Locks(g, o.entry.dev)
  BY <1>4, <1>6, Opened
<1>9. CASE o.err # "ok"
  BY <1>1, <1>3, <1>7, <1>8, <1>9, NothingOpened
<1>10. CASE o.err = "ok"
  <2>1. PICK fd \in Files!Fds, e \in Files!Entries : fd = o.fd /\ e = o.entry
    BY <1>8, <1>10 DEF Files!Free
  <2>2. /\ alt_fd_list' = [alt_fd_list EXCEPT ![fd] = e]
        /\ fd \notin Files!Std /\ alt_fd_list[fd].dev = Files!None /\ fd <= alt_max_fd'
        /\ e.dev # Files!None /\ "EXCL" \notin e.flags
        /\ "DEV" \in e.flags => e.dev \in {"null", "uart"}
        /\ \A g \in Files!Fds : ~Files!Locks(g, e.dev)
        /\ alt_max_fd' \in -1 .. ALT_MAX_FD - 1 /\ alt_max_fd' >= alt_max_fd
    BY <2>1, <1>7, <1>8, <1>10 DEF Files!Free
  <2>3. alt_max_fd' > 2
    BY <2>2, Numbered
  <2>4. /\ Files!TypeOK' /\ Files!PoolSound' /\ Files!StreamsShared'
        /\ \A f \in Files!Fds : alt_fd_list'[f] = IF f = fd THEN e ELSE alt_fd_list[f]
    <3>1. Becomes(fd, e)
      BY <2>2, <2>3, <1>3 DEF Becomes
    <3> QED
      BY <3>1, <1>1, EntrySet
  <2>5. ASSUME NEW f \in Files!Fds, NEW g \in Files!Fds, NEW h \in Files!Fds, NEW d,
               Files!Locks(f, d)',
               d = alt_fd_list'[f].dev, alt_fd_list'[g].dev = d, alt_fd_list'[h].dev = d
        PROVE  f \notin Files!Std /\ (g # f => g > f) /\ (g # f /\ h # f => g = h)
    <3>1. f # fd /\ Files!Locks(f, d)
      BY <2>2, <2>4, <2>5 DEF Files!Locks
    <3>2. d # e.dev
      BY <3>1, <2>2
    <3>3. alt_fd_list[f].dev = d /\ alt_fd_list[g].dev = d /\ alt_fd_list[h].dev = d
      BY <3>1, <3>2, <2>4, <2>5
    <3> QED
      BY <3>1, <3>3, <1>1 DEF Files!LockAlone
  <2>6. Files!LockAlone'
    BY <2>5 DEF Files!LockAlone
  <2>7. Files!OpensUnlocked
    BY <2>2, <2>4 DEF Files!OpensUnlocked
  <2> QED
    BY <2>4, <2>6, <2>7 DEF Files!PoolInv
<1> QED
  BY <1>9, <1>10

\* A call that opens and closes at once leaves only the mark behind.
LEMMA StatKeeps ==
  ASSUME Files!PoolInv, stage = "main", Files!Stat
  PROVE  Files!PoolInv' /\ Files!OpensUnlocked
<1>1. PICK name \in Files!Names, refused \in BOOLEAN : alt_max_fd' = Files!Opening(name, "r", {}, refused).mark
  BY DEF Files!Stat
<1>2. PICK o : o = Files!Opening(name, "r", {}, refused)
  OBVIOUS
<1>3. o.mark \in -1 .. ALT_MAX_FD - 1 /\ o.mark >= alt_max_fd
  <2>1. "r" \in {"r", "w"} /\ {} \in SUBSET {"NONBLOCK"}
    OBVIOUS
  <2> QED
    BY <2>1, <1>2, Opened
<1>4. UNCHANGED <<Files!lists, alt_fd_list>> /\ stage' = stage /\ ctors' \in 0 .. Constructors
  BY DEF Files!Stat, Files!Calls, Files!PoolInv, Files!TypeOK
<1> QED
  BY <1>1, <1>2, <1>3, <1>4, NothingOpened

\* A descriptor is given back, unless it is one of the standard ones.
LEMMA ReleaseKeeps ==
  ASSUME Files!PoolInv, NEW fd \in Files!Fds, alt_fd_list' = Files!Released(fd),
         UNCHANGED <<Files!lists, alt_max_fd>>,
         stage = "main", stage' \in {"main", "dtors", "exit"}, ctors' \in 0 .. Constructors
  PROVE  Files!PoolInv' /\ Files!OpensUnlocked
<1>1. alt_max_fd \in -1 .. ALT_MAX_FD - 1 /\ UNCHANGED Files!lists
  BY DEF Files!PoolInv, Files!TypeOK
<1>2. CASE fd > 2
  <2>1. fd \notin Files!Std /\ Files!Unused \in Files!Entries
    BY <1>2, Numbered DEF Files!Std, Files!Unused, Files!Entries
  <2> QED
    BY <1>2, <2>1, EntryChanged DEF Files!Released
<1>3. CASE ~(fd > 2)
  <2>1. UNCHANGED <<Files!lists, alt_fd_list>> /\ stage \notin Files!Early
    BY <1>1, <1>3 DEF Files!Released, Files!Early
  <2> QED
    BY <1>1, <2>1, NothingOpened
<1> QED
  BY <1>2, <1>3

\* Flags change, but not those that lock or that tell a device.
LEMMA FlagsKeep ==
  ASSUME Files!PoolInv, NEW fd \in Files!Fds,
         NEW flags \in SUBSET {"NONBLOCK", "EXCL", "DEV"},
         alt_fd_list' = [alt_fd_list EXCEPT ![fd].flags = flags],
         "EXCL" \in flags => "EXCL" \in alt_fd_list[fd].flags,
         "DEV" \in flags <=> "DEV" \in alt_fd_list[fd].flags,
         UNCHANGED <<Files!lists, alt_max_fd>>, stage = "main", stage' = "main", ctors' = ctors
  PROVE  Files!PoolInv' /\ Files!OpensUnlocked
<1> DEFINE e == [alt_fd_list[fd] EXCEPT !.flags = flags]
<1>1. Files!TypeOK
  BY DEF Files!PoolInv
<1>2. alt_fd_list[fd] \in Files!Entries
  BY <1>1 DEF Files!TypeOK
<1>3. e \in Files!Entries /\ e.dev = alt_fd_list[fd].dev /\ e.flags = flags
  BY <1>2 DEF Files!Entries
<1>4. alt_fd_list' = [alt_fd_list EXCEPT ![fd] = e]
  BY DEF Files!TypeOK
<1> HIDE DEF e
<1>5. ctors' \in 0 .. Constructors
  BY <1>1 DEF Files!TypeOK
<1> QED
  BY <1>3, <1>4, <1>5, EntryChanged

\* Before the program runs no descriptor is locked, and the first unused one
\* is opened whenever the name is found.
LEMMA OpenedEarly ==
  ASSUME Files!PoolInv, stage \in Files!Early, NEW mode, NEW refused, ~refused,
         NEW o, o = Files!Opening(ALT_STDOUT, mode, {}, refused)
  PROVE  IF o.err = "ok" THEN o.entry.dev = Files!Stream ELSE Files!Stream = "null"
<1>0. Files!TypeOK /\ Files!PoolSound
  BY DEF Files!PoolInv
<1> DEFINE device == Files!Find(alt_dev_list, ALT_STDOUT)
           dev    == IF device # Files!None THEN device ELSE Files!Find(alt_fs_list, ALT_STDOUT)
           fd     == Files!Min(Files!Free)
           mark   == Files!Max({alt_max_fd, fd})
           failed(err, m) == [err |-> err, fd |-> -1, mark |-> m, entry |-> Files!Unused]
           entry  == Files!Fd(dev, mode, IF device # Files!None THEN {} \cup {"DEV"} ELSE {})
<1>1. Files!Free # {}
  <2>1. 3 \in Files!Fds \ Files!Std
    BY Numbered DEF Files!Fds, Files!Std
  <2>2. alt_fd_list[3].dev = Files!None
    BY <2>1, <1>0 DEF Files!PoolSound
  <2> QED
    BY <2>1, <2>2 DEF Files!Free
<1>2. alt_max_fd \in -1 .. ALT_MAX_FD - 1
  BY <1>0 DEF Files!TypeOK
<1>3. Files!Free \subseteq Files!Fds
  BY DEF Files!Free
<1>4. fd \in 0 .. ALT_MAX_FD - 1
  BY <1>1, <1>3, Numbered, LowestIn DEF Files!Fds
<1>5. mark \in Int /\ mark < ALT_MAX_FD
  <2> HIDE DEF fd
  <2>1. alt_max_fd \in Int /\ fd \in Int
    BY <1>2, <1>4
  <2>2. mark \in {alt_max_fd, fd}
    BY <2>1, HigherOf
  <2> QED
    BY <2>2, <1>2, <1>4, Numbered
<1>6. ~Files!alt_file_locked(fd, dev, mark)
  <2> HIDE DEF fd, dev, mark
  <2>1. 0 .. mark \subseteq Files!Fds
    BY <1>5, Numbered DEF Files!Fds
  <2> QED
    BY <2>1, <1>0 DEF Files!PoolSound, Files!alt_file_locked
<1> HIDE DEF device, dev, fd, mark
<1>7. o = CASE dev = Files!None -> failed("ENODEV", alt_max_fd)
            [] dev # Files!None /\ Files!Free = {} -> failed("EMFILE", alt_max_fd)
            [] dev # Files!None /\ Files!Free # {} /\ device # Files!None /\ Files!alt_file_locked(fd, dev, mark)
                 -> failed("EACCES", mark)
            [] dev # Files!None /\ Files!Free # {} /\ device = Files!None /\ "open" \in Files!Provides[dev] /\ refused
                 -> failed("EIO", mark)
            [] OTHER -> [err |-> "ok", fd |-> fd, mark |-> mark, entry |-> entry]
  BY DEF Files!Opening, device, dev, fd, mark
<1>8. Files!Stream = IF dev # Files!None THEN dev ELSE "null"
  BY DEF Files!Stream, dev, device
<1>9. entry.dev = dev
  BY DEF Files!Fd
<1> HIDE DEF entry
<1>10. CASE dev = Files!None
  <2>1. o = failed("ENODEV", alt_max_fd)
    BY <1>7, <1>10
  <2>2. o.err = "ENODEV"
    BY <2>1
  <2> QED
    BY <2>2, <1>8, <1>10
<1>11. CASE dev # Files!None
  <2>1. o = [err |-> "ok", fd |-> fd, mark |-> mark, entry |-> entry]
    BY <1>1, <1>6, <1>7, <1>11
  <2>2. o.err = "ok" /\ o.entry = entry
    BY <2>1
  <2> QED
    BY <2>2, <1>8, <1>9, <1>11
<1> QED
  BY <1>10, <1>11

\* A standard stream gets the device that all three share.
LEMMA RedirectKeeps ==
  ASSUME Files!PoolInv, NEW i \in 1 .. 3, Files!Redirect(i)
  PROVE  Files!PoolInv' /\ Files!OpensUnlocked
<1> DEFINE mode == IF Files!StdFd[i] = 0 THEN "r" ELSE "w"
           fd   == Files!StdFd[i]
<1>1. Files!TypeOK /\ Files!PoolSound /\ Files!StreamsShared /\ Files!LockAlone
  BY DEF Files!PoolInv
<1>2. fd \in Files!Std /\ mode \in {"r", "w"} /\ {} \in SUBSET {"NONBLOCK"}
  BY DEF Files!StdFd, Files!Std
<1>3. stage \in Files!Early /\ stage' \in Files!Early
  BY DEF Files!Redirect, Files!Goto, Files!Early
<1>4. Files!StdName[i] = ALT_STDOUT
  BY BoardAssumption DEF Files!Bounds, Files!StdName
<1>5. PICK o : o = Files!Opening(ALT_STDOUT, mode, {}, FALSE)
  OBVIOUS
<1>6. /\ alt_fd_list' = IF o.err = "ok" THEN [alt_fd_list EXCEPT ![fd] = o.entry] ELSE alt_fd_list
      /\ alt_max_fd' = o.mark
      /\ UNCHANGED <<alt_dev_list, alt_fs_list, ctors>>
  BY <1>4, <1>5 DEF Files!Redirect, Files!lists
<1>7. /\ o.mark \in -1 .. ALT_MAX_FD - 1 /\ o.mark >= alt_max_fd
      /\ o.err = "ok" =>
           /\ o.fd \in Files!Free \ Files!Std /\ o.fd <= o.mark
           /\ o.entry \in Files!Entries /\ o.entry.dev # Files!None
           /\ "EXCL" \notin o.entry.flags
           /\ "DEV" \in o.entry.flags => o.entry.dev \in {"null", "uart"}
           /\ \A g \in Files!Fds : ~Files!Locks(g, o.entry.dev)
  BY <1>2, <1>5, Opened, ZenonT(40)
<1>8. IF o.err = "ok" THEN o.entry.dev = Files!Stream ELSE Files!Stream = "null"
  BY <1>3, <1>5, OpenedEarly
<1> HIDE DEF mode
<1>9. o.err = "ok" => alt_max_fd' > 2
  <2>1. o.err = "ok" => o.fd \in Files!Fds \ Files!Std /\ o.fd <= o.mark
    BY <1>7 DEF Files!Free
  <2>2. o.err = "ok" => o.fd \in 3 .. ALT_MAX_FD - 1
    BY <2>1, Numbered
  <2> QED
    BY <2>1, <2>2, <1>6, <1>7, Numbered
<1>10. alt_fd_list' \in [Files!Fds -> Files!Entries]
       /\ \A f \in Files!Fds : alt_fd_list'[f] = IF f = fd /\ o.err = "ok" THEN o.entry ELSE alt_fd_list[f]
  BY <1>1, <1>2, <1>6, <1>7, Numbered DEF Files!TypeOK
<1>11. Files!TypeOK'
  BY <1>1, <1>3, <1>6, <1>7, <1>10 DEF Files!TypeOK
<1>12. Files!PoolSound'
  <2> SUFFICES ASSUME NEW f \in Files!Fds
               PROVE  LET a == alt_fd_list'[f] IN
                        /\ f \in Files!Std => a.dev # Files!None
                        /\ f \notin Files!Std => a.dev = Files!None
                        /\ "EXCL" \notin a.flags
                        /\ "DEV" \in a.flags => a.dev \in {"null", "uart"} /\ alt_max_fd' > 2
    BY DEF Files!PoolSound
  <2>1. CASE f = fd /\ o.err = "ok"
    BY <2>1, <1>2, <1>7, <1>9, <1>10
  <2>2. CASE ~(f = fd /\ o.err = "ok")
    <3>1. alt_max_fd > 2 => alt_max_fd' > 2
      BY <1>1, <1>6, <1>7 DEF Files!TypeOK
    <3> QED
      BY <3>1, <2>2, <1>1, <1>3, <1>10 DEF Files!PoolSound
  <2> QED
    BY <2>1, <2>2
<1>13. Files!StreamsShared'
  <2>1. Files!Stream' = Files!Stream
    BY <1>6 DEF Files!Stream, Files!Find
  <2>2. Files!Redirected' = Files!Redirected \cup {fd} /\ fd \notin Files!Redirected
    <3>1. CASE i = 1
      BY <3>1 DEF Files!Redirect, Files!Goto, Files!Redirected, Files!StdFd
    <3>2. CASE i = 2
      BY <3>2 DEF Files!Redirect, Files!Goto, Files!Redirected, Files!StdFd
    <3>3. CASE i = 3
      BY <3>3 DEF Files!Redirect, Files!Goto, Files!Redirected, Files!StdFd, Files!Std
    <3> QED
      BY <3>1, <3>2, <3>3
  <2> HIDE DEF fd
  <2> SUFFICES ASSUME NEW f \in Files!Std
               PROVE  alt_fd_list'[f].dev = IF f \in Files!Redirected \cup {fd} THEN Files!Stream ELSE "null"
    BY <2>1, <2>2 DEF Files!StreamsShared
  <2>3. alt_fd_list[f].dev = IF f \in Files!Redirected THEN Files!Stream ELSE "null"
    BY <1>1 DEF Files!StreamsShared
  <2>4. alt_fd_list'[f] = IF f = fd /\ o.err = "ok" THEN o.entry ELSE alt_fd_list[f]
    BY <1>10, Numbered
  <2> QED
    BY <2>2, <2>3, <2>4, <1>8
<1>14. Files!LockAlone'
  BY <1>3, <1>12 DEF Files!LockAlone, Files!Locks, Files!PoolSound
<1>15. Files!OpensUnlocked
  BY <1>1, <1>3 DEF Files!OpensUnlocked, Files!Locks, Files!PoolSound
<1> QED
  BY <1>11, <1>12, <1>13, <1>14, <1>15 DEF Files!PoolInv

\* A list is longer by a device.
LEMMA Registered ==
  ASSUME NEW S, NEW e \in S, NEW list \in Seq(S)
  PROVE  <<e>> \o list \in Seq(S)
OBVIOUS

\* The steps of start-up that leave the pool alone.
LEMMA StartUpKeeps ==
  ASSUME Files!PoolInv, Files!AltIrqInit \/ Files!AltSysInit \/ Files!CallMain
  PROVE  Files!PoolInv' /\ Files!OpensUnlocked
<1>1. Files!TypeOK /\ Files!PoolSound /\ Files!StreamsShared /\ Files!LockAlone
  BY DEF Files!PoolInv
<1>2. UNCHANGED <<alt_fd_list, alt_max_fd>>
  BY DEF Files!AltIrqInit, Files!AltSysInit, Files!CallMain, Files!pool
<1>3. /\ stage \in Files!Early /\ stage' \in Files!Early \cup {"main"}
      /\ ctors' \in {ctors, Constructors}
      /\ Files!Redirected' = Files!Redirected
      /\ alt_dev_list' \in {alt_dev_list, <<"uart">> \o alt_dev_list}
      /\ alt_fs_list' \in {alt_fs_list, <<"fs">> \o alt_fs_list}
      /\ Files!Redirected # {} => UNCHANGED <<alt_dev_list, alt_fs_list>>
  <2>1. CASE Files!AltIrqInit
    BY <2>1 DEF Files!AltIrqInit, Files!Goto, Files!Early, Files!Redirected, Files!lists
  <2>2. CASE Files!AltSysInit
    BY <2>2 DEF Files!AltSysInit, Files!Goto, Files!Early, Files!Redirected,
      Files!alt_dev_llist_insert, Files!alt_fs_reg
  <2>3. CASE Files!CallMain
    BY <2>3 DEF Files!CallMain, Files!Goto, Files!Early, Files!Redirected, Files!lists
  <2> QED
    BY <2>1, <2>2, <2>3
<1>4. Files!TypeOK'
  <2>1. alt_dev_list' \in Seq({"null", "uart"}) /\ alt_fs_list' \in Seq({"fs"})
    <3>1. alt_dev_list \in Seq({"null", "uart"}) /\ alt_fs_list \in Seq({"fs"})
      BY <1>1 DEF Files!TypeOK
    <3> QED
      BY <3>1, <1>3, Registered
  <2>2. ctors' \in 0 .. Constructors
    BY <1>1, <1>3, BoardAssumption DEF Files!TypeOK, Files!Bounds
  <2> QED
    BY <2>1, <2>2, <1>1, <1>2, <1>3 DEF Files!TypeOK
<1>5. Files!PoolSound'
  BY <1>1, <1>2, <1>3 DEF Files!PoolSound
<1>6. Files!StreamsShared'
  <2>1. Files!Redirected # {} => Files!Stream' = Files!Stream
    BY <1>3 DEF Files!Stream, Files!Find
  <2> QED
    BY <2>1, <1>1, <1>2, <1>3 DEF Files!StreamsShared
<1>7. Files!LockAlone' /\ Files!OpensUnlocked
  BY <1>1, <1>2 DEF Files!LockAlone, Files!Locks, Files!OpensUnlocked
<1> QED
  BY <1>4, <1>5, <1>6, <1>7 DEF Files!PoolInv

\* What the calls of the program do to the pool.
LEMMA CallKeeps ==
  ASSUME Files!PoolInv, stage = "main",
         \/ Files!Open \/ Files!Close \/ Files!Read \/ Files!Write
         \/ Files!Ioctl \/ Files!Fstat \/ Files!Isatty \/ Files!Lseek \/ Files!Fcntl \/ Files!Stat
         \/ Files!alt_getchar \/ Files!alt_putchar \/ Files!alt_putstr \/ Files!Stubs \/ Files!alt_kill
  PROVE  Files!PoolInv' /\ Files!OpensUnlocked
<1>1. Files!TypeOK
  BY DEF Files!PoolInv
<1>2. alt_max_fd \in -1 .. ALT_MAX_FD - 1 /\ stage \notin Files!Early /\ alt_max_fd >= alt_max_fd
      /\ ctors \in 0 .. Constructors
  BY <1>1 DEF Files!TypeOK, Files!Early
<1>3. ASSUME UNCHANGED <<Files!lists, Files!pool>>, stage' \in {"main", "exit"},
             ctors' = ctors
      PROVE  Files!PoolInv' /\ Files!OpensUnlocked
  BY <1>2, <1>3, NothingOpened DEF Files!pool
<1>4. CASE Files!Open
  BY <1>4, OpenKeeps
<1>5. CASE Files!Close
  BY <1>2, <1>3, <1>5, ReleaseKeeps DEF Files!Close, Files!Calls, Files!Bad, Files!Held
<1>6. CASE Files!Read \/ Files!Write \/ Files!Fstat \/ Files!Isatty \/ Files!Lseek
  BY <1>3, <1>6 DEF Files!Read, Files!Write, Files!Fstat, Files!Isatty, Files!Lseek,
    Files!Calls, Files!Bad, Files!Transfer
<1>7. CASE Files!Ioctl
  <2>1. UNCHANGED <<Files!lists, ctors>> /\ stage' = "main"
    BY <1>7 DEF Files!Ioctl, Files!Calls
  <2>2. CASE Files!Bad
    BY <2>1, <2>2, <1>3 DEF Files!Bad
  <2>3. ASSUME NEW fd \in Files!Held,
               Files!Lock(fd) PROVE Files!PoolInv' /\ Files!OpensUnlocked
    BY <2>1, <2>3, LockKeeps
  <2>4. ASSUME NEW fd \in Files!Held,
               Files!Unlock(fd) PROVE Files!PoolInv' /\ Files!OpensUnlocked
    <3> DEFINE flags == Files!Unlocked(alt_fd_list[fd].flags)
    <3>1. fd \in Files!Fds /\ alt_fd_list[fd] \in Files!Entries
      BY <1>1 DEF Files!Held, Files!TypeOK
    <3>2. /\ flags \in SUBSET {"NONBLOCK", "EXCL", "DEV"} /\ "EXCL" \notin flags
          /\ "DEV" \in flags <=> "DEV" \in alt_fd_list[fd].flags
      BY <3>1 DEF Files!Entries, Files!Unlocked
    <3>3. alt_fd_list' = [alt_fd_list EXCEPT ![fd].flags = flags] /\ UNCHANGED alt_max_fd
      BY <2>4 DEF Files!Unlock
    <3> HIDE DEF flags
    <3> QED
      BY <3>1, <3>2, <3>3, <2>1, FlagsKeep
  <2>5. ASSUME NEW fd \in Files!Held,
               Files!Vector(fd) PROVE Files!PoolInv' /\ Files!OpensUnlocked
    BY <2>1, <2>5, <1>3 DEF Files!Vector
  <2> QED
    BY <1>7, <2>2, <2>3, <2>4, <2>5 DEF Files!Ioctl
<1>8. CASE Files!Fcntl
  <2>1. UNCHANGED <<Files!lists, ctors>> /\ stage' = "main"
    BY <1>8 DEF Files!Fcntl, Files!Calls
  <2>2. CASE Files!Bad \/ UNCHANGED Files!pool
    BY <2>1, <2>2, <1>3 DEF Files!Bad
  <2>3. CASE \E fd \in Files!Held \cap Flagged, flags \in SUBSET {"NONBLOCK"} :
               /\ alt_fd_list' = [alt_fd_list EXCEPT ![fd].flags = (@ \ {"NONBLOCK"}) \cup flags]
               /\ answer' = "ok" /\ UNCHANGED alt_max_fd
    <3>1. PICK fd \in Files!Held \cap Flagged, set \in SUBSET {"NONBLOCK"} :
            /\ alt_fd_list' = [alt_fd_list EXCEPT ![fd].flags = (@ \ {"NONBLOCK"}) \cup set]
            /\ UNCHANGED alt_max_fd
      BY <2>3
    <3> DEFINE flags == (alt_fd_list[fd].flags \ {"NONBLOCK"}) \cup set
    <3>2. fd \in Files!Fds /\ alt_fd_list[fd] \in Files!Entries
      BY <1>1 DEF Files!Held, Files!TypeOK
    <3>3. /\ flags \in SUBSET {"NONBLOCK", "EXCL", "DEV"}
          /\ "EXCL" \in flags => "EXCL" \in alt_fd_list[fd].flags
          /\ "DEV" \in flags <=> "DEV" \in alt_fd_list[fd].flags
      BY <3>2 DEF Files!Entries
    <3>4. alt_fd_list' = [alt_fd_list EXCEPT ![fd].flags = flags]
      BY <3>1
    <3> HIDE DEF flags
    <3> QED
      BY <3>1, <3>2, <3>3, <3>4, <2>1, FlagsKeep
  <2> QED
    BY <1>8, <2>2, <2>3 DEF Files!Fcntl
<1>9. CASE Files!Stat
  BY <1>9, StatKeeps
<1>10. CASE Files!alt_getchar \/ Files!alt_putchar \/ Files!alt_putstr
  BY <1>3, <1>10 DEF Files!alt_getchar, Files!alt_putchar, Files!alt_putstr, Files!Calls,
    Files!Transfer
<1>11. CASE Files!Stubs
  BY <1>3, <1>11 DEF Files!Stubs, Files!Fails, Files!Calls, Files!alt_fork, Files!alt_link,
    Files!alt_unlink, Files!alt_rename, Files!alt_execve,
     Files!alt_wait, Files!alt_dma_txchan_open, Files!alt_dma_rxchan_open
<1>12. CASE Files!alt_kill
  BY <1>3, <1>12 DEF Files!alt_kill
<1> QED
  BY <1>4, <1>5, <1>6, <1>7, <1>8, <1>9, <1>10, <1>11, <1>12

\* Start-up, exit and every call keep the invariant, and open nothing that is
\* locked.
LEMMA PoolSteps ==
  ASSUME Files!PoolInv, [Files!Next]_Files!vars
  PROVE  Files!PoolInv' /\ Files!OpensUnlocked
<1>1. Files!TypeOK
  BY DEF Files!PoolInv
<1>2. alt_max_fd \in -1 .. ALT_MAX_FD - 1 /\ alt_max_fd >= alt_max_fd /\ ctors \in 0 .. Constructors
      /\ (ctors > 0 => ctors - 1 \in 0 .. Constructors)
  BY <1>1, BoardAssumption DEF Files!TypeOK, Files!Bounds
<1>3. CASE Files!AltIrqInit \/ Files!AltSysInit \/ Files!CallMain
  BY <1>3, StartUpKeeps
<1>4. ASSUME NEW i \in 1 .. 3, Files!Redirect(i) PROVE Files!PoolInv' /\ Files!OpensUnlocked
  BY <1>4, RedirectKeeps
<1>5. CASE Files!Construct \/ Files!Destruct \/ Files!AltExit \/ Files!Spin \/ UNCHANGED Files!vars
  <2>1. /\ UNCHANGED <<Files!lists, alt_fd_list, alt_max_fd>> /\ ctors' \in 0 .. Constructors
        /\ stage' = stage \/ (stage = "dtors" /\ stage' = "exit")
    BY <1>2, <1>5 DEF Files!Construct, Files!Destruct, Files!AltExit, Files!Spin,
      Files!Goto, Files!vars, Files!pool
  <2> QED
    BY <2>1, <1>2, NothingOpened DEF Files!Early
<1>6. CASE Files!Return
  <2>1. 1 \in Files!Fds
    BY Numbered DEF Files!Std
  <2> QED
    BY <2>1, <1>2, <1>6, ReleaseKeeps DEF Files!Return, Files!Goto
<1>7. ASSUME \/ Files!Open \/ Files!Close \/ Files!Read \/ Files!Write
             \/ Files!Ioctl \/ Files!Fstat \/ Files!Isatty \/ Files!Lseek \/ Files!Fcntl \/ Files!Stat
             \/ Files!alt_getchar \/ Files!alt_putchar \/ Files!alt_putstr \/ Files!Stubs \/ Files!alt_kill
      PROVE  Files!PoolInv' /\ Files!OpensUnlocked
  <2>1. stage = "main"
    BY <1>7 DEF Files!Open, Files!Close, Files!Read, Files!Write, Files!Ioctl, Files!Fstat,
      Files!Isatty, Files!Lseek, Files!Fcntl, Files!Stat, Files!alt_getchar,
       Files!alt_putchar, Files!alt_putstr, Files!Stubs, Files!Fails, Files!Calls,
       Files!alt_fork, Files!alt_link, Files!alt_unlink, Files!alt_rename,
       Files!alt_execve, Files!alt_wait, Files!alt_dma_txchan_open,
       Files!alt_dma_rxchan_open, Files!alt_kill
  <2> QED
    BY <2>1, <1>7, CallKeeps
<1> QED
  BY <1>3, <1>4, <1>5, <1>6, <1>7 DEF Files!Next, Files!AltMain

\* The pool as the program finds it loaded.
LEMMA PoolAtStart ==
  ASSUME Files!Init
  PROVE  Files!PoolInv
<1>1. Files!TypeOK
  <2>1. <<"null">> \in Seq({"null", "uart"}) /\ <<>> \in Seq({"fs"})
    OBVIOUS
  <2>2. /\ -1 \in -1 .. ALT_MAX_FD - 1 /\ Constructors \in 0 .. Constructors
        /\ Files!Unused \in Files!Entries /\ Files!Fd("null", "r", {}) \in Files!Entries
    BY BoardAssumption DEF Files!Bounds, Files!Unused, Files!Fd, Files!Entries,
      Files!Provides
  <2> QED
    BY <2>1, <2>2 DEF Files!Init, Files!TypeOK, Files!Early
<1>2. \A f \in Files!Fds : /\ alt_fd_list[f].flags = {}
                           /\ alt_fd_list[f].dev = IF f \in Files!Std THEN "null" ELSE Files!None
  BY DEF Files!Init, Files!Unused, Files!Fd
<1>3. Files!PoolSound
  BY <1>2 DEF Files!PoolSound, Files!None
<1>4. Files!StreamsShared
  BY <1>2, Numbered DEF Files!Init, Files!StreamsShared, Files!Redirected
<1>5. Files!LockAlone
  BY <1>2 DEF Files!LockAlone, Files!Locks
<1> QED
  BY <1>1, <1>3, <1>4, <1>5 DEF Files!PoolInv

\* At most two descriptors share a locked device.
LEMMA AtMostTwo ==
  ASSUME Files!PoolInv
  PROVE  Files!LockOfTwo
<1>1. Files!LockAlone /\ Files!PoolSound
  BY DEF Files!PoolInv
<1> SUFFICES ASSUME NEW f \in Files!Fds, NEW dev, dev = alt_fd_list[f].dev,
                    Files!Locks(f, dev)
             PROVE  /\ f \notin Files!Std
                    /\ \A g \in Files!Fds : Files!Locks(g, dev) => g = f
                    /\ \E h \in Files!Fds : \A g \in Files!Fds : alt_fd_list[g].dev = dev => g \in {f, h}
  BY DEF Files!LockOfTwo
<1>2. f \notin Files!Std
  BY <1>1 DEF Files!LockAlone
<1>3. ASSUME NEW g \in Files!Fds, Files!Locks(g, dev), g # f PROVE FALSE
  <2>1. g > f /\ f > g /\ f \in Nat /\ g \in Nat
    BY <1>1, <1>3, Numbered DEF Files!LockAlone, Files!Locks
  <2> QED
    BY <2>1
<1> DEFINE Users == {g \in Files!Fds : alt_fd_list[g].dev = dev}
<1>4. PICK h \in Files!Fds : Users \subseteq {f, h}
  <2>1. CASE Users \subseteq {f}
    BY <2>1
  <2>2. CASE ~(Users \subseteq {f})
    <3>1. PICK h \in Users : h # f
      BY <2>2
    <3>2. \A g \in Users : g # f => g = h
      BY <3>1, <1>1 DEF Files!LockAlone
    <3> QED
      BY <3>1, <3>2
  <2> QED
    BY <2>1, <2>2
<1> QED
  BY <1>2, <1>3, <1>4

-----------------------------------------------------------------------------
(* The alarms.                                                             *)

\* What the counter makes of a sum.
LEMMA Counted ==
  ASSUME NEW n \in Nat, n < 2 * TICKS
  PROVE  /\ n % TICKS = IF n < TICKS THEN n ELSE n - TICKS
         /\ n % TICKS \in 0 .. TICKS - 1
BY BoardAssumption, SMTT(30) DEF Clock!Bounds

\* The head of the ring is no alarm.
LEMMA HeadApart == Clock!alt_alarm_list \notin Alarm /\ Clock!Idle \notin Alarm /\ Clock!alt_alarm_list # Clock!Idle
BY BoardAssumption DEF Clock!Bounds, Clock!alt_alarm_list, Clock!Idle

\* Whoever is armed lies between two others.
LEMMA Linked ==
  ASSUME Clock!TypeOK, Clock!RingSound, NEW a \in Alarm
  PROVE  /\ next[a] \in Clock!Nodes /\ previous[a] \in Clock!Nodes
         /\ Clock!Armed(a) <=> previous[a] # a
         /\ Clock!Armed(a) /\ previous[a] \in Alarm => Clock!Armed(previous[a])
         /\ Clock!Armed(a) /\ next[a] \in Alarm => Clock!Armed(next[a])
         /\ Clock!Armed(a) => ~(next[a] \in Alarm /\ next[a] = previous[a])
<1>1. /\ next[a] \in Clock!Nodes /\ previous[a] \in Clock!Nodes /\ a \in Clock!Nodes
      /\ previous[next[a]] = a /\ next[previous[a]] = a
  BY DEF Clock!TypeOK, Clock!RingSound, Clock!Nodes
<1>2. Clock!Armed(a) /\ next[a] \in Alarm => next[a] # previous[a]
  <2> SUFFICES ASSUME Clock!Armed(a), next[a] \in Alarm, next[a] = previous[a] PROVE FALSE
    OBVIOUS
  <2> DEFINE S == {a, next[a]}
  <2>1. Clock!Armed(next[a])
    BY <1>1 DEF Clock!Armed
  <2>2. PICK b \in S : previous[b] \notin S
    BY <2>1 DEF Clock!RingSound
  <2> QED
    BY <2>2, <1>1
<1>3. Clock!Armed(a) <=> previous[a] # a
  BY <1>1 DEF Clock!Armed
<1>4. Clock!Armed(a) => next[previous[a]] # previous[a]
  BY <1>1, <1>3
<1>5. Clock!Armed(a) /\ next[a] \in Clock!Nodes => next[next[a]] # next[a]
  <2> SUFFICES ASSUME Clock!Armed(a), next[next[a]] = next[a] PROVE FALSE
    OBVIOUS
  <2>1. previous[next[next[a]]] = next[a]
    BY <1>1 DEF Clock!RingSound
  <2> QED
    BY <2>1, <1>1 DEF Clock!Armed
<1> QED
  BY <1>1, <1>2, <1>3, <1>4, <1>5 DEF Clock!Armed

\* An alarm is linked in behind the head.
LEMMA Inserted ==
  ASSUME Clock!TypeOK, Clock!RingSound, NEW e \in Alarm, ~Clock!Armed(e),
         Clock!alt_llist_insert(e)
  PROVE  /\ next' \in [Clock!Nodes -> Clock!Nodes] /\ previous' \in [Clock!Nodes -> Clock!Nodes]
         /\ Clock!RingSound'
         /\ \A a \in Alarm : Clock!Armed(a)' <=> Clock!Armed(a) \/ a = e
         /\ \A a \in Alarm \ {e} : next'[a] = next[a]
         /\ \A a \in Alarm \ {e} : previous'[a] = IF previous[a] = Clock!alt_alarm_list THEN e ELSE previous[a]
<1> DEFINE head == Clock!alt_alarm_list
           first == next[head]
<1>1. /\ next \in [Clock!Nodes -> Clock!Nodes] /\ previous \in [Clock!Nodes -> Clock!Nodes]
      /\ head \in Clock!Nodes /\ e \in Clock!Nodes /\ first \in Clock!Nodes /\ e # head
      /\ \A n \in Clock!Nodes : previous[next[n]] = n /\ next[previous[n]] = n
      /\ next[e] = e
  BY HeadApart DEF Clock!TypeOK, Clock!RingSound, Clock!Nodes, Clock!Armed
<1>2. previous[first] = head /\ previous[e] = e /\ first # e
  BY <1>1
<1>3. /\ next' = [next EXCEPT ![e] = first, ![head] = e]
      /\ previous' = [previous EXCEPT ![e] = head, ![first] = e]
  BY DEF Clock!alt_llist_insert
<1> HIDE DEF first, head
<1>4. /\ next' \in [Clock!Nodes -> Clock!Nodes] /\ previous' \in [Clock!Nodes -> Clock!Nodes]
      /\ \A n \in Clock!Nodes : next'[n] = IF n = head THEN e ELSE IF n = e THEN first ELSE next[n]
      /\ \A n \in Clock!Nodes : previous'[n] = IF n = first THEN e ELSE IF n = e THEN head ELSE previous[n]
  BY <1>1, <1>2, <1>3
<1>5. \A n \in Clock!Nodes : previous[n] = head <=> n = first
  BY <1>1, <1>2 DEF first
<1>6. \A n \in Clock!Nodes : previous[n] = e <=> n = e
  BY <1>1, <1>2
<1>7. \A n \in Clock!Nodes : next[n] \in Clock!Nodes /\ previous[n] \in Clock!Nodes
  BY <1>1
<1>8. \A n \in Clock!Nodes : next[n] = e <=> n = e
  BY <1>1, <1>2, <1>7
<1>9. \A n \in Clock!Nodes : next[n] = first <=> n = head
  BY <1>1, <1>2, <1>7 DEF first
<1>10. \A n \in Clock!Nodes : previous'[next'[n]] = n /\ next'[previous'[n]] = n
  <2> SUFFICES ASSUME NEW n \in Clock!Nodes PROVE previous'[next'[n]] = n /\ next'[previous'[n]] = n
    OBVIOUS
  <2>1. previous'[next'[n]] = n
    <3>1. CASE n = head
      BY <3>1, <1>1, <1>2, <1>4
    <3>2. CASE n = e
      BY <3>2, <1>1, <1>2, <1>4
    <3>3. CASE n # head /\ n # e
      BY <3>3, <1>1, <1>4, <1>7, <1>8, <1>9
    <3> QED
      BY <3>1, <3>2, <3>3
  <2>2. next'[previous'[n]] = n
    <3>1. CASE n = first
      BY <3>1, <1>1, <1>2, <1>4
    <3>2. CASE n = e
      BY <3>2, <1>1, <1>2, <1>4
    <3>3. CASE n # first /\ n # e
      BY <3>3, <1>1, <1>4, <1>5, <1>6, <1>7
    <3> QED
      BY <3>1, <3>2, <3>3
  <2> QED
    BY <2>1, <2>2
<1>11. \A a \in Alarm : a \in Clock!Nodes /\ a # head
  BY HeadApart DEF Clock!Nodes, head
<1>12. \A a \in Alarm : Clock!Armed(a)' <=> Clock!Armed(a) \/ a = e
  BY <1>2, <1>4, <1>11 DEF Clock!Armed
<1>13. /\ \A a \in Alarm \ {e} : next'[a] = next[a]
       /\ \A a \in Alarm \ {e} : previous'[a] = IF previous[a] = head THEN e ELSE previous[a]
  BY <1>4, <1>5, <1>11
<1>14. ASSUME NEW S \in SUBSET {a \in Alarm : Clock!Armed(a)'}, S # {}
       PROVE  \E a \in S : previous'[a] \notin S
  <2>1. CASE e \in S
    <3>1. previous'[e] = head
      BY <1>1, <1>2, <1>4
    <3>2. head \notin S
      BY <1>11
    <3> QED
      BY <2>1, <3>1, <3>2
  <2>2. CASE e \notin S
    <3>1. S \in SUBSET {a \in Alarm : Clock!Armed(a)}
      BY <2>2, <1>12
    <3>2. PICK a \in S : previous[a] \notin S
      BY <3>1, <1>14 DEF Clock!RingSound
    <3>3. a \in Alarm \ {e}
      BY <2>2, <3>1
    <3> QED
      BY <2>2, <3>2, <3>3, <1>13
  <2> QED
    BY <2>1, <2>2
<1> QED
  BY <1>4, <1>10, <1>12, <1>13, <1>14 DEF Clock!RingSound, head

\* An alarm is taken out, or was not in.
LEMMA Removed ==
  ASSUME Clock!TypeOK, Clock!RingSound, NEW e \in Alarm, Clock!alt_llist_remove(e)
  PROVE  /\ next' \in [Clock!Nodes -> Clock!Nodes] /\ previous' \in [Clock!Nodes -> Clock!Nodes]
         /\ Clock!RingSound'
         /\ \A a \in Alarm : Clock!Armed(a)' <=> Clock!Armed(a) /\ a # e
         /\ \A a \in Alarm \ {e} : next'[a] = IF next[a] = e THEN next[e] ELSE next[a]
         /\ \A a \in Alarm \ {e} : previous'[a] = IF previous[a] = e THEN previous[e] ELSE previous[a]
<1> DEFINE p == previous[e]
           q == next[e]
<1>1. /\ next \in [Clock!Nodes -> Clock!Nodes] /\ previous \in [Clock!Nodes -> Clock!Nodes]
      /\ e \in Clock!Nodes /\ p \in Clock!Nodes /\ q \in Clock!Nodes
      /\ \A n \in Clock!Nodes : previous[next[n]] = n /\ next[previous[n]] = n
      /\ previous[q] = e /\ next[p] = e
  BY DEF Clock!TypeOK, Clock!RingSound, Clock!Nodes
<1>2. /\ next' = [[next EXCEPT ![p] = q] EXCEPT ![e] = e]
      /\ previous' = [[previous EXCEPT ![q] = p] EXCEPT ![e] = e]
  BY DEF Clock!alt_llist_remove
<1>3. p = previous[e] /\ q = next[e]
  OBVIOUS
<1> HIDE DEF p, q
<1>4. /\ next' \in [Clock!Nodes -> Clock!Nodes] /\ previous' \in [Clock!Nodes -> Clock!Nodes]
      /\ \A n \in Clock!Nodes : next'[n] = IF n = e THEN e ELSE IF n = p THEN q ELSE next[n]
      /\ \A n \in Clock!Nodes : previous'[n] = IF n = e THEN e ELSE IF n = q THEN p ELSE previous[n]
  BY <1>1, <1>2
<1>5. \A n \in Clock!Nodes : /\ next[n] \in Clock!Nodes /\ previous[n] \in Clock!Nodes
                             /\ previous[n] = e <=> n = q
                             /\ next[n] = e <=> n = p
                             /\ next[n] = q <=> n = e
                             /\ previous[n] = p <=> n = e
  BY <1>1, <1>3
<1>6. \A n \in Clock!Nodes : previous'[next'[n]] = n /\ next'[previous'[n]] = n
  <2> SUFFICES ASSUME NEW n \in Clock!Nodes PROVE previous'[next'[n]] = n /\ next'[previous'[n]] = n
    OBVIOUS
  <2>0. next[n] \in Clock!Nodes /\ previous[n] \in Clock!Nodes
    BY <1>5
  <2>1. CASE n = e
    BY <2>1, <1>1, <1>4
  <2>2. CASE n # e
    <3>1. previous'[next'[n]] = n
      <4>1. CASE n = p
        <5>1. q # e
          BY <4>1, <2>2, <1>5, <1>1
        <5> QED
          BY <5>1, <4>1, <2>2, <1>1, <1>4
      <4>2. CASE n # p
        BY <4>2, <2>2, <2>0, <1>1, <1>4, <1>5
      <4> QED
        BY <4>1, <4>2
    <3>2. next'[previous'[n]] = n
      <4>1. CASE n = q
        <5>1. p # e
          BY <4>1, <2>2, <1>5, <1>1
        <5> QED
          BY <5>1, <4>1, <2>2, <1>1, <1>4
      <4>2. CASE n # q
        BY <4>2, <2>2, <2>0, <1>1, <1>4, <1>5
      <4> QED
        BY <4>1, <4>2
    <3> QED
      BY <3>1, <3>2
  <2> QED
    BY <2>1, <2>2
<1>7. \A a \in Alarm : a \in Clock!Nodes
  BY DEF Clock!Nodes
<1>8. /\ \A a \in Alarm \ {e} : next'[a] = IF next[a] = e THEN next[e] ELSE next[a]
      /\ \A a \in Alarm \ {e} : previous'[a] = IF previous[a] = e THEN previous[e] ELSE previous[a]
  BY <1>3, <1>4, <1>5, <1>7
<1>9. \A a \in Alarm : Clock!Armed(a)' <=> Clock!Armed(a) /\ a # e
  <2> SUFFICES ASSUME NEW a \in Alarm PROVE Clock!Armed(a)' <=> Clock!Armed(a) /\ a # e
    OBVIOUS
  <2>1. CASE a = e
    BY <2>1, <1>1, <1>4 DEF Clock!Armed
  <2>2. CASE a # e /\ next[a] # e
    BY <2>2, <1>8 DEF Clock!Armed
  <2>3. CASE a # e /\ next[a] = e
    <3>1. Clock!Armed(a) /\ next[a] \in Alarm
      BY <2>3 DEF Clock!Armed
    <3>2. next[e] # a
      BY <3>1, <2>3, <1>1, <1>3, <1>7, Linked
    <3> QED
      BY <3>1, <3>2, <2>3, <1>8 DEF Clock!Armed
  <2> QED
    BY <2>1, <2>2, <2>3
<1>10. ASSUME NEW S \in SUBSET {a \in Alarm : Clock!Armed(a)'}, S # {}
       PROVE  \E a \in S : previous'[a] \notin S
  <2>1. S \in SUBSET {a \in Alarm : Clock!Armed(a)} /\ e \notin S
    BY <1>9
  <2>2. PICK b \in S : previous[b] \notin S
    BY <2>1, <1>10 DEF Clock!RingSound
  <2>3. CASE previous[b] # e
    BY <2>1, <2>2, <2>3, <1>8
  <2>4. CASE previous[b] = e
    <3>1. b = q /\ b \in Alarm \ {e} /\ previous'[b] = p
      BY <2>1, <2>2, <2>4, <1>3, <1>5, <1>7, <1>8
    <3>2. Clock!Armed(e)
      BY <3>1, <1>3 DEF Clock!Armed
    <3> DEFINE T == S \cup {e}
    <3>3. PICK c \in T : previous[c] \notin T
      BY <2>1, <3>2, ZenonT(40) DEF Clock!RingSound
    <3>4. CASE c = e
      BY <3>1, <3>3, <3>4, <1>3, <2>2
    <3>5. CASE c # e
      <4>1. c \in S /\ previous[c] # e /\ c \in Alarm \ {e}
        BY <3>3, <3>5, <2>1
      <4>2. previous'[c] = previous[c]
        BY <4>1, <1>8
      <4> QED
        BY <4>1, <4>2, <3>3
    <3> QED
      BY <3>4, <3>5
  <2> QED
    BY <2>3, <2>4
<1> QED
  BY <1>4, <1>6, <1>8, <1>9, <1>10 DEF Clock!RingSound

\* An alarm is due after the ticks that were asked for, on either side of the
\* moment when the counter starts again.
LEMMA DueFacts ==
  ASSUME Clock!TypeOK, NEW a \in Alarm, NEW k \in 1 .. TICKS - 1, NEW n \in Int,
         n = k + _alt_nticks,
         Clock!Due(a, n, _alt_nticks), UNCHANGED _alt_nticks
  PROVE  /\ time' \in [Alarm -> 0 .. TICKS - 1] /\ rollover' \in [Alarm -> BOOLEAN]
         /\ Clock!Waits(a)' = k /\ (rollover'[a] => _alt_nticks # 0)
         /\ \A b \in Alarm \ {a} : time'[b] = time[b] /\ rollover'[b] = rollover[b]
<1> DEFINE t == n % TICKS
           r == t < _alt_nticks
<1>1. _alt_nticks \in 0 .. TICKS - 1 /\ TICKS \in Nat /\ TICKS > 1
  BY BoardAssumption DEF Clock!TypeOK, Clock!Bounds
<1>2. n \in Nat /\ n < 2 * TICKS
  BY <1>1
<1>3. t = (IF n < TICKS THEN n ELSE n - TICKS) /\ t \in 0 .. TICKS - 1
  BY <1>2, Counted
<1>4. /\ time' = [time EXCEPT ![a] = t]
      /\ rollover' = [rollover EXCEPT ![a] = r]
  BY DEF Clock!Due
<1>5. r \in BOOLEAN
  OBVIOUS
<1>6. r <=> ~(n < TICKS)
  BY <1>1, <1>3
<1> HIDE DEF t, r
<1>7. /\ time' \in [Alarm -> 0 .. TICKS - 1] /\ rollover' \in [Alarm -> BOOLEAN]
      /\ time'[a] = t /\ rollover'[a] = r
      /\ \A b \in Alarm \ {a} : time'[b] = time[b] /\ rollover'[b] = rollover[b]
  BY <1>3, <1>4, <1>5 DEF Clock!TypeOK
<1>8. r => _alt_nticks # 0
  BY <1>1, <1>3 DEF r
<1>9. Clock!Marked(a)' <=> r
  BY <1>7, <1>8 DEF Clock!Marked
<1>10. Clock!Waits(a)' = t - _alt_nticks + (IF r THEN TICKS ELSE 0)
  BY <1>7, <1>9 DEF Clock!Waits
<1> QED
  BY <1>1, <1>3, <1>6, <1>7, <1>8, <1>10

\* Where the walk is, and what is left of it without the alarm it looks at.
LEMMA Advance ==
  ASSUME Clock!TypeOK, Clock!RingSound, NEW ahead \in SUBSET {a \in Alarm : Clock!Armed(a)},
         Clock!Walking(ahead),
         alarm \in Alarm
  PROVE  /\ alarm \in ahead /\ Clock!Armed(alarm) /\ previous[alarm] \notin ahead
         /\ next[alarm] \in Alarm => next[alarm] \in ahead \ {alarm} /\ previous[next[alarm]] = alarm
         /\ next[alarm] \notin Alarm => next[alarm] = Clock!alt_alarm_list /\ ahead \ {alarm} = {}
         /\ \A a \in ahead \ {alarm} : next[a] \in (ahead \ {alarm}) \cup {Clock!alt_alarm_list}
         /\ \A a \in ahead \ {alarm, next[alarm]} : previous[a] \in ahead \ {alarm}
<1>1. \A n \in Clock!Nodes : previous[next[n]] = n /\ next[previous[n]] = n
  BY DEF Clock!RingSound
<1>2. \A a \in Alarm : a \in Clock!Nodes
  BY DEF Clock!Nodes
<1>3. /\ alarm \in ahead /\ Clock!Armed(alarm) /\ previous[alarm] \notin ahead
      /\ \A a \in ahead : next[a] \in ahead \cup {Clock!alt_alarm_list}
      /\ \A a \in ahead \ {alarm} : previous[a] \in ahead
  BY DEF Clock!Walking
<1>4. next[alarm] \in Alarm => next[alarm] \in ahead \ {alarm} /\ previous[next[alarm]] = alarm
  BY <1>1, <1>2, <1>3, HeadApart DEF Clock!Armed
<1>5. ASSUME NEW a \in ahead \ {alarm}
      PROVE  next[a] \in (ahead \ {alarm}) \cup {Clock!alt_alarm_list}
  <2>1. a \in Clock!Nodes /\ a \in ahead
    BY <1>2
  <2>2. next[a] # alarm
    BY <2>1, <1>1, <1>3
  <2> QED
    BY <2>1, <2>2, <1>3
<1>6. ASSUME NEW a \in ahead \ {alarm, next[alarm]}
      PROVE  previous[a] \in ahead \ {alarm}
  <2>1. a \in Clock!Nodes /\ previous[a] \in ahead
    BY <1>2, <1>3
  <2>2. previous[a] # alarm
    BY <2>1, <1>1
  <2> QED
    BY <2>1, <2>2
<1>7. ASSUME next[alarm] \notin Alarm
      PROVE  next[alarm] = Clock!alt_alarm_list /\ ahead \ {alarm} = {}
  <2>1. next[alarm] = Clock!alt_alarm_list
    BY <1>3, <1>7
  <2>2. SUFFICES ASSUME ahead \ {alarm} # {} PROVE FALSE
    BY <2>1
  <2>3. PICK a \in ahead \ {alarm} : previous[a] \notin ahead \ {alarm}
    BY <2>2 DEF Clock!RingSound
  <2> QED
    BY <2>3, <1>6, <1>7
<1> QED
  BY <1>3, <1>4, <1>5, <1>6, <1>7

\* A tick: the walk begins, with all that are armed before it.
LEMMA WalkBegins ==
  ASSUME Clock!TypeOK, Clock!RingSound, NEW armed, armed = {a \in Alarm : Clock!Armed(a)}
  PROVE  /\ next[Clock!alt_alarm_list] \in Alarm =>
              next[Clock!alt_alarm_list] \in armed /\ previous[next[Clock!alt_alarm_list]] \notin armed
         /\ next[Clock!alt_alarm_list] \notin Alarm => armed = {}
         /\ \A a \in armed : next[a] \in armed \cup {Clock!alt_alarm_list}
         /\ \A a \in armed \ {next[Clock!alt_alarm_list]} : previous[a] \in armed
<1> DEFINE head == Clock!alt_alarm_list
           first == next[head]
<1>1. /\ \A n \in Clock!Nodes : previous[next[n]] = n /\ next[previous[n]] = n
      /\ \A n \in Clock!Nodes : next[n] \in Clock!Nodes /\ previous[n] \in Clock!Nodes
      /\ head \in Clock!Nodes /\ first \in Clock!Nodes /\ previous[first] = head
  BY DEF Clock!RingSound, Clock!TypeOK, Clock!Nodes
<1>2. /\ \A a \in Alarm : a \in Clock!Nodes /\ a # head
      /\ \A n \in Clock!Nodes : n \in Alarm \/ n = head
  BY HeadApart DEF Clock!Nodes
<1> HIDE DEF head
<1>3. first \in Alarm => first \in armed /\ previous[first] \notin armed
  <2> SUFFICES ASSUME first \in Alarm PROVE first \in armed /\ previous[first] \notin armed
    OBVIOUS
  <2>1. previous[first] # first
    BY <1>1, <1>2
  <2>2. Clock!Armed(first)
    BY <2>1, Linked
  <2> QED
    BY <2>2, <1>1, <1>2
<1>4. ASSUME NEW a \in armed PROVE next[a] \in armed \cup {head}
  <2>1. a \in Alarm /\ Clock!Armed(a) /\ next[a] \in Clock!Nodes
    BY <1>1, <1>2
  <2> QED
    BY <2>1, <1>2, Linked
<1>5. ASSUME NEW a \in armed, a # first PROVE previous[a] \in armed
  <2>1. a \in Alarm /\ Clock!Armed(a) /\ previous[a] \in Clock!Nodes /\ next[previous[a]] = a
    BY <1>1, <1>2
  <2>2. previous[a] # head
    BY <2>1, <1>5
  <2> QED
    BY <2>1, <2>2, <1>2, Linked
<1>6. ASSUME first \notin Alarm, armed # {} PROVE FALSE
  <2>1. PICK a \in armed : previous[a] \notin armed
    BY <1>6 DEF Clock!RingSound
  <2> QED
    BY <2>1, <1>5, <1>6
<1> QED
  BY <1>3, <1>4, <1>5, <1>6 DEF head

\* Whose mark and time are kept waits as before.
LEMMA WaitsKept ==
  ASSUME NEW a \in Alarm, UNCHANGED _alt_nticks, time'[a] = time[a],
         rollover'[a] = rollover[a]
  PROVE  Clock!Waits(a)' = Clock!Waits(a)
BY DEF Clock!Waits, Clock!Marked

\* An alarm is started, by the program or by the callback of another.
LEMMA StartKeeps ==
  ASSUME Clock!AlarmInv, NEW e \in Alarm, e # alarm, NEW n \in Requests,
         Clock!alt_alarm_start(e, n),
         UNCHANGED <<Clock!clock, alarm>>
  PROVE  Clock!AlarmInv'
<1>1. Clock!TypeOK /\ Clock!RingSound /\ Clock!WalkSound
  BY DEF Clock!AlarmInv
<1>2. UNCHANGED <<_alt_tick_rate, _alt_nticks, alarm>> /\ ~Clock!Armed(e)
  BY DEF Clock!clock, Clock!alt_alarm_start
<1>3. PICK ahead \in SUBSET {a \in Alarm : Clock!Armed(a)} : Clock!Walking(ahead) /\ Clock!DueSound(ahead)
  BY <1>1 DEF Clock!WalkSound
<1>4. CASE _alt_tick_rate = 0
  <2>1. UNCHANGED <<next, previous, time, rollover, left>>
    BY <1>4 DEF Clock!alt_alarm_start, Clock!ring, Clock!due
  <2> QED
    BY <1>1, <1>2, <2>1 DEF Clock!AlarmInv, Clock!TypeOK, Clock!RingSound, Clock!WalkSound,
      Clock!Walking, Clock!DueSound, Clock!Waits,
       Clock!Marked, Clock!Armed, Clock!Nodes
<1>5. CASE _alt_tick_rate # 0
  <2>1. /\ Clock!Due(e, n + _alt_nticks + 1, _alt_nticks)
        /\ left' = [left EXCEPT ![e] = n + 1]
        /\ Clock!alt_llist_insert(e)
    BY <1>5 DEF Clock!alt_alarm_start
  <2>2. n \in Nat /\ n + 1 \in 1 .. TICKS - 1 /\ n + _alt_nticks + 1 = (n + 1) + _alt_nticks
        /\ n + _alt_nticks + 1 \in Int
    BY <1>1, BoardAssumption DEF Clock!TypeOK, Clock!Bounds
  <2>3. /\ time' \in [Alarm -> 0 .. TICKS - 1] /\ rollover' \in [Alarm -> BOOLEAN]
        /\ Clock!Waits(e)' = n + 1 /\ (rollover'[e] => _alt_nticks # 0)
        /\ \A b \in Alarm \ {e} : time'[b] = time[b] /\ rollover'[b] = rollover[b]
    BY <1>1, <1>2, <2>1, <2>2, DueFacts
  <2>4. /\ next' \in [Clock!Nodes -> Clock!Nodes] /\ previous' \in [Clock!Nodes -> Clock!Nodes]
        /\ Clock!RingSound'
        /\ \A a \in Alarm : Clock!Armed(a)' <=> Clock!Armed(a) \/ a = e
        /\ \A a \in Alarm \ {e} : next'[a] = next[a]
        /\ \A a \in Alarm \ {e} : previous'[a] = IF previous[a] = Clock!alt_alarm_list THEN e ELSE previous[a]
    BY <1>1, <1>2, <2>1, Inserted
  <2>5. /\ left' \in [Alarm -> Int] /\ left'[e] = n + 1
        /\ \A b \in Alarm \ {e} : left'[b] = left[b]
    BY <1>1, <2>1, <2>2 DEF Clock!TypeOK
  <2>6. Clock!TypeOK'
    BY <1>1, <1>2, <2>3, <2>4, <2>5 DEF Clock!TypeOK, Clock!Nodes
  <2>7. ahead \in SUBSET {a \in Alarm : Clock!Armed(a)'} /\ e \notin ahead
    BY <1>2, <1>3, <2>4
  <2>8. Clock!Walking(ahead)'
    BY <1>2, <1>3, <2>4, <2>7, HeadApart DEF Clock!Walking
  <2>9. Clock!DueSound(ahead)'
    <3> SUFFICES ASSUME NEW a \in Alarm, Clock!Armed(a)'
                 PROVE  /\ left'[a] = Clock!Waits(a)'
                        /\ IF a \in ahead THEN left'[a] >= 0
                           ELSE left'[a] > 0 /\ (rollover'[a] => _alt_nticks' # 0)
      BY DEF Clock!DueSound
    <3>1. CASE a = e
      BY <3>1, <1>2, <2>2, <2>3, <2>5, <2>7
    <3>2. CASE a # e
      <4>1. Clock!Armed(a) /\ left'[a] = left[a] /\ time'[a] = time[a] /\ rollover'[a] = rollover[a]
        BY <3>2, <2>3, <2>4, <2>5
      <4>2. Clock!Waits(a)' = Clock!Waits(a)
        BY <4>1, <1>2, WaitsKept
      <4> QED
        BY <4>1, <4>2, <1>2, <1>3 DEF Clock!DueSound
    <3> QED
      BY <3>1, <3>2
  <2> QED
    BY <2>4, <2>6, <2>7, <2>8, <2>9 DEF Clock!AlarmInv, Clock!WalkSound
<1> QED
  BY <1>4, <1>5

\* An alarm is stopped, but not the one whose callback runs.
LEMMA StopKeeps ==
  ASSUME Clock!AlarmInv, NEW e \in Alarm, e # alarm, Clock!alt_alarm_stop(e),
         UNCHANGED <<Clock!clock, time, rollover, alarm>>
  PROVE  Clock!AlarmInv'
<1>1. Clock!TypeOK /\ Clock!RingSound /\ Clock!WalkSound
  BY DEF Clock!AlarmInv
<1>2. /\ UNCHANGED <<_alt_tick_rate, _alt_nticks, time, rollover, alarm>>
      /\ Clock!alt_llist_remove(e) /\ left' = [left EXCEPT ![e] = 0]
  BY DEF Clock!clock, Clock!alt_alarm_stop
<1>3. PICK ahead \in SUBSET {a \in Alarm : Clock!Armed(a)} : Clock!Walking(ahead) /\ Clock!DueSound(ahead)
  BY <1>1 DEF Clock!WalkSound
<1>4. /\ next' \in [Clock!Nodes -> Clock!Nodes] /\ previous' \in [Clock!Nodes -> Clock!Nodes]
      /\ Clock!RingSound'
      /\ \A a \in Alarm : Clock!Armed(a)' <=> Clock!Armed(a) /\ a # e
      /\ \A a \in Alarm \ {e} : next'[a] = IF next[a] = e THEN next[e] ELSE next[a]
      /\ \A a \in Alarm \ {e} : previous'[a] = IF previous[a] = e THEN previous[e] ELSE previous[a]
  BY <1>1, <1>2, Removed
<1>5. left' \in [Alarm -> Int] /\ \A b \in Alarm \ {e} : left'[b] = left[b]
  BY <1>1, <1>2 DEF Clock!TypeOK
<1>6. Clock!TypeOK'
  BY <1>1, <1>2, <1>4, <1>5 DEF Clock!TypeOK, Clock!Nodes
<1> DEFINE rest == ahead \ {e}
<1>7. rest \in SUBSET {a \in Alarm : Clock!Armed(a)'}
  BY <1>3, <1>4
<1>8. /\ next[e] \in Clock!Nodes /\ previous[e] \in Clock!Nodes
      /\ Clock!Armed(e) => (next[e] # e /\ previous[e] # e)
      /\ next[previous[e]] = e /\ previous[next[e]] = e
  BY <1>1, Linked DEF Clock!Armed, Clock!RingSound, Clock!Nodes
<1>9. Clock!Walking(rest)'
  <2>1. alarm' \in Alarm => alarm' \in rest /\ previous'[alarm'] \notin rest
    <3> SUFFICES ASSUME alarm \in Alarm PROVE alarm \in rest /\ previous'[alarm] \notin rest
      BY <1>2
    <3>1. alarm \in rest /\ previous[alarm] \notin ahead
      BY <1>3 DEF Clock!Walking
    <3>2. ASSUME previous[alarm] = e PROVE previous[e] \notin rest
      <4>1. e \notin ahead
        BY <3>1, <3>2
      <4>2. ASSUME previous[e] \in ahead PROVE FALSE
        <5>1. next[previous[e]] \in ahead \cup {Clock!alt_alarm_list}
          BY <1>3, <4>2 DEF Clock!Walking
        <5> QED
          BY <5>1, <1>8, <4>1, HeadApart
      <4> QED
        BY <4>2
    <3> QED
      BY <3>1, <3>2, <1>4
  <2>2. alarm' \notin Alarm => rest = {}
    BY <1>2, <1>3 DEF Clock!Walking
  <2>3. ASSUME NEW a \in rest PROVE next'[a] \in rest \cup {Clock!alt_alarm_list}
    <3>1. a \in Alarm \ {e} /\ next[a] \in ahead \cup {Clock!alt_alarm_list}
      BY <1>3 DEF Clock!Walking
    <3>2. CASE next[a] = e
      <4>1. e \in ahead
        BY <3>1, <3>2, HeadApart
      <4>2. Clock!Armed(e)
        BY <4>1, <1>3
      <4>3. next[e] \in ahead \cup {Clock!alt_alarm_list} /\ next[e] # e
        BY <4>1, <4>2, <1>3, <1>8 DEF Clock!Walking
      <4> QED
        BY <4>3, <3>1, <3>2, <1>4, HeadApart
    <3>3. CASE next[a] # e
      BY <3>1, <3>3, <1>4
    <3> QED
      BY <3>2, <3>3
  <2>4. ASSUME NEW a \in rest \ {alarm} PROVE previous'[a] \in rest
    <3>1. a \in Alarm \ {e} /\ previous[a] \in ahead
      BY <1>3 DEF Clock!Walking
    <3>2. CASE previous[a] = e
      <4>1. e \in ahead
        BY <3>1, <3>2
      <4>2. Clock!Armed(e)
        BY <4>1, <1>3
      <4>3. previous[e] \in ahead /\ previous[e] # e
        BY <4>1, <4>2, <1>3, <1>8 DEF Clock!Walking
      <4> QED
        BY <4>3, <3>1, <3>2, <1>4
    <3>3. CASE previous[a] # e
      BY <3>1, <3>3, <1>4
    <3> QED
      BY <3>2, <3>3
  <2> QED
    BY <2>1, <2>2, <2>3, <2>4, <1>2 DEF Clock!Walking
<1>10. Clock!DueSound(rest)'
  <2> SUFFICES ASSUME NEW a \in Alarm, Clock!Armed(a)'
               PROVE  /\ left'[a] = Clock!Waits(a)'
                      /\ IF a \in rest THEN left'[a] >= 0
                         ELSE left'[a] > 0 /\ (rollover'[a] => _alt_nticks' # 0)
    BY DEF Clock!DueSound
  <2>1. Clock!Armed(a) /\ a # e /\ left'[a] = left[a]
    BY <1>4, <1>5
  <2>2. Clock!Waits(a)' = Clock!Waits(a)
    BY <1>2, WaitsKept
  <2> QED
    BY <2>1, <2>2, <1>2, <1>3 DEF Clock!DueSound
<1> QED
  BY <1>4, <1>6, <1>7, <1>9, <1>10 DEF Clock!AlarmInv, Clock!WalkSound

\* The walk leaves an alarm behind that is not due, or no longer.
LEMMA LeftBehind ==
  ASSUME Clock!AlarmInv, NEW e \in Alarm, alarm = e, alarm' = next[e],
         UNCHANGED <<_alt_tick_rate, _alt_nticks, next, previous>>,
         time' \in [Alarm -> 0 .. TICKS - 1], rollover' \in [Alarm -> BOOLEAN], left' \in [Alarm -> Int],
         \A b \in Alarm \ {e} : time'[b] = time[b] /\ rollover'[b] = rollover[b] /\ left'[b] = left[b],
         left'[e] = Clock!Waits(e)', left'[e] > 0, rollover'[e] => _alt_nticks # 0
  PROVE  Clock!AlarmInv'
<1>1. Clock!TypeOK /\ Clock!RingSound /\ Clock!WalkSound
  BY DEF Clock!AlarmInv
<1>2. PICK ahead \in SUBSET {a \in Alarm : Clock!Armed(a)} : Clock!Walking(ahead) /\ Clock!DueSound(ahead)
  BY <1>1 DEF Clock!WalkSound
<1>3. PICK rest : rest = ahead \ {e}
  OBVIOUS
<1>4. /\ next[e] \in Alarm => next[e] \in rest /\ previous[next[e]] = e
      /\ next[e] \notin Alarm => next[e] = Clock!alt_alarm_list /\ rest = {}
      /\ \A a \in rest : next[a] \in rest \cup {Clock!alt_alarm_list}
      /\ \A a \in ahead \ {e, next[e]} : previous[a] \in rest
  BY <1>1, <1>2, <1>3, Advance
<1>5. \A a \in Alarm : Clock!Armed(a)' <=> Clock!Armed(a)
  BY DEF Clock!Armed
<1>6. next[e] \in Clock!Nodes
  BY <1>1 DEF Clock!TypeOK, Clock!Nodes
<1>7. Clock!TypeOK' /\ Clock!RingSound'
  BY <1>1, <1>6 DEF Clock!TypeOK, Clock!RingSound, Clock!Nodes, Clock!Armed
<1>8. rest \in SUBSET {a \in Alarm : Clock!Armed(a)'}
  BY <1>2, <1>3, <1>5
<1>9. Clock!Walking(rest)'
  BY <1>3, <1>4 DEF Clock!Walking
<1>10. Clock!DueSound(rest)'
  <2> SUFFICES ASSUME NEW a \in Alarm, Clock!Armed(a)'
               PROVE  /\ left'[a] = Clock!Waits(a)'
                      /\ IF a \in rest THEN left'[a] >= 0
                         ELSE left'[a] > 0 /\ (rollover'[a] => _alt_nticks' # 0)
    BY DEF Clock!DueSound
  <2>1. CASE a = e
    BY <2>1, <1>3
  <2>2. CASE a # e
    <3>1. Clock!Waits(a)' = Clock!Waits(a)
      BY <2>2, WaitsKept
    <3> QED
      BY <2>2, <3>1, <1>2, <1>3, <1>5 DEF Clock!DueSound
  <2> QED
    BY <2>1, <2>2
<1> QED
  BY <1>7, <1>8, <1>9, <1>10 DEF Clock!AlarmInv, Clock!WalkSound

\* What the walk finds of the alarm it looks at.
LEMMA LookedAt ==
  ASSUME Clock!AlarmInv, alarm \in Alarm
  PROVE  /\ Clock!Armed(alarm) /\ left[alarm] = Clock!Waits(alarm) /\ left[alarm] >= 0
         /\ Clock!Expired(alarm) => left[alarm] = 0 /\ time[alarm] = _alt_nticks
         /\ ~Clock!Expired(alarm) => left[alarm] > 0
<1>1. Clock!TypeOK /\ Clock!WalkSound
  BY DEF Clock!AlarmInv
<1>2. PICK ahead \in SUBSET {a \in Alarm : Clock!Armed(a)} : Clock!Walking(ahead) /\ Clock!DueSound(ahead)
  BY <1>1 DEF Clock!WalkSound
<1>3. alarm \in ahead /\ Clock!Armed(alarm)
  BY <1>2 DEF Clock!Walking
<1>4. left[alarm] = Clock!Waits(alarm) /\ left[alarm] >= 0
  BY <1>2, <1>3 DEF Clock!DueSound
<1>5. time[alarm] \in 0 .. TICKS - 1 /\ _alt_nticks \in 0 .. TICKS - 1 /\ TICKS \in Nat
  BY <1>1, BoardAssumption DEF Clock!TypeOK, Clock!Bounds
<1>6. Clock!Marked(alarm) \/ ~Clock!Marked(alarm)
  OBVIOUS
<1> QED
  BY <1>3, <1>4, <1>5, <1>6 DEF Clock!Waits, Clock!Expired

\* It is not due, and loses its mark if the counter has just started again.
LEMMA PassKeeps ==
  ASSUME Clock!AlarmInv, NEW a \in Alarm, Clock!Pass(a)
  PROVE  Clock!AlarmInv'
<1>1. /\ alarm = a /\ ~Clock!Expired(a) /\ alarm' = next[a]
      /\ rollover' = [rollover EXCEPT ![a] = Clock!Marked(a)]
      /\ UNCHANGED <<_alt_tick_rate, _alt_nticks, next, previous, time, left>>
  BY DEF Clock!Pass, Clock!Visiting, Clock!clock, Clock!ring
<1>2. Clock!TypeOK
  BY DEF Clock!AlarmInv
<1>3. left[a] = Clock!Waits(a) /\ left[a] > 0
  BY <1>1, LookedAt
<1>4. Clock!Marked(a) \in BOOLEAN /\ (Clock!Marked(a) => _alt_nticks # 0)
  BY <1>2 DEF Clock!Marked, Clock!TypeOK
<1>5. /\ rollover' \in [Alarm -> BOOLEAN] /\ rollover'[a] = Clock!Marked(a)
      /\ \A b \in Alarm \ {a} : rollover'[b] = rollover[b]
  BY <1>1, <1>2, <1>4 DEF Clock!TypeOK
<1>6. Clock!Waits(a)' = Clock!Waits(a)
  <2>1. Clock!Marked(a)' <=> Clock!Marked(a)
    BY <1>1, <1>4, <1>5 DEF Clock!Marked
  <2> QED
    BY <2>1, <1>1 DEF Clock!Waits
<1> QED
  BY <1>1, <1>2, <1>3, <1>4, <1>5, <1>6, LeftBehind DEF Clock!TypeOK

\* It is due, and wants to be called again.
LEMMA AgainKeeps ==
  ASSUME Clock!AlarmInv, NEW a \in Alarm, NEW k \in Intervals, Clock!Again(a, k)
  PROVE  Clock!AlarmInv'
<1>1. /\ alarm = a /\ Clock!Expired(a) /\ k # 0 /\ alarm' = next[a]
      /\ Clock!Due(a, time[a] + k, _alt_nticks)
      /\ left' = [left EXCEPT ![a] = k]
      /\ UNCHANGED <<_alt_tick_rate, _alt_nticks, next, previous>>
  BY DEF Clock!Again, Clock!Visiting, Clock!clock, Clock!ring
<1>2. Clock!TypeOK
  BY DEF Clock!AlarmInv
<1>3. time[a] = _alt_nticks
  BY <1>1, LookedAt
<1>4. k \in 1 .. TICKS - 1 /\ time[a] + k = k + _alt_nticks /\ time[a] + k \in Int
  BY <1>1, <1>2, <1>3, BoardAssumption DEF Clock!TypeOK, Clock!Bounds
<1>5. /\ time' \in [Alarm -> 0 .. TICKS - 1] /\ rollover' \in [Alarm -> BOOLEAN]
      /\ Clock!Waits(a)' = k /\ (rollover'[a] => _alt_nticks # 0)
      /\ \A b \in Alarm \ {a} : time'[b] = time[b] /\ rollover'[b] = rollover[b]
  BY <1>1, <1>2, <1>4, DueFacts
<1>6. left' \in [Alarm -> Int] /\ left'[a] = k /\ \A b \in Alarm \ {a} : left'[b] = left[b]
  BY <1>1, <1>2, <1>4 DEF Clock!TypeOK
<1> QED
  BY <1>1, <1>4, <1>5, <1>6, LeftBehind

\* It is due, and is taken out of the ring.
LEMMA NoMoreKeeps ==
  ASSUME Clock!AlarmInv, NEW e \in Alarm, Clock!NoMore(e)
  PROVE  Clock!AlarmInv'
<1>1. /\ alarm = e /\ alarm' = next[e]
      /\ Clock!alt_llist_remove(e) /\ left' = [left EXCEPT ![e] = 0]
      /\ rollover' = [rollover EXCEPT ![e] = Clock!Marked(e)]
      /\ UNCHANGED <<_alt_tick_rate, _alt_nticks, time>>
  BY DEF Clock!NoMore, Clock!Visiting, Clock!clock, Clock!alt_alarm_stop
<1>2. Clock!TypeOK /\ Clock!RingSound /\ Clock!WalkSound
  BY DEF Clock!AlarmInv
<1>3. PICK ahead \in SUBSET {a \in Alarm : Clock!Armed(a)} : Clock!Walking(ahead) /\ Clock!DueSound(ahead)
  BY <1>2 DEF Clock!WalkSound
<1> DEFINE rest == ahead \ {e}
<1>4. /\ e \in ahead /\ Clock!Armed(e) /\ previous[e] \notin ahead
      /\ next[e] \in Alarm => next[e] \in rest /\ previous[next[e]] = e
      /\ next[e] \notin Alarm => next[e] = Clock!alt_alarm_list /\ rest = {}
      /\ \A a \in rest : next[a] \in rest \cup {Clock!alt_alarm_list}
      /\ \A a \in ahead \ {e, next[e]} : previous[a] \in rest
  BY <1>1, <1>2, <1>3, Advance
<1>5. /\ next' \in [Clock!Nodes -> Clock!Nodes] /\ previous' \in [Clock!Nodes -> Clock!Nodes]
      /\ Clock!RingSound'
      /\ \A a \in Alarm : Clock!Armed(a)' <=> Clock!Armed(a) /\ a # e
      /\ \A a \in Alarm \ {e} : next'[a] = IF next[a] = e THEN next[e] ELSE next[a]
      /\ \A a \in Alarm \ {e} : previous'[a] = IF previous[a] = e THEN previous[e] ELSE previous[a]
  BY <1>1, <1>2, Removed
<1>6. /\ left' \in [Alarm -> Int] /\ rollover' \in [Alarm -> BOOLEAN]
      /\ \A b \in Alarm \ {e} : left'[b] = left[b] /\ rollover'[b] = rollover[b]
  <2>1. Clock!Marked(e) \in BOOLEAN
    BY <1>2 DEF Clock!Marked, Clock!TypeOK
  <2> QED
    BY <2>1, <1>1, <1>2 DEF Clock!TypeOK
<1>7. Clock!TypeOK'
  <2>1. next[e] \in Clock!Nodes
    BY <1>2 DEF Clock!TypeOK, Clock!Nodes
  <2> QED
    BY <2>1, <1>1, <1>2, <1>5, <1>6 DEF Clock!TypeOK, Clock!Nodes
<1>8. rest \in SUBSET {a \in Alarm : Clock!Armed(a)'}
  BY <1>3, <1>5
<1>9. Clock!Walking(rest)'
  <2>1. \A a \in rest : a \in Alarm \ {e} /\ a # previous[e]
    BY <1>3, <1>4
  <2>2. \A a \in rest : next'[a] = next[a]
    <3> SUFFICES ASSUME NEW a \in rest, next[a] = e PROVE FALSE
      BY <2>1, <1>5
    <3>1. e \in rest \cup {Clock!alt_alarm_list}
      BY <1>4
    <3> QED
      BY <3>1, HeadApart
  <2>3. \A a \in rest \ {next[e]} : previous'[a] = previous[a]
    <3> SUFFICES ASSUME NEW a \in rest \ {next[e]}, previous[a] = e PROVE FALSE
      BY <2>1, <1>5
    <3> QED
      BY <1>4
  <2>4. next[e] \in Alarm => previous'[next[e]] = previous[e]
    BY <2>1, <1>4, <1>5
  <2> QED
    BY <2>2, <2>3, <2>4, <1>1, <1>4 DEF Clock!Walking
<1>10. Clock!DueSound(rest)'
  <2> SUFFICES ASSUME NEW a \in Alarm, Clock!Armed(a)'
               PROVE  /\ left'[a] = Clock!Waits(a)'
                      /\ IF a \in rest THEN left'[a] >= 0
                         ELSE left'[a] > 0 /\ (rollover'[a] => _alt_nticks' # 0)
    BY DEF Clock!DueSound
  <2>1. Clock!Armed(a) /\ a # e /\ left'[a] = left[a] /\ rollover'[a] = rollover[a]
    BY <1>5, <1>6
  <2>2. Clock!Waits(a)' = Clock!Waits(a)
    BY <2>1, <1>1, WaitsKept
  <2> QED
    BY <2>1, <2>2, <1>1, <1>3 DEF Clock!DueSound
<1> QED
  BY <1>5, <1>7, <1>8, <1>9, <1>10 DEF Clock!AlarmInv, Clock!WalkSound

\* A tick has passed for all that wait, and the walk begins.
LEMMA TickKeeps ==
  ASSUME Clock!AlarmInv, Clock!Tick
  PROVE  Clock!AlarmInv'
<1>1. /\ alarm = Clock!Idle /\ alarm' = next[Clock!alt_alarm_list]
      /\ _alt_nticks' = (_alt_nticks + 1) % TICKS
      /\ left' = [a \in Alarm |-> IF Clock!Armed(a) THEN left[a] - 1 ELSE 0]
      /\ UNCHANGED <<_alt_tick_rate, next, previous, time, rollover>>
  BY DEF Clock!Tick, Clock!ring
<1>2. Clock!TypeOK /\ Clock!RingSound /\ Clock!WalkSound
  BY DEF Clock!AlarmInv
<1>3. Clock!DueSound({})
  BY <1>1, <1>2, HeadApart DEF Clock!WalkSound, Clock!Walking
<1>4. PICK armed : armed = {a \in Alarm : Clock!Armed(a)}
  OBVIOUS
<1>5. /\ next[Clock!alt_alarm_list] \in Alarm =>
           next[Clock!alt_alarm_list] \in armed /\ previous[next[Clock!alt_alarm_list]] \notin armed
      /\ next[Clock!alt_alarm_list] \notin Alarm => armed = {}
      /\ \A a \in armed : next[a] \in armed \cup {Clock!alt_alarm_list}
      /\ \A a \in armed \ {next[Clock!alt_alarm_list]} : previous[a] \in armed
  BY <1>2, <1>4, WalkBegins
<1>6. /\ _alt_nticks \in 0 .. TICKS - 1 /\ TICKS \in Nat /\ TICKS > 1
      /\ _alt_nticks' = IF _alt_nticks + 1 = TICKS THEN 0 ELSE _alt_nticks + 1
      /\ _alt_nticks' \in 0 .. TICKS - 1
  <2>1. _alt_nticks \in 0 .. TICKS - 1 /\ TICKS \in Nat /\ TICKS > 1
    BY <1>2, BoardAssumption DEF Clock!TypeOK, Clock!Bounds
  <2>2. _alt_nticks + 1 \in Nat /\ _alt_nticks + 1 < 2 * TICKS
    BY <2>1
  <2> QED
    BY <2>1, <2>2, <1>1, Counted
<1>7. Clock!TypeOK' /\ Clock!RingSound'
  <2>1. next[Clock!alt_alarm_list] \in Clock!Nodes
    BY <1>2 DEF Clock!TypeOK, Clock!Nodes
  <2>2. left' \in [Alarm -> Int]
    BY <1>1, <1>2 DEF Clock!TypeOK
  <2> QED
    BY <2>1, <2>2, <1>1, <1>2, <1>6 DEF Clock!TypeOK, Clock!RingSound, Clock!Nodes,
      Clock!Armed
<1>8. armed \in SUBSET {a \in Alarm : Clock!Armed(a)'}
  BY <1>1, <1>4 DEF Clock!Armed
<1>9. Clock!Walking(armed)'
  BY <1>1, <1>5 DEF Clock!Walking
<1>10. Clock!DueSound(armed)'
  <2> SUFFICES ASSUME NEW a \in Alarm, Clock!Armed(a)
               PROVE  left'[a] = Clock!Waits(a)' /\ left'[a] >= 0
    BY <1>1, <1>4 DEF Clock!DueSound, Clock!Armed
  <2>1. left[a] = Clock!Waits(a) /\ left[a] > 0 /\ (rollover[a] => _alt_nticks # 0)
    BY <1>3 DEF Clock!DueSound
  <2>2. left'[a] = left[a] - 1 /\ time'[a] = time[a] /\ rollover'[a] = rollover[a]
    BY <1>1
  <2>3. time[a] \in 0 .. TICKS - 1 /\ rollover[a] \in BOOLEAN
    BY <1>2 DEF Clock!TypeOK
  <2>4. left[a] = time[a] - _alt_nticks + (IF rollover[a] THEN TICKS ELSE 0)
    BY <2>1 DEF Clock!Waits, Clock!Marked
  <2>5. left[a] \in Int
    BY <2>3, <2>4, <1>6
  <2>6. Clock!Waits(a)' = time[a] - _alt_nticks' + (IF rollover[a] /\ _alt_nticks' # 0 THEN TICKS ELSE 0)
    BY <2>2 DEF Clock!Waits, Clock!Marked
  <2>7. CASE _alt_nticks + 1 = TICKS
    <3>1. rollover[a] /\ left[a] = time[a] + 1
      BY <2>1, <2>3, <2>4, <2>7, <1>6
    <3> QED
      BY <3>1, <2>2, <2>3, <2>5, <2>6, <2>7, <1>6
  <2>8. CASE _alt_nticks + 1 # TICKS
    BY <2>1, <2>2, <2>3, <2>4, <2>5, <2>6, <2>8, <1>6
  <2> QED
    BY <2>7, <2>8
<1> QED
  BY <1>7, <1>8, <1>9, <1>10 DEF Clock!AlarmInv, Clock!WalkSound

\* The walk is over: whoever was ahead of it has been looked at.
LEMMA WalkOver ==
  ASSUME Clock!AlarmInv, alarm \notin Alarm
  PROVE  Clock!DueSound({})
BY DEF Clock!AlarmInv, Clock!WalkSound, Clock!Walking

\* The walk ends, or the clock is set going: nobody's time changes.
LEMMA RestKeeps ==
  ASSUME Clock!AlarmInv, alarm \notin Alarm, alarm' \in {Clock!alt_alarm_list, Clock!Idle},
         _alt_tick_rate' \in {0, 1},
         UNCHANGED <<_alt_nticks, Clock!ring, Clock!due>>
  PROVE  Clock!AlarmInv'
<1>1. UNCHANGED <<_alt_nticks, next, previous, time, rollover, left>>
  BY DEF Clock!ring, Clock!due
<1>2. Clock!TypeOK' /\ Clock!RingSound'
  BY <1>1 DEF Clock!AlarmInv, Clock!TypeOK, Clock!RingSound, Clock!Nodes, Clock!Armed
<1>3. Clock!DueSound({})'
  BY <1>1, WalkOver DEF Clock!DueSound, Clock!Armed, Clock!Waits, Clock!Marked
<1>4. Clock!Walking({})'
  BY HeadApart DEF Clock!Walking
<1> QED
  BY <1>2, <1>3, <1>4 DEF Clock!AlarmInv, Clock!WalkSound

\* Nothing changes.
LEMMA StutterKeeps ==
  ASSUME Clock!AlarmInv, UNCHANGED Clock!vars
  PROVE  Clock!AlarmInv'
<1>1. UNCHANGED <<_alt_tick_rate, _alt_nticks, next, previous, time, rollover, left, alarm>>
  BY DEF Clock!vars, Clock!clock, Clock!ring, Clock!due
<1>2. Clock!TypeOK' /\ Clock!RingSound'
  BY <1>1 DEF Clock!AlarmInv, Clock!TypeOK, Clock!RingSound, Clock!Nodes, Clock!Armed
<1>3. PICK ahead \in SUBSET {a \in Alarm : Clock!Armed(a)} : Clock!Walking(ahead) /\ Clock!DueSound(ahead)
  BY DEF Clock!AlarmInv, Clock!WalkSound
<1>4. ahead \in SUBSET {a \in Alarm : Clock!Armed(a)'}
  BY <1>1, <1>3 DEF Clock!Armed
<1>5. Clock!Walking(ahead)'
  BY <1>1, <1>3 DEF Clock!Walking
<1>6. Clock!DueSound(ahead)'
  BY <1>1, <1>3 DEF Clock!DueSound, Clock!Armed, Clock!Waits, Clock!Marked
<1> QED
  BY <1>2, <1>4, <1>5, <1>6 DEF Clock!AlarmInv, Clock!WalkSound

\* An alarm is asked for, by the program or by a callback.
LEMMA AskedKeeps ==
  ASSUME Clock!AlarmInv, NEW e \in Alarm, NEW k \in Requests, Clock!alt_alarm_start(e, k),
         UNCHANGED <<Clock!clock, alarm>>
  PROVE  Clock!AlarmInv'
<1>1. e # alarm
  BY LookedAt DEF Clock!alt_alarm_start
<1> QED
  BY <1>1, StartKeeps

\* Before the clock is set going nobody waits.
LEMMA RingAtStart == Clock!Init => Clock!AlarmInv
<1> SUFFICES ASSUME Clock!Init PROVE Clock!AlarmInv
  OBVIOUS
<1>1. \A a \in Alarm : ~Clock!Armed(a)
  BY DEF Clock!Init, Clock!Armed, Clock!Nodes
<1>2. Clock!TypeOK
  BY BoardAssumption DEF Clock!Init, Clock!TypeOK, Clock!Bounds
<1>3. Clock!RingSound
  BY <1>1 DEF Clock!Init, Clock!RingSound
<1>4. Clock!Walking({}) /\ Clock!DueSound({})
  BY <1>1, HeadApart DEF Clock!Init, Clock!Walking, Clock!DueSound
<1> QED
  BY <1>2, <1>3, <1>4 DEF Clock!AlarmInv, Clock!WalkSound

\* Every step keeps it.
LEMMA RingSteps == Clock!AlarmInv /\ [Clock!Next]_Clock!vars => Clock!AlarmInv'
<1> SUFFICES ASSUME Clock!AlarmInv, [Clock!Next]_Clock!vars PROVE Clock!AlarmInv'
  OBVIOUS
<1>1. CASE Clock!alt_sysclk_init
  BY <1>1, HeadApart, RestKeeps DEF Clock!alt_sysclk_init
<1>2. CASE Clock!Start
  BY <1>2, AskedKeeps DEF Clock!Start
<1>3. CASE Clock!Stop
  <2>1. PICK e \in Alarm : Clock!alt_alarm_stop(e)
    BY <1>3 DEF Clock!Stop
  <2> QED
    BY <1>3, <2>1, HeadApart, StopKeeps DEF Clock!Stop
<1>4. CASE Clock!Tick
  BY <1>4, TickKeeps
<1>5. CASE Clock!TickEnds
  <2>1. _alt_tick_rate \in {0, 1}
    BY DEF Clock!AlarmInv, Clock!TypeOK
  <2> QED
    BY <1>5, <2>1, HeadApart, RestKeeps DEF Clock!TickEnds, Clock!clock
<1>6. ASSUME NEW a \in Alarm, Clock!Pass(a) PROVE Clock!AlarmInv'
  BY <1>6, PassKeeps
<1>7. ASSUME NEW a \in Alarm, Clock!NoMore(a) PROVE Clock!AlarmInv'
  BY <1>7, NoMoreKeeps
<1>8. ASSUME NEW a \in Alarm, Clock!CallbackStarts(a) PROVE Clock!AlarmInv'
  BY <1>8, AskedKeeps DEF Clock!CallbackStarts
<1>9. ASSUME NEW a \in Alarm, Clock!CallbackStops(a) PROVE Clock!AlarmInv'
  <2>1. PICK b \in Alarm \ {a, next[a]} : Clock!alt_alarm_stop(b)
    BY <1>9 DEF Clock!CallbackStops
  <2> QED
    BY <1>9, <2>1, StopKeeps DEF Clock!CallbackStops, Clock!Visiting
<1>10. ASSUME NEW a \in Alarm, NEW k \in Intervals, Clock!Again(a, k) PROVE Clock!AlarmInv'
  BY <1>10, AgainKeeps
<1>11. CASE UNCHANGED Clock!vars
  BY <1>11, StutterKeeps
<1> QED
  BY <1>1, <1>2, <1>3, <1>4, <1>5, <1>6, <1>7, <1>8, <1>9, <1>10, <1>11 DEF Clock!Next,
    Clock!alt_tick

\* Whoever is called has waited, and nobody is left waiting.
LEMMA InTime == Clock!AlarmInv => Clock!Punctual
<1> SUFFICES ASSUME Clock!AlarmInv, NEW a \in Alarm
             PROVE  /\ (Clock!Visiting(a) /\ Clock!Expired(a) => left[a] = 0)
                    /\ (alarm = Clock!alt_alarm_list /\ Clock!Armed(a) => left[a] > 0)
  BY DEF Clock!Punctual
<1>1. Clock!Visiting(a) /\ Clock!Expired(a) => left[a] = 0
  BY LookedAt DEF Clock!Visiting
<1>2. alarm = Clock!alt_alarm_list /\ Clock!Armed(a) => left[a] > 0
  BY HeadApart, WalkOver DEF Clock!DueSound
<1> QED
  BY <1>1, <1>2

-----------------------------------------------------------------------------
(* The time.                                                               *)

\* The constants: a second is a whole number of ticks.
LEMMA Seconds ==
  /\ WORD \in Nat /\ WORD > 3 /\ ALT_US \in Nat \ {0} /\ RATE \in Nat \ {0}
  /\ Time!Tick_us \in Nat \ {0} /\ ALT_US = RATE * Time!Tick_us
<1>1. /\ WORD \in Nat /\ WORD > 3 /\ ALT_US \in Nat \ {0} /\ RATE \in Nat \ {0}
      /\ ALT_US % RATE = 0
  BY BoardAssumption DEF Time!Bounds
<1>2. Time!Tick_us \in Nat /\ ALT_US = Time!Tick_us * RATE
  BY <1>1, Parts DEF Time!Tick_us
<1>3. Time!Tick_us # 0 /\ Time!Tick_us * RATE = RATE * Time!Tick_us
  BY <1>1, <1>2
<1> QED
  BY <1>1, <1>2, <1>3

\* What of some ticks is more than whole seconds.
LEMMA Fraction ==
  ASSUME NEW n \in Nat
  PROVE  /\ n \div RATE \in Nat /\ (n * Time!Tick_us) % ALT_US \in 0 .. ALT_US - 1
         /\ n * Time!Tick_us = (n \div RATE) * ALT_US + ((n * Time!Tick_us) % ALT_US)
<1> DEFINE q == n \div RATE
           r == n % RATE
<1>1. q \in Nat /\ r \in 0 .. RATE - 1 /\ n = q * RATE + r
  BY Parts, Seconds
<1> HIDE DEF q, r
<1>2. n * Time!Tick_us = q * ALT_US + r * Time!Tick_us
  BY <1>1, Seconds, SMTT(30)
<1>3. r * Time!Tick_us \in 0 .. ALT_US - 1
  <2>1. r * Time!Tick_us \in Nat /\ (RATE - r) * Time!Tick_us >= Time!Tick_us
    BY <1>1, Seconds, SMTT(30)
  <2>2. (RATE - r) * Time!Tick_us = ALT_US - r * Time!Tick_us
    BY <1>1, Seconds, SMTT(30)
  <2> QED
    BY <2>1, <2>2, Seconds
<1>4. (n * Time!Tick_us) % ALT_US = r * Time!Tick_us
  <2>1. PICK p \in 0 .. ALT_US - 1 : p = r * Time!Tick_us
    BY <1>3
  <2>2. (q * ALT_US + p) % ALT_US = p
    BY <1>1, Seconds, OneWay
  <2> QED
    BY <2>1, <2>2, <1>2
<1> QED
  BY <1>1, <1>2, <1>3, <1>4 DEF q

\* The time that is told is the time that was set and what has passed.
LEMMA TellsTime ==
  ASSUME Time!TypeOK, Time!Counted, tick_rate # 0, true_time # Time!Unknown
  PROVE  Time!Us(Time!Gettimeofday) = true_time
<1> DEFINE q == nticks \div RATE
           f == (nticks * Time!Tick_us) % ALT_US
           sec  == alt_resettime.tv_sec + q
           usec == alt_resettime.tv_usec + f
           cut  == usec < 0 /\ sec <= 0
           s    == IF cut THEN 0 ELSE IF usec < 0 THEN sec - 1 ELSE sec
           u    == IF cut THEN 0 ELSE IF usec < 0 THEN usec + ALT_US ELSE usec
<1>1. /\ tick_rate = RATE /\ nticks \in Nat /\ true_time \in Nat
      /\ alt_resettime.tv_sec \in Int /\ alt_resettime.tv_usec \in 1 - ALT_US .. ALT_US - 1
      /\ ALT_US \in Nat \ {0} /\ Time!Tick_us \in Nat
  BY Seconds DEF Time!TypeOK
<1>2. q \in Nat /\ f \in 0 .. ALT_US - 1 /\ nticks * Time!Tick_us = q * ALT_US + f
  BY <1>1, Fraction
<1>3. true_time = alt_resettime.tv_sec * ALT_US + alt_resettime.tv_usec + nticks * Time!Tick_us
  BY DEF Time!Counted, Time!Us
<1> HIDE DEF q, f
<1>4. sec \in Int /\ usec \in 1 - ALT_US .. 2 * ALT_US - 2
  BY <1>1, <1>2
<1>5. true_time = sec * ALT_US + usec
  BY <1>1, <1>2, <1>3, SMTT(30)
<1> HIDE DEF sec, usec
<1>6. ~cut
  <2> SUFFICES ASSUME cut PROVE FALSE
    OBVIOUS
  <2>1. sec * ALT_US <= 0
    BY <1>1, <1>4, SMTT(30)
  <2> QED
    BY <2>1, <1>1, <1>4, <1>5
<1>7. s \in Int /\ u \in 0 .. 2 * ALT_US - 2 /\ s * ALT_US + u = true_time
  BY <1>1, <1>4, <1>5, <1>6, SMTT(30)
<1>8. Time!Gettimeofday = [tv_sec |-> s + u \div ALT_US, tv_usec |-> u % ALT_US]
  BY <1>1 DEF Time!Gettimeofday, q, f, sec, usec
<1> HIDE DEF s, u
<1>9. Time!Us(Time!Gettimeofday) = (s + u \div ALT_US) * ALT_US + (u % ALT_US)
  BY <1>8 DEF Time!Us
<1>10. u \div ALT_US \in Nat /\ u % ALT_US \in Nat /\ u = (u \div ALT_US) * ALT_US + (u % ALT_US)
  <2>1. u \in Nat /\ ALT_US \in Nat \ {0}
    BY <1>1, <1>7
  <2>2. u % ALT_US \in 0 .. ALT_US - 1
    BY <2>1, Parts
  <2>3. u \div ALT_US \in Nat /\ u = (u \div ALT_US) * ALT_US + (u % ALT_US)
    BY <2>1, Parts
  <2> QED
    BY <2>1, <2>2, <2>3
<1>11. (s + u \div ALT_US) * ALT_US = s * ALT_US + (u \div ALT_US) * ALT_US
  BY <1>1, <1>7, <1>10, SMTT(30)
<1> QED
  BY <1>1, <1>7, <1>9, <1>10, <1>11

\* A nap of some microseconds: the trips of its parts and of what is left.
LEMMA TripsBound ==
  ASSUME NEW us \in 0 .. WORD - 1
  PROVE  LET piece  == Time!INT_MAX \div PER_US
             whole == us >= piece /\ us % piece = 0
         IN  /\ Time!Trips(us) \in Nat /\ Time!Trips(us) >= us * PER_US
             /\ ~whole => Time!Trips(us) <= us * PER_US + (us \div piece) * PER_US + 1
<1> DEFINE piece == Time!INT_MAX \div PER_US
           b == us \div piece
           m == us % piece
           rest == (us - b * piece) * PER_US
<1>1. /\ WORD \in Nat /\ Time!INT_MAX \in Nat /\ Time!INT_MAX < WORD /\ PER_US \in 1 .. Time!INT_MAX /\ us \in Nat
  BY BoardAssumption DEF Time!Bounds, Time!INT_MAX
<1>2. PICK x \in 0 .. PER_US - 1 : piece \in Nat /\ Time!INT_MAX = piece * PER_US + x
  <2>1. PER_US \in Nat \ {0}
    BY <1>1
  <2>2. /\ piece \in Nat /\ Time!INT_MAX % PER_US \in 0 .. PER_US - 1
        /\ Time!INT_MAX = piece * PER_US + (Time!INT_MAX % PER_US)
    BY <1>1, <2>1, Parts
  <2> QED
    BY <2>2
<1>3. piece # 0
  BY <1>1, <1>2
<1> HIDE DEF piece
<1>4. b \in Nat /\ m \in 0 .. piece - 1 /\ us = b * piece + m
  BY <1>1, <1>2, <1>3, Parts
<1> HIDE DEF b, m
<1>5. rest = m * PER_US
  <2>1. us - b * piece = m
    BY <1>2, <1>4
  <2> QED
    BY <2>1
<1> HIDE DEF rest
<1>6. rest \in Nat /\ rest < WORD /\ (rest = 0 <=> m = 0)
  <2>1. m * PER_US \in Nat /\ m * PER_US <= piece * PER_US /\ piece * PER_US <= Time!INT_MAX
    BY <1>1, <1>2, <1>4, SMTT(30)
  <2>2. m * PER_US = 0 <=> m = 0
    BY <1>1, <1>4, SMTT(30)
  <2>3. PICK p \in Nat : p = m * PER_US /\ p <= Time!INT_MAX
    BY <2>1, <1>1, <1>2
  <2>4. rest = p
    BY <2>3, <1>5
  <2> QED
    BY <2>2, <2>3, <2>4, <1>1
<1>7. Time!Trips(us) = IF b > 0 THEN b * Time!INT_MAX + (IF rest % WORD = 0 THEN WORD ELSE rest % WORD)
                  ELSE IF rest = 0 THEN 1 ELSE rest
  BY DEF Time!Trips, b, piece, rest
<1>8. rest % WORD = rest
  BY <1>1, <1>6
<1>9. us * PER_US = b * piece * PER_US + rest
  BY <1>1, <1>2, <1>4, <1>5, SMTT(30)
<1>10. b * Time!INT_MAX = b * piece * PER_US + b * x
  BY <1>1, <1>2, <1>4, SMTT(30)
<1>11. b * x \in Nat /\ b * x <= b * PER_US /\ b * piece * PER_US \in Nat
  BY <1>1, <1>2, <1>4, SMTT(30)
<1>12. b = 0 => b * piece * PER_US = 0 /\ b * PER_US = 0
  BY <1>1, <1>2, <1>4
<1>13. /\ Time!Trips(us) \in Nat /\ Time!Trips(us) >= us * PER_US
       /\ m # 0 \/ b = 0 => Time!Trips(us) <= us * PER_US + b * PER_US + 1
  <2> DEFINE c == b * piece * PER_US
             d == b * x
             e == b * PER_US
             g == us * PER_US
             t == b * Time!INT_MAX
  <2>1. /\ c \in Nat /\ d \in Nat /\ e \in Nat /\ g = c + rest /\ t = c + d /\ d <= e
        /\ b = 0 => c = 0 /\ e = 0
    BY <1>1, <1>4, <1>9, <1>10, <1>11, <1>12
  <2>2. Time!Trips(us) = IF b > 0 THEN t + (IF rest = 0 THEN WORD ELSE rest)
                    ELSE IF rest = 0 THEN 1 ELSE rest
    BY <1>7, <1>8
  <2> HIDE DEF c, d, e, g, t
  <2>3. /\ Time!Trips(us) \in Nat /\ Time!Trips(us) >= g
        /\ m # 0 \/ b = 0 => Time!Trips(us) <= g + e + 1
    BY <2>1, <2>2, <1>1, <1>4, <1>6
  <2> QED
    BY <2>3 DEF g, e
<1>14. m = 0 /\ b # 0 => us >= piece
  BY <1>1, <1>2, <1>4, SMTT(30)
<1> QED
  BY <1>13, <1>14 DEF b, m, piece

\* At the start nothing has passed, and nobody has slept.
LEMMA TimeInit ==
  ASSUME Time!Init
  PROVE  Time!TimeInv
<1>1. /\ tick_rate \in {0, RATE} /\ nticks = 0 /\ asked = 0 /\ slept = 0 /\ true_time = 0
      /\ alt_resettime = [tv_sec |-> 0, tv_usec |-> 0]
  BY DEF Time!Init
<1>2. Time!TypeOK
  BY <1>1, Seconds DEF Time!TypeOK
<1>3. Time!Counted
  BY <1>1, Seconds DEF Time!Counted, Time!Us
<1> QED
  BY <1>1, <1>2, <1>3 DEF Time!TimeInv, Time!Slept

\* A tick is the same time later.
LEMMA TickCounts ==
  ASSUME Time!TimeInv, Time!Tick
  PROVE  Time!TimeInv'
<1>1. Time!TypeOK /\ Time!Counted /\ Time!Slept
  BY DEF Time!TimeInv
<1>2. /\ nticks' = (nticks + 1) % WORD
      /\ true_time' = IF true_time = Time!Unknown \/ nticks + 1 = WORD THEN Time!Unknown
                      ELSE true_time + Time!Tick_us
      /\ UNCHANGED <<tick_rate, alt_resettime, asked, slept>>
  BY DEF Time!Tick
<1>3. nticks \in 0 .. WORD - 1 /\ nticks + 1 \in Nat /\ true_time \in Nat \cup {Time!Unknown}
  BY <1>1, Seconds DEF Time!TypeOK
<1>4. nticks' \in 0 .. WORD - 1 /\ (nticks + 1 # WORD => nticks' = nticks + 1)
  BY <1>2, <1>3, Seconds
<1>5. true_time' \in Nat \cup {Time!Unknown}
  BY <1>2, <1>3, Seconds DEF Time!Unknown
<1>6. Time!Counted'
  <2> SUFFICES ASSUME tick_rate # 0, true_time' # Time!Unknown
               PROVE  true_time' = Time!Us(alt_resettime) + nticks' * Time!Tick_us
    BY <1>2 DEF Time!Counted, Time!Us
  <2>1. true_time # Time!Unknown /\ nticks + 1 # WORD /\ true_time' = true_time + Time!Tick_us
    BY <1>2
  <2>2. nticks' * Time!Tick_us = nticks * Time!Tick_us + Time!Tick_us
    BY <2>1, <1>3, <1>4, Seconds, SMTT(30)
  <2>3. Time!Us(alt_resettime) \in Int
    BY <1>1, Seconds DEF Time!TypeOK, Time!Us
  <2>4. nticks * Time!Tick_us \in Nat
    BY <1>3, Seconds
  <2> QED
    BY <2>1, <2>2, <2>3, <2>4, <1>1, Seconds DEF Time!Counted
<1>7. Time!Slept'
  BY <1>1, <1>2 DEF Time!Slept
<1> QED
  BY <1>1, <1>2, <1>4, <1>5, <1>6, <1>7 DEF Time!TimeInv, Time!TypeOK

\* What is noted when the time is set leaves the time that was set.
LEMMA SetCounts ==
  ASSUME Time!TimeInv, Time!Settimeofday
  PROVE  Time!TimeInv'
<1>1. Time!TypeOK /\ Time!Counted /\ Time!Slept
  BY DEF Time!TimeInv
<1>2. UNCHANGED <<tick_rate, nticks, asked, slept>>
  BY DEF Time!Settimeofday
<1>3. Time!Slept'
  BY <1>1, <1>2 DEF Time!Slept
<1>4. CASE tick_rate = 0
  BY <1>1, <1>2, <1>3, <1>4 DEF Time!Settimeofday, Time!TimeInv, Time!TypeOK, Time!Counted
<1>5. CASE tick_rate # 0
  <2>1. PICK t \in Times : /\ alt_resettime' = Time!ResetTime(t)
                           /\ true_time' = IF nticks * Time!Tick_us < WORD THEN Time!Us(t) ELSE Time!Unknown
    BY <1>5 DEF Time!Settimeofday
  <2>2. t.tv_sec \in Nat /\ t.tv_usec \in 0 .. ALT_US - 1
    BY BoardAssumption DEF Time!Bounds
  <2>3. tick_rate = RATE /\ nticks \in Nat
    BY <1>1, <1>5 DEF Time!TypeOK
  <2> DEFINE q == nticks \div RATE
             p == nticks * Time!Tick_us
             f == (p % WORD) % ALT_US
  <2>4. q \in Nat /\ p \in Nat /\ p % WORD \in Nat
    BY <2>3, Fraction, Seconds
  <2>5. f \in 0 .. ALT_US - 1
    BY <2>4, Seconds
  <2>6. alt_resettime' = [tv_sec |-> t.tv_sec - q, tv_usec |-> t.tv_usec - f]
    BY <2>1, <2>3 DEF Time!ResetTime
  <2>7. p < WORD => p = q * ALT_US + f
    <3>1. p = q * ALT_US + (p % ALT_US)
      BY <2>3, Fraction
    <3> HIDE DEF p
    <3>2. p < WORD => p % WORD = p
      BY <2>4, Seconds
    <3> QED
      BY <3>1, <3>2
  <2> HIDE DEF q, p, f
  <2>8. alt_resettime' \in [tv_sec : Int, tv_usec : 1 - ALT_US .. ALT_US - 1]
    BY <2>2, <2>4, <2>5, <2>6, Seconds
  <2>9. Time!Us(t) \in Nat
    BY <2>2, Seconds DEF Time!Us
  <2>10. true_time' \in Nat \cup {Time!Unknown}
    BY <2>1, <2>9
  <2>11. Time!Counted'
    <3> SUFFICES ASSUME p < WORD PROVE Time!Us(t) = Time!Us(alt_resettime)' + p
      BY <2>1, <1>2 DEF Time!Counted, p, Time!Us, Time!Unknown
    <3>1. Time!Us(alt_resettime)' = (t.tv_sec - q) * ALT_US + (t.tv_usec - f)
      BY <2>6 DEF Time!Us
    <3>2. (t.tv_sec - q) * ALT_US = t.tv_sec * ALT_US - q * ALT_US
      BY <2>2, <2>4, Seconds, SMTT(30)
    <3>3. PICK a \in Int, b \in Int : a = t.tv_sec * ALT_US /\ b = q * ALT_US
      BY <2>2, <2>4, Seconds
    <3>4. Time!Us(alt_resettime)' = a - b + (t.tv_usec - f) /\ Time!Us(t) = a + t.tv_usec /\ p = b + f
      BY <3>1, <3>2, <3>3, <2>7 DEF Time!Us
    <3>5. t.tv_usec \in Int /\ f \in Int
      BY <2>2, <2>5, Seconds
    <3> QED
      BY <3>3, <3>4, <3>5
  <2> QED
    BY <1>1, <1>2, <1>3, <2>8, <2>10, <2>11 DEF Time!TimeInv, Time!TypeOK
<1> QED
  BY <1>4, <1>5

\* The other calls leave the time alone.
LEMMA TimeKept ==
  ASSUME Time!TimeInv, UNCHANGED <<tick_rate, nticks, alt_resettime, true_time>>,
         UNCHANGED <<asked, slept>> \/ (asked' \in Naps /\ slept' = Time!Trips(asked'))
  PROVE  Time!TimeInv'
<1>1. Time!TypeOK /\ Time!Counted /\ Time!Slept
  BY DEF Time!TimeInv
<1>2. Time!Counted'
  BY <1>1 DEF Time!Counted, Time!Us
<1>3. CASE UNCHANGED <<asked, slept>>
  BY <1>1, <1>2, <1>3 DEF Time!TimeInv, Time!TypeOK, Time!Slept
<1>4. ASSUME NEW us \in Naps, asked' = us, slept' = Time!Trips(us) PROVE Time!TimeInv'
  <2>1. us \in 0 .. WORD - 1 /\ us \in Nat
    BY BoardAssumption DEF Time!Bounds
  <2>2. Time!Trips(us) \in Nat
    BY <2>1, TripsBound
  <2>3. Time!Slept'
    BY <1>4 DEF Time!Slept, Time!Trips, Time!INT_MAX
  <2> QED
    BY <1>1, <1>2, <1>4, <2>1, <2>2, <2>3 DEF Time!TimeInv, Time!TypeOK
<1> QED
  BY <1>3, <1>4

\* Every step keeps it.
LEMMA TimeStep ==
  ASSUME Time!TimeInv, [Time!Next]_Time!vars
  PROVE  Time!TimeInv'
<1>1. CASE Time!Tick
  BY <1>1, TickCounts
<1>2. CASE Time!Settimeofday
  BY <1>2, SetCounts
<1>3. CASE Time!AskTime
  BY <1>3, TimeKept DEF Time!AskTime
<1>4. CASE Time!Usleep
  BY <1>4, TimeKept DEF Time!Usleep
<1>5. CASE UNCHANGED Time!vars
  BY <1>5, TimeKept DEF Time!vars
<1> QED
  BY <1>1, <1>2, <1>3, <1>4, <1>5 DEF Time!Next

\* The time is told right, and nobody sleeps too little or much too long.
LEMMA ToldRight ==
  ASSUME Time!TimeInv
  PROVE  Time!TimeTold
<1>1. Time!TypeOK /\ Time!Counted /\ Time!Slept
  BY DEF Time!TimeInv
<1>2. tick_rate # 0 /\ true_time # Time!Unknown => Time!Us(Time!Gettimeofday) = true_time
  BY <1>1, TellsTime
<1>3. asked \in 0 .. WORD - 1 /\ asked \in Nat
  BY <1>1 DEF Time!TypeOK
<1>4. CASE slept = Time!Trips(asked)
  BY <1>2, <1>3, <1>4, TripsBound DEF Time!TimeTold
<1>5. CASE asked = 0 /\ slept = 0
  <2> DEFINE piece == Time!INT_MAX \div PER_US
  <2>1. Time!INT_MAX \in Nat /\ PER_US \in 1 .. Time!INT_MAX /\ PER_US \in Nat \ {0}
    BY BoardAssumption DEF Time!Bounds, Time!INT_MAX
  <2>2. piece \in Nat /\ piece # 0
    <3>1. piece \in Nat /\ Time!INT_MAX % PER_US \in 0 .. PER_US - 1
          /\ Time!INT_MAX = piece * PER_US + (Time!INT_MAX % PER_US)
      BY <2>1, Parts
    <3> QED
      BY <3>1, <2>1
  <2> HIDE DEF piece
  <2>3. 0 \div piece = 0 /\ ~(0 >= piece)
    BY <2>2
  <2>4. 0 * PER_US = 0 /\ (0 \div piece) * PER_US = 0
    BY <2>1, <2>3
  <2> QED
    BY <1>2, <1>5, <2>3, <2>4 DEF Time!TimeTold, piece
<1> QED
  BY <1>1, <1>4, <1>5 DEF Time!Slept

-----------------------------------------------------------------------------
(* The profiler.                                                           *)

\* Sets are of one size for all modules.
LEMMA SameSize == \A S : Profile!Cardinality(S) = Cardinality(S)
BY Zenon DEF Cardinality, Profile!Cardinality, IsFiniteSet, Profile!IsFiniteSet

\* The sums of the first so many of f.
Sums(t, f, n) == t = [m \in 0 .. n |-> IF m = 0 THEN 0 ELSE t[m - 1] + f[m]]

\* They depend on no more than they sum up.
LEMMA SumsAgree ==
  ASSUME NEW n \in Nat, NEW k \in Nat, NEW t, NEW u, NEW f, NEW g, Sums(t, f, n),
         Sums(u, g, k),
         NEW j \in Nat, j <= n, j <= k, \A m \in 1 .. j : f[m] = g[m]
  PROVE  t[j] = u[j]
<1> DEFINE T == {m \in Nat : m <= j /\ t[m] # u[m]}
<1> SUFFICES ASSUME T # {} PROVE FALSE
  OBVIOUS
<1>1. PICK x \in T : \A y \in T : x <= y
  <2>1. T \subseteq Nat
    OBVIOUS
  <2> HIDE DEF T
  <2> QED
    BY <2>1, LeastOf
<1>2. x \in 0 .. n /\ x \in 0 .. k /\ x <= j /\ t[x] # u[x]
  OBVIOUS
<1>3. t[x] = (IF x = 0 THEN 0 ELSE t[x - 1] + f[x]) /\ u[x] = (IF x = 0 THEN 0 ELSE u[x - 1] + g[x])
  BY <1>2 DEF Sums
<1>4. x # 0
  BY <1>2, <1>3
<1>5. x - 1 \notin T /\ x - 1 \in Nat
  <2>1. x \in Nat /\ x - 1 \in Nat /\ x - 1 < x
    BY <1>2, <1>4
  <2> HIDE DEF T
  <2> QED
    BY <1>1, <2>1
<1>6. t[x - 1] = u[x - 1] /\ f[x] = g[x]
  BY <1>2, <1>4, <1>5
<1> QED
  BY <1>2, <1>3, <1>4, <1>6, Zenon

\* There are such sums.
LEMMA SumsExist ==
  ASSUME NEW n \in Nat, NEW f
  PROVE  \E t : Sums(t, f, n)
<1> DEFINE T == {m \in Nat : ~\E t : Sums(t, f, m)}
<1> SUFFICES ASSUME T # {} PROVE FALSE
  BY Zenon
<1>1. PICK x \in T : \A y \in T : x <= y
  <2>1. T \subseteq Nat
    OBVIOUS
  <2> HIDE DEF T
  <2> QED
    BY <2>1, LeastOf
<1>2. CASE x = 0
  <2>1. Sums([m \in 0 .. 0 |-> 0], f, 0)
    BY DEF Sums
  <2> QED
    BY <1>2, <2>1
<1>3. CASE x # 0
  <2>1. x - 1 \in Nat /\ x \in Nat /\ x - 1 < x
    BY <1>3
  <2>2. PICK t : Sums(t, f, x - 1)
    <3>1. x - 1 \notin T
      <4> HIDE DEF T
      <4> QED
        BY <1>1, <2>1
    <3> QED
      BY <2>1, <3>1, Zenon
  <2> DEFINE u == [m \in 0 .. x |-> IF m = x THEN t[x - 1] + f[x] ELSE t[m]]
  <2>3. ASSUME NEW m \in 0 .. x PROVE u[m] = IF m = 0 THEN 0 ELSE u[m - 1] + f[m]
    <3>1. CASE m = x
      BY <1>3, <2>1, <3>1
    <3>2. CASE m # x /\ m # 0
      <4>1. m \in 0 .. x - 1 /\ m - 1 \in 0 .. x /\ m - 1 # x
        BY <2>1, <3>2
      <4>2. t[m] = t[m - 1] + f[m]
        BY <2>2, <3>2, <4>1 DEF Sums
      <4> QED
        BY <3>2, <4>1, <4>2
    <3>3. CASE m # x /\ m = 0
      <4>1. 0 \in 0 .. x - 1
        BY <2>1, <3>3
      <4> QED
        BY <2>2, <3>3, <4>1 DEF Sums
    <3> QED
      BY <3>1, <3>2, <3>3
  <2>4. u = [m \in 0 .. x |-> u[m]]
    OBVIOUS
  <2> HIDE DEF u
  <2>5. Sums(u, f, x)
    BY <2>3, <2>4 DEF Sums
  <2> QED
    BY <2>5
<1> QED
  BY <1>2, <1>3

\* The total is the last of the sums.
LEMMA TotalIs ==
  ASSUME NEW n \in Nat, NEW f, NEW t, Sums(t, f, n)
  PROVE  Profile!Total(f, n) = t[n]
<1> DEFINE u == CHOOSE s : Sums(s, f, n)
<1>1. Profile!Total(f, n) = u[n]
  BY DEF Profile!Total, Sums
<1>2. Sums(u, f, n)
  OBVIOUS
<1> HIDE DEF u
<1> QED
  BY <1>1, <1>2, SumsAgree

\* Nothing adds up to nothing.
LEMMA TotalOfNone ==
  ASSUME NEW f
  PROVE  Profile!Total(f, 0) = 0
<1>1. PICK t : Sums(t, f, 0)
  BY SumsExist
<1>2. t[0] = 0
  BY <1>1 DEF Sums
<1> QED
  BY <1>1, <1>2, TotalIs

\* One more is added to the total of the others.
LEMMA TotalOfMore ==
  ASSUME NEW n \in Nat, NEW f
  PROVE  Profile!Total(f, n + 1) = Profile!Total(f, n) + f[n + 1]
<1>1. PICK t : Sums(t, f, n + 1)
  BY SumsExist
<1>2. PICK u : Sums(u, f, n)
  BY SumsExist
<1>3. t[n + 1] = t[n] + f[n + 1]
  <2>1. n + 1 \in 0 .. n + 1 /\ n + 1 # 0 /\ (n + 1) - 1 = n
    OBVIOUS
  <2> QED
    BY <1>1, <2>1 DEF Sums
<1>4. t[n] = u[n]
  <2>1. n + 1 \in Nat /\ n <= n /\ n <= n + 1
    OBVIOUS
  <2> QED
    BY <1>1, <1>2, <2>1, SumsAgree
<1>5. Profile!Total(f, n + 1) = t[n + 1] /\ Profile!Total(f, n) = u[n]
  BY <1>1, <1>2, TotalIs
<1> QED
  BY <1>3, <1>4, <1>5

\* Equal numbers have equal totals.
LEMMA TotalsAgree ==
  ASSUME NEW n \in Nat, NEW f, NEW g, \A m \in 1 .. n : f[m] = g[m]
  PROVE  Profile!Total(f, n) = Profile!Total(g, n)
<1>1. PICK t, u : Sums(t, f, n) /\ Sums(u, g, n)
  BY SumsExist
<1>2. t[n] = u[n]
  BY <1>1, SumsAgree
<1> QED
  BY <1>1, <1>2, TotalIs

\* The total of numbers is a number.
LEMMA TotalOfNumbers ==
  ASSUME NEW n \in Nat, NEW f, \A m \in 1 .. n : f[m] \in Nat
  PROVE  Profile!Total(f, n) \in Nat
<1> DEFINE T == {m \in Nat : m <= n /\ Profile!Total(f, m) \notin Nat}
<1> SUFFICES ASSUME T # {} PROVE FALSE
  OBVIOUS
<1>1. PICK x \in T : \A y \in T : x <= y
  <2>1. T \subseteq Nat
    OBVIOUS
  <2> HIDE DEF T
  <2> QED
    BY <2>1, LeastOf
<1>2. x \in Nat /\ x <= n /\ Profile!Total(f, x) \notin Nat
  OBVIOUS
<1>3. x # 0
  BY <1>2, TotalOfNone
<1>4. PICK y \in Nat : x = y + 1
  <2>1. x - 1 \in Nat /\ x = (x - 1) + 1
    BY <1>2, <1>3
  <2> QED
    BY <2>1
<1>5. y \notin T
  <2> HIDE DEF T
  <2> QED
    BY <1>1, <1>4
<1>6. Profile!Total(f, y) \in Nat /\ f[y + 1] \in Nat
  BY <1>2, <1>4, <1>5
<1>7. Profile!Total(f, y + 1) = Profile!Total(f, y) + f[y + 1]
  BY TotalOfMore
<1> QED
  BY <1>2, <1>4, <1>6, <1>7

\* If one number changes, the total changes by as much.
LEMMA TotalChanges ==
  ASSUME NEW n \in Nat, NEW f, NEW g, NEW k \in 1 .. n,
         \A m \in 1 .. n : f[m] \in Nat /\ g[m] \in Nat,
         \A m \in 1 .. n : m # k => f[m] = g[m]
  PROVE  Profile!Total(g, n) = Profile!Total(f, n) + g[k] - f[k]
<1> DEFINE T == {m \in Nat : k <= m /\ m <= n /\ Profile!Total(g, m) # Profile!Total(f, m) + g[k] - f[k]}
<1> SUFFICES ASSUME T # {} PROVE FALSE
  OBVIOUS
<1>1. PICK x \in T : \A y \in T : x <= y
  <2>1. T \subseteq Nat
    OBVIOUS
  <2> HIDE DEF T
  <2> QED
    BY <2>1, LeastOf
<1>2. x \in Nat /\ k <= x /\ x <= n /\ Profile!Total(g, x) # Profile!Total(f, x) + g[k] - f[k]
  OBVIOUS
<1>3. PICK y \in Nat : x = y + 1
  <2>1. x - 1 \in Nat /\ x = (x - 1) + 1
    BY <1>2
  <2> QED
    BY <2>1
<1>4. /\ Profile!Total(f, x) = Profile!Total(f, y) + f[x] /\ Profile!Total(g, x) = Profile!Total(g, y) + g[x]
  BY <1>3, TotalOfMore
<1>5. Profile!Total(f, y) \in Nat /\ Profile!Total(g, y) \in Nat
  <2>1. \A m \in 1 .. y : f[m] \in Nat /\ g[m] \in Nat
    BY <1>2, <1>3
  <2> QED
    BY <2>1, TotalOfNumbers
<1>6. CASE x = k
  <2>1. \A m \in 1 .. y : f[m] = g[m]
    BY <1>2, <1>3, <1>6
  <2>2. Profile!Total(f, y) = Profile!Total(g, y)
    BY <2>1, TotalsAgree
  <2> QED
    BY <1>2, <1>4, <1>5, <1>6, <2>2
<1>7. CASE x # k
  <2>1. y \notin T
    <3> HIDE DEF T
    <3> QED
      BY <1>1, <1>3
  <2>2. Profile!Total(g, y) = Profile!Total(f, y) + g[k] - f[k]
    BY <1>2, <1>3, <1>7, <2>1
  <2>3. f[x] = g[x] /\ f[x] \in Nat /\ f[k] \in Nat /\ g[k] \in Nat
    BY <1>2, <1>3, <1>7
  <2> QED
    BY <1>2, <1>4, <1>5, <2>2, <2>3
<1> QED
  BY <1>6, <1>7

\* Those of some calls that are on an arc.
On(arc, q) == {k \in DOMAIN q : <<q[k].self_pc, q[k].from_pc>> = arc}

\* What is put before a sequence adds at most itself to those that have a
\* pair, the others are counted as before.
LEMMA OneBefore ==
  ASSUME NEW n \in Nat, NEW s, NEW t, NEW arc,
         DOMAIN s = 1 .. n, DOMAIN t = 1 .. n + 1, \A k \in 1 .. n : t[k + 1] = s[k]
  PROVE  /\ Cardinality(On(arc, s)) \in Nat
         /\ Cardinality(On(arc, t)) = Cardinality(On(arc, s)) + (IF Profile!Pair(t[1]) = arc THEN 1 ELSE 0)
<1> DEFINE S == {k \in DOMAIN s : <<s[k].self_pc, s[k].from_pc>> = arc}
           T == {k \in DOMAIN t : <<t[k].self_pc, t[k].from_pc>> = arc}
           U == T \ {1}
           f == [k \in S |-> k + 1]
<1>1. IsFiniteSet(S)
  <2>1. S \in SUBSET (1 .. n) /\ IsFiniteSet(1 .. n)
    BY FS_Interval
  <2> HIDE DEF S
  <2> QED
    BY <2>1, FS_Subset
<1>2. \A k \in 1 .. n : k \in S <=> k + 1 \in U
  <2> SUFFICES ASSUME NEW k \in 1 .. n PROVE k \in S <=> k + 1 \in U
    OBVIOUS
  <2>1. k + 1 \in 1 .. n + 1 /\ k + 1 # 1 /\ t[k + 1] = s[k]
    OBVIOUS
  <2> QED
    BY <2>1
<1>3. f \in [S -> U]
  <2>1. \A k \in S : k \in 1 .. n
    OBVIOUS
  <2> HIDE DEF S, U
  <2> QED
    BY <1>2, <2>1
<1>4. \A k \in U : \E j \in S : f[j] = k
  <2> SUFFICES ASSUME NEW k \in U PROVE \E j \in S : f[j] = k
    OBVIOUS
  <2>1. k - 1 \in 1 .. n /\ (k - 1) + 1 = k
    OBVIOUS
  <2>2. k - 1 \in S
    <3> HIDE DEF S, U
    <3> QED
      BY <1>2, <2>1
  <2> HIDE DEF S, U
  <2> QED
    BY <2>1, <2>2
<1>5. \A j, k \in S : f[j] = f[k] => j = k
  <2>1. \A k \in S : k \in 1 .. n
    OBVIOUS
  <2> HIDE DEF S
  <2> QED
    BY <2>1
<1>6. ExistsBijection(S, U)
  <2> HIDE DEF S, U, f
  <2>1. f \in Bijection(S, U)
    BY <1>3, <1>4, <1>5 DEF Bijection, Injection, Surjection, IsInjective
  <2> QED
    BY <2>1 DEF ExistsBijection
<1>7. Cardinality(S) \in Nat /\ IsFiniteSet(U) /\ Cardinality(U) = Cardinality(S)
  <2> HIDE DEF S, U
  <2> QED
    BY <1>1, <1>6, FS_CardinalityType, FS_Bijection
<1>8. T = IF Profile!Pair(t[1]) = arc THEN U \cup {1} ELSE U
  <2>1. 1 \in 1 .. n + 1
    OBVIOUS
  <2> QED
    BY <2>1 DEF Profile!Pair
<1>9. 1 \notin U
  OBVIOUS
<1>10. Cardinality(T) = Cardinality(S) + (IF Profile!Pair(t[1]) = arc THEN 1 ELSE 0)
  <2> HIDE DEF S, T, U
  <2>1. Cardinality(U \cup {1}) = Cardinality(U) + 1
    BY <1>7, <1>9, FS_AddElement
  <2> QED
    BY <1>7, <1>8, <2>1
<1> QED
  BY <1>7, <1>10 DEF On

\* The greatest of some numbers is one of them.
LEMMA GreatestIn ==
  ASSUME NEW n \in Nat, NEW S \in SUBSET (1 .. n), S # {}
  PROVE  Profile!Newest(S) \in S /\ Profile!Newest(S) # Profile!None
<1> DEFINE T == {m \in Nat : n - m \in S}
<1>1. T # {}
  <2>1. PICK x \in S : x \in 1 .. n
    OBVIOUS
  <2>2. n - x \in Nat /\ n - (n - x) = x
    BY <2>1
  <2> QED
    BY <2>1, <2>2
<1>2. PICK x \in T : \A y \in T : x <= y
  <2>1. T \subseteq Nat
    OBVIOUS
  <2> HIDE DEF T
  <2> QED
    BY <1>1, <2>1, LeastOf
<1>3. n - x \in S /\ \A y \in S : n - x >= y
  <2>1. n - x \in S /\ x \in Nat
    OBVIOUS
  <2>2. ASSUME NEW y \in S PROVE n - x >= y
    <3>1. y \in 1 .. n /\ n - y \in Nat /\ n - (n - y) = y
      OBVIOUS
    <3>2. n - y \in T
      BY <3>1
    <3> QED
      <4> HIDE DEF T
      <4> QED
        BY <1>2, <2>1, <3>1, <3>2
  <2> QED
    BY <2>1, <2>2
<1>4. Profile!Max(S) \in S
  BY <1>3 DEF Profile!Max
<1> QED
  BY <1>4 DEF Profile!Newest, Profile!None

\* The parts of the state are of their types.
LEMMA TablesTyped ==
  ASSUME Profile!TypeOK
  PROVE  /\ Len(fns) \in Nat /\ DOMAIN fns = 1 .. Len(fns) /\ \A k \in 1 .. Len(fns) : fns[k] \in Pcs
         /\ Len(arcs) \in Nat /\ DOMAIN arcs = 1 .. Len(arcs)
         /\ \A k \in 1 .. Len(arcs) : /\ arcs[k].fn \in 1 .. Len(fns)
                                      /\ arcs[k].from_pc \in Pcs /\ arcs[k].count \in Nat
         /\ Len(counting) \in Nat /\ DOMAIN counting = 1 .. Len(counting)
         /\ \A k \in 1 .. Len(counting) :
              /\ counting[k].at \in {"fn", "arc"} \cup Profile!Making \cup Profile!Using
              /\ counting[k].self_pc \in Pcs /\ counting[k].from_pc \in Pcs
              /\ counting[k].fn \in 0 .. Len(fns) /\ counting[k].arc \in 0 .. Len(arcs)
              /\ counting[k].count \in Nat /\ Profile!Pair(counting[k]) \in Profile!Arc
<1>1. /\ fns \in Seq(Pcs)
      /\ arcs \in Seq(Profile!Entry)
      /\ counting \in Seq(Profile!Frame)
  BY DEF Profile!TypeOK
<1>2. /\ Len(fns) \in Nat /\ DOMAIN fns = 1 .. Len(fns) /\ \A k \in 1 .. Len(fns) : fns[k] \in Pcs
  BY <1>1, LenProperties, ElementOfSeq
<1>3. /\ Len(arcs) \in Nat /\ DOMAIN arcs = 1 .. Len(arcs)
      /\ \A k \in 1 .. Len(arcs) : arcs[k] \in Profile!Entry
  BY <1>1, LenProperties, ElementOfSeq
<1>4. /\ Len(counting) \in Nat /\ DOMAIN counting = 1 .. Len(counting)
      /\ \A k \in 1 .. Len(counting) : counting[k] \in Profile!Frame
  BY <1>1, LenProperties, ElementOfSeq
<1> QED
  BY <1>2, <1>3, <1>4 DEF Profile!Pair, Profile!Arc, Profile!Entry, Profile!Frame

\* What the tables count of an arc is a number.
LEMMA CountIsNumber ==
  ASSUME Profile!TypeOK, NEW arc
  PROVE  Profile!CountOf(arc) \in Nat
<1> DEFINE f == [k \in DOMAIN arcs |-> IF k \in Profile!CopiesOf(arc) THEN arcs[k].count ELSE 0]
<1>1. Len(arcs) \in Nat /\ \A m \in 1 .. Len(arcs) : f[m] \in Nat
  BY TablesTyped
<1> HIDE DEF f
<1>2. Profile!Total(f, Len(arcs)) \in Nat
  BY <1>1, TotalOfNumbers
<1> QED
  BY <1>2 DEF Profile!CountOf, f

\* A count is written: its arc's total changes by as much.
LEMMA CountStored ==
  ASSUME Profile!TypeOK, NEW k \in 1 .. Len(arcs), NEW c \in Nat,
         arcs' = [arcs EXCEPT ![k].count = c], UNCHANGED fns, NEW arc
  PROVE  /\ Profile!CopiesOf(arc)' = Profile!CopiesOf(arc)
         /\ Profile!CountOf(arc)' = Profile!CountOf(arc) + (IF k \in Profile!CopiesOf(arc) THEN c - arcs[k].count ELSE 0)
<1>1. /\ DOMAIN arcs = 1 .. Len(arcs) /\ Len(arcs) \in Nat
      /\ \A m \in 1 .. Len(arcs) : arcs[m].count \in Nat
  BY TablesTyped
<1>2. /\ DOMAIN arcs' = 1 .. Len(arcs) /\ Len(arcs') = Len(arcs)
      /\ \A m \in 1 .. Len(arcs) : /\ arcs'[m].fn = arcs[m].fn /\ arcs'[m].from_pc = arcs[m].from_pc
                                   /\ arcs'[m].count = IF m = k THEN c ELSE arcs[m].count
  <2>1. arcs \in Seq(Profile!Entry)
    BY DEF Profile!TypeOK
  <2>2. DOMAIN arcs' = DOMAIN arcs /\ Len(arcs') = Len(arcs)
    BY <2>1
  <2>3. \A m \in 1 .. Len(arcs) : arcs[m] \in Profile!Entry
    BY <2>1, ElementOfSeq
  <2>4. \A m \in 1 .. Len(arcs) : arcs'[m] = IF m = k THEN [arcs[m] EXCEPT !.count = c] ELSE arcs[m]
    BY <1>1
  <2> QED
    BY <1>1, <2>2, <2>3, <2>4 DEF Profile!Entry
<1>3. Profile!CopiesOf(arc)' = Profile!CopiesOf(arc)
  BY <1>1, <1>2 DEF Profile!CopiesOf
<1> DEFINE f == [m \in DOMAIN arcs |-> IF m \in Profile!CopiesOf(arc) THEN arcs[m].count ELSE 0]
           g == [m \in DOMAIN arcs |-> IF m \in Profile!CopiesOf(arc) THEN arcs'[m].count ELSE 0]
<1>4. \A m \in 1 .. Len(arcs) : f[m] \in Nat /\ g[m] \in Nat /\ (m # k => f[m] = g[m])
  BY <1>1, <1>2
<1>5. Profile!CountOf(arc) = Profile!Total(f, Len(arcs)) /\ Profile!CountOf(arc)' = Profile!Total(g, Len(arcs))
  BY <1>1, <1>2, <1>3 DEF Profile!CountOf
<1>6. g[k] = (IF k \in Profile!CopiesOf(arc) THEN c ELSE 0) /\ f[k] = IF k \in Profile!CopiesOf(arc) THEN arcs[k].count ELSE 0
  BY <1>1, <1>2
<1> HIDE DEF f, g
<1>7. Profile!Total(g, Len(arcs)) = Profile!Total(f, Len(arcs)) + g[k] - f[k]
  BY <1>1, <1>4, TotalChanges, ZenonT(40)
<1>8. Profile!Total(f, Len(arcs)) \in Nat
  BY <1>1, <1>4, TotalOfNumbers
<1> QED
  BY <1>1, <1>3, <1>5, <1>6, <1>7, <1>8

\* An entry is made: its arc has one more copy and one more call.
LEMMA CountRecorded ==
  ASSUME Profile!TypeOK, NEW fn \in 1 .. Len(fns) + 1, NEW from \in Pcs, NEW pc \in Pcs,
         arcs' = Append(arcs, [fn |-> fn, from_pc |-> from, count |-> 1]),
         \/ fn = Len(fns) + 1 /\ fns' = Append(fns, pc)
         \/ fn \in 1 .. Len(fns) /\ fns' = fns /\ fns[fn] = pc,
         NEW arc
  PROVE  /\ Profile!CopiesOf(arc)' = Profile!CopiesOf(arc) \cup (IF <<pc, from>> = <<arc[1], arc[2]>> THEN {Len(arcs) + 1} ELSE {})
         /\ Profile!CountOf(arc)' = Profile!CountOf(arc) + (IF <<pc, from>> = <<arc[1], arc[2]>> THEN 1 ELSE 0)
<1>1. /\ DOMAIN arcs = 1 .. Len(arcs) /\ Len(arcs) \in Nat
      /\ \A m \in 1 .. Len(arcs) : arcs[m].count \in Nat /\ arcs[m].fn \in 1 .. Len(fns)
      /\ DOMAIN fns = 1 .. Len(fns) /\ Len(fns) \in Nat
  BY TablesTyped
<1>2. /\ DOMAIN arcs' = 1 .. Len(arcs) + 1 /\ Len(arcs') = Len(arcs) + 1
      /\ \A m \in 1 .. Len(arcs) : arcs'[m] = arcs[m]
      /\ arcs'[Len(arcs) + 1] = [fn |-> fn, from_pc |-> from, count |-> 1]
  <2>1. arcs \in Seq(Profile!Entry)
    BY DEF Profile!TypeOK
  <2> QED
    BY <2>1
<1>3. fns'[fn] = pc /\ \A m \in 1 .. Len(fns) : fns'[m] = fns[m]
  <2>1. fns \in Seq(Pcs)
    BY DEF Profile!TypeOK
  <2> QED
    BY <2>1
<1>4. Profile!CopiesOf(arc)' = Profile!CopiesOf(arc) \cup (IF <<pc, from>> = <<arc[1], arc[2]>> THEN {Len(arcs) + 1} ELSE {})
  <2>1. ASSUME NEW m \in 1 .. Len(arcs) + 1
        PROVE  (fns'[arcs'[m].fn] = arc[1] /\ arcs'[m].from_pc = arc[2]) <=>
                  IF m = Len(arcs) + 1 THEN <<pc, from>> = <<arc[1], arc[2]>>
                  ELSE fns[arcs[m].fn] = arc[1] /\ arcs[m].from_pc = arc[2]
    <3>1. CASE m = Len(arcs) + 1
      BY <1>2, <1>3, <3>1
    <3>2. CASE m # Len(arcs) + 1
      <4>1. m \in 1 .. Len(arcs)
        BY <1>1, <3>2
      <4> QED
        BY <1>1, <1>2, <1>3, <3>2, <4>1
    <3> QED
      BY <3>1, <3>2
  <2>2. \A m : m \in 1 .. Len(arcs) + 1 <=> m \in 1 .. Len(arcs) \/ m = Len(arcs) + 1
    BY <1>1
  <2>3. ~(Len(arcs) + 1 \in 1 .. Len(arcs))
    BY <1>1
  <2>4. Profile!CopiesOf(arc)' = {m \in 1 .. Len(arcs) + 1 : fns'[arcs'[m].fn] = arc[1] /\ arcs'[m].from_pc = arc[2]}
    BY <1>2 DEF Profile!CopiesOf
  <2>5. Profile!CopiesOf(arc) = {m \in 1 .. Len(arcs) : fns[arcs[m].fn] = arc[1] /\ arcs[m].from_pc = arc[2]}
    BY <1>1 DEF Profile!CopiesOf
  <2> QED
    BY <2>1, <2>2, <2>3, <2>4, <2>5
<1> DEFINE f == [m \in DOMAIN arcs |-> IF m \in Profile!CopiesOf(arc) THEN arcs[m].count ELSE 0]
           g == [m \in 1 .. Len(arcs) + 1 |-> IF m \in Profile!CopiesOf(arc)' THEN arcs'[m].count ELSE 0]
<1>5. Profile!CountOf(arc) = Profile!Total(f, Len(arcs)) /\ Profile!CountOf(arc)' = Profile!Total(g, Len(arcs) + 1)
  BY <1>1, <1>2 DEF Profile!CountOf
<1>6. ~(Len(arcs) + 1 \in Profile!CopiesOf(arc)) /\ Len(arcs) + 1 \in 1 .. Len(arcs) + 1
  BY <1>1 DEF Profile!CopiesOf
<1>7. g[Len(arcs) + 1] = IF <<pc, from>> = <<arc[1], arc[2]>> THEN 1 ELSE 0
  BY <1>2, <1>4, <1>6
<1>8. \A m \in 1 .. Len(arcs) : f[m] \in Nat /\ g[m] = f[m]
  <2> SUFFICES ASSUME NEW m \in 1 .. Len(arcs) PROVE f[m] \in Nat /\ g[m] = f[m]
    OBVIOUS
  <2>1. m \in 1 .. Len(arcs) + 1 /\ m # Len(arcs) + 1 /\ m \in DOMAIN arcs
    BY <1>1
  <2> QED
    BY <1>1, <1>2, <1>4, <2>1
<1> HIDE DEF f, g
<1>9. Profile!Total(g, Len(arcs) + 1) = Profile!Total(g, Len(arcs)) + g[Len(arcs) + 1]
  BY <1>1, TotalOfMore
<1>10. Profile!Total(g, Len(arcs)) = Profile!Total(f, Len(arcs)) /\ Profile!Total(f, Len(arcs)) \in Nat
  BY <1>1, <1>8, TotalsAgree, TotalOfNumbers
<1> QED
  BY <1>4, <1>5, <1>7, <1>9, <1>10

\* The call on top is the first of those in progress.
LEMMA TopIs ==
  ASSUME Profile!TypeOK, counting # <<>>
  PROVE  /\ Len(counting) \in Nat /\ 1 \in DOMAIN counting /\ Profile!Top = counting[1] /\ Profile!Deep = Len(counting) - 1
         /\ Profile!Deep \in Nat
<1>1. counting \in Seq(Profile!Frame)
  BY DEF Profile!TypeOK
<1>2. Len(counting) \in Nat /\ 1 \in DOMAIN counting /\ Head(counting) = counting[1] /\ Len(counting) - 1 \in Nat
  BY <1>1
<1> QED
  BY <1>2 DEF Profile!Top, Profile!Deep

\* A function that has been found is in the table, under its name.
LEMMA FnFound ==
  ASSUME Profile!TypeOK, NEW f, Profile!Found(f), f.fn # Profile!None
  PROVE  /\ f.fn \in 1 .. Len(fns) /\ fns[f.fn] = f.self_pc /\ Profile!FnsOf(f.self_pc) # {}
         /\ f.fn = Profile!Newest(Profile!FnsOf(f.self_pc)) /\ f.at # "fn"
<1>1. Profile!FnsOf(f.self_pc) # {} /\ f.fn = Profile!Newest(Profile!FnsOf(f.self_pc)) /\ f.at # "fn"
  BY DEF Profile!Found
<1>2. Len(fns) \in Nat /\ Profile!FnsOf(f.self_pc) \in SUBSET (1 .. Len(fns))
  BY TablesTyped DEF Profile!FnsOf
<1>3. f.fn \in Profile!FnsOf(f.self_pc)
  BY <1>1, <1>2, GreatestIn
<1> QED
  BY <1>1, <1>2, <1>3 DEF Profile!FnsOf

\* What is found of no entries is nothing, and of some entries one of them.
LEMMA NewestOf ==
  ASSUME Profile!TypeOK, NEW pc, NEW fn, NEW from
  PROVE  /\ Profile!Newest(Profile!FnsOf(pc)) = Profile!None <=> Profile!FnsOf(pc) = {}
         /\ Profile!Newest(Profile!ArcsOf(fn, from)) = Profile!None <=> Profile!ArcsOf(fn, from) = {}
         /\ Profile!Newest(Profile!FnsOf(pc)) \in 0 .. Len(fns) /\ Profile!Newest(Profile!ArcsOf(fn, from)) \in 0 .. Len(arcs)
<1>1. Len(fns) \in Nat /\ Profile!FnsOf(pc) \in SUBSET (1 .. Len(fns))
  BY TablesTyped DEF Profile!FnsOf
<1>2. Len(arcs) \in Nat /\ Profile!ArcsOf(fn, from) \in SUBSET (1 .. Len(arcs))
  BY TablesTyped DEF Profile!ArcsOf
<1>3. \A S : S = {} => Profile!Newest(S) = 0
  BY DEF Profile!Newest, Profile!None
<1>4. Profile!FnsOf(pc) # {} => Profile!Newest(Profile!FnsOf(pc)) \in Profile!FnsOf(pc) /\ Profile!Newest(Profile!FnsOf(pc)) # Profile!None
  BY <1>1, GreatestIn
<1>5. Profile!ArcsOf(fn, from) # {} => Profile!Newest(Profile!ArcsOf(fn, from)) \in Profile!ArcsOf(fn, from) /\ Profile!Newest(Profile!ArcsOf(fn, from)) # Profile!None
  BY <1>2, GreatestIn
<1> QED
  BY <1>1, <1>2, <1>3, <1>4, <1>5 DEF Profile!None

\* An arc that has been found is in the table, under its names.
LEMMA ArcFound ==
  ASSUME Profile!TypeOK, NEW f, Profile!Found(f), f.at \in Profile!Using
  PROVE  /\ f.fn # Profile!None /\ f.arc \in 1 .. Len(arcs) /\ arcs[f.arc].fn = f.fn /\ arcs[f.arc].from_pc = f.from_pc
         /\ Profile!ArcsOf(f.fn, f.from_pc) # {} /\ f.arc = Profile!Newest(Profile!ArcsOf(f.fn, f.from_pc))
         /\ f.arc \in Profile!CopiesOf(Profile!Pair(f))
<1>1. f.fn # Profile!None /\ Profile!ArcsOf(f.fn, f.from_pc) # {} /\ f.arc = Profile!Newest(Profile!ArcsOf(f.fn, f.from_pc))
  BY DEF Profile!Found
<1>2. Len(arcs) \in Nat /\ Profile!ArcsOf(f.fn, f.from_pc) \in SUBSET (1 .. Len(arcs))
  BY TablesTyped DEF Profile!ArcsOf
<1>3. f.arc \in Profile!ArcsOf(f.fn, f.from_pc)
  BY <1>1, <1>2, GreatestIn
<1>4. f.arc \in 1 .. Len(arcs) /\ arcs[f.arc].fn = f.fn /\ arcs[f.arc].from_pc = f.from_pc
  BY <1>2, <1>3 DEF Profile!ArcsOf
<1>5. fns[f.fn] = f.self_pc
  BY <1>1, FnFound
<1>6. f.arc \in Profile!CopiesOf(Profile!Pair(f))
  BY <1>4, <1>5, TablesTyped DEF Profile!CopiesOf, Profile!Pair
<1> QED
  BY <1>1, <1>4, <1>6

\* Two calls on the same arc that have found it have found the same.
LEMMA SameFound ==
  ASSUME Profile!TypeOK, NEW f, NEW g, Profile!Found(f), Profile!Found(g),
         f.at \in Profile!Using, g.at \in Profile!Using
  PROVE  Profile!Pair(f) = Profile!Pair(g) <=> f.arc = g.arc
<1>1. ASSUME Profile!Pair(f) = Profile!Pair(g) PROVE f.arc = g.arc
  <2>1. f.self_pc = g.self_pc /\ f.from_pc = g.from_pc
    BY <1>1 DEF Profile!Pair
  <2> QED
    BY <2>1, ArcFound, FnFound
<1>2. ASSUME f.arc = g.arc PROVE Profile!Pair(f) = Profile!Pair(g)
  <2>1. f.fn = g.fn /\ f.from_pc = g.from_pc
    BY <1>2, ArcFound
  <2>2. f.self_pc = g.self_pc
    BY <2>1, ArcFound, FnFound
  <2> QED
    BY <2>1, <2>2 DEF Profile!Pair
<1> QED
  BY <1>1, <1>2

\* While the tables stay as they are, so does what is said of a call.
LEMMA TablesStay ==
  ASSUME UNCHANGED Profile!tables, NEW f
  PROVE  /\ Profile!Found(f)' <=> Profile!Found(f)
         /\ Profile!Stale(f)' <=> Profile!Stale(f)
<1>1. fns' = fns /\ arcs' = arcs
  BY DEF Profile!tables
<1>2. \A pc : Profile!FnsOf(pc)' = Profile!FnsOf(pc)
  BY <1>1 DEF Profile!FnsOf
<1>3. \A fn, from : Profile!ArcsOf(fn, from)' = Profile!ArcsOf(fn, from)
  BY <1>1 DEF Profile!ArcsOf
<1>4. Profile!Found(f)' <=> Profile!Found(f)
  BY <1>1, <1>2, <1>3 DEF Profile!Found
<1>5. Profile!Stale(f)' <=> Profile!Stale(f)
  BY <1>1, <1>2, <1>3 DEF Profile!Stale
<1> QED
  BY <1>4, <1>5

\* What the invariants reckon with are numbers.
LEMMA Reckoned ==
  ASSUME Profile!TypeOK, NEW arc
  PROVE  /\ Cardinality(Profile!InProgress(arc)) \in Nat
         /\ Cardinality(Profile!FnsOf(arc[1])) \in Nat /\ IsFiniteSet(Profile!FnsOf(arc[1]))
         /\ Cardinality(Profile!Doubles(arc)) \in Nat /\ IsFiniteSet(Profile!Doubles(arc))
         /\ Cardinality(Profile!CopiesOf(arc)) \in Nat /\ IsFiniteSet(Profile!CopiesOf(arc))
         /\ arc \in Profile!Arc => Profile!Missing(arc) \in Int
         /\ Profile!Deep \in Nat /\ Profile!Owed \in Int
<1>1. ASSUME NEW n \in Nat,
             NEW S \in SUBSET (1 .. n) PROVE IsFiniteSet(S) /\ Cardinality(S) \in Nat
  <2>1. IsFiniteSet(1 .. n)
    BY FS_Interval
  <2>2. IsFiniteSet(S)
    BY <2>1, FS_Subset
  <2> QED
    BY <2>2, FS_CardinalityType
<1>2. /\ Len(counting) \in Nat /\ Profile!InProgress(arc) \in SUBSET (1 .. Len(counting))
      /\ Len(fns) \in Nat /\ Profile!FnsOf(arc[1]) \in SUBSET (1 .. Len(fns))
      /\ Len(arcs) \in Nat /\ Profile!CopiesOf(arc) \in SUBSET (1 .. Len(arcs))
  BY TablesTyped DEF Profile!InProgress, Profile!FnsOf, Profile!CopiesOf
<1>3. Profile!Doubles(arc) \in SUBSET (1 .. Len(arcs))
  BY <1>2 DEF Profile!Doubles
<1>4. /\ IsFiniteSet(Profile!InProgress(arc)) /\ Cardinality(Profile!InProgress(arc)) \in Nat
      /\ IsFiniteSet(Profile!FnsOf(arc[1])) /\ Cardinality(Profile!FnsOf(arc[1])) \in Nat
      /\ IsFiniteSet(Profile!CopiesOf(arc)) /\ Cardinality(Profile!CopiesOf(arc)) \in Nat
      /\ IsFiniteSet(Profile!Doubles(arc)) /\ Cardinality(Profile!Doubles(arc)) \in Nat
  BY <1>1, <1>2, <1>3
<1>5. arc \in Profile!Arc => Profile!Missing(arc) \in Int
  <2>1. arc \in Profile!Arc => calls[arc] \in Nat
    BY DEF Profile!TypeOK
  <2> QED
    BY <1>4, <2>1, CountIsNumber, SameSize DEF Profile!Missing
<1>6. Profile!Deep \in Nat /\ Profile!Owed \in Int
  <2>1. Profile!Deep \in Nat
    <3>1. CASE counting = <<>>
      BY <3>1 DEF Profile!Deep
    <3>2. CASE counting # <<>>
      BY <3>2, TopIs
    <3> QED
      BY <3>1, <3>2
  <2> QED
    BY <2>1 DEF Profile!Owed
<1> QED
  BY <1>4, <1>5, <1>6

\* What is counted stays while the tables stay.
LEMMA CountsStay ==
  ASSUME UNCHANGED Profile!tables, NEW arc
  PROVE  /\ Profile!CountOf(arc)' = Profile!CountOf(arc) /\ Profile!FnsOf(arc[1])' = Profile!FnsOf(arc[1])
         /\ Profile!Doubles(arc)' = Profile!Doubles(arc) /\ Profile!CopiesOf(arc)' = Profile!CopiesOf(arc)
<1>1. fns' = fns /\ arcs' = arcs
  BY DEF Profile!tables
<1>2. Profile!CopiesOf(arc)' = Profile!CopiesOf(arc)
  BY <1>1 DEF Profile!CopiesOf
<1>3. Profile!FnsOf(arc[1])' = Profile!FnsOf(arc[1])
  BY <1>1 DEF Profile!FnsOf
<1>4. Profile!Doubles(arc)' = Profile!Doubles(arc)
  BY <1>1, <1>2 DEF Profile!Doubles
<1>5. Profile!CountOf(arc)' = Profile!CountOf(arc)
  BY <1>1, <1>2 DEF Profile!CountOf
<1> QED
  BY <1>2, <1>3, <1>4, <1>5

\* The types of the parts are no matter of the others.
LEMMA TypesStay ==
  ASSUME Profile!TypeOK, UNCHANGED Profile!tables
  PROVE  /\ fns' \in Seq(Pcs) /\ arcs' \in Seq(Profile!Entry') /\ Profile!Entry' = Profile!Entry /\ Profile!Frame' = Profile!Frame
         /\ Len(fns') = Len(fns) /\ Len(arcs') = Len(arcs)
<1>1. fns' = fns /\ arcs' = arcs
  BY DEF Profile!tables
<1>2. Profile!Entry' = Profile!Entry /\ Profile!Frame' = Profile!Frame
  BY <1>1 DEF Profile!Entry, Profile!Frame
<1> QED
  BY <1>1, <1>2 DEF Profile!TypeOK

\* The call on top goes on, with nothing written.
LEMMA StaysKeeps ==
  ASSUME Profile!ProfileInv, Profile!HistogramSound',
         UNCHANGED <<Profile!tables, Profile!history>>, counting # <<>>,
         NEW g \in Profile!Frame, counting' = [counting EXCEPT ![1] = g],
         Profile!Pair(g) = Profile!Pair(Profile!Top), Profile!Found(g), Profile!Stale(g) => Profile!Stale(Profile!Top),
         g.at = "store" => g.count = arcs[g.arc].count,
         \A j \in 2 .. Len(counting) : Profile!FollowsOn(g, counting[j])
  PROVE  Profile!ProfileInv'
<1>1. Profile!TypeOK /\ Profile!FramesSound /\ Profile!MissesPaid /\ Profile!DoublesPaid
  BY DEF Profile!ProfileInv
<1>2. UNCHANGED Profile!tables /\ fns' = fns /\ arcs' = arcs /\ calls' = calls /\ interrupted' = interrupted
  BY DEF Profile!tables, Profile!history
<1>3. Len(counting) \in Nat /\ DOMAIN counting = 1 .. Len(counting) /\ 1 \in DOMAIN counting /\ Profile!Top = counting[1]
  BY <1>1, TopIs, TablesTyped
<1>4. /\ counting' \in Seq(Profile!Frame) /\ Len(counting') = Len(counting) /\ DOMAIN counting' = DOMAIN counting
      /\ counting' # <<>> /\ counting'[1] = g /\ \A j \in 2 .. Len(counting) : counting'[j] = counting[j]
  <2>1. counting \in Seq(Profile!Frame)
    BY <1>1 DEF Profile!TypeOK
  <2> QED
    BY <1>3, <2>1
<1>5. Profile!Top' = g
  BY <1>4 DEF Profile!Top
<1>6. Profile!TypeOK'
  BY <1>1, <1>2, <1>4, TypesStay DEF Profile!TypeOK
<1>7. Profile!Deep' = Profile!Deep
  BY <1>4 DEF Profile!Deep
<1>8. \A arc : Profile!InProgress(arc)' = Profile!InProgress(arc)
  <2>1. g.self_pc = counting[1].self_pc /\ g.from_pc = counting[1].from_pc
    BY <1>3 DEF Profile!Pair
  <2>2. \A j \in 1 .. Len(counting) : counting'[j].self_pc = counting[j].self_pc /\ counting'[j].from_pc = counting[j].from_pc
    <3> SUFFICES ASSUME NEW j \in 1 .. Len(counting)
                 PROVE  counting'[j].self_pc = counting[j].self_pc /\ counting'[j].from_pc = counting[j].from_pc
      OBVIOUS
    <3>1. j = 1 \/ j \in 2 .. Len(counting)
      BY <1>3
    <3> QED
      BY <1>4, <2>1, <3>1
  <2> QED
    BY <1>3, <1>4, <2>2 DEF Profile!InProgress
<1>9. \A arc : Profile!Missing(arc)' = Profile!Missing(arc)
  BY <1>2, <1>8, CountsStay, SameSize DEF Profile!Missing
<1>10. Profile!FramesSound'
  <2> SUFFICES ASSUME NEW j \in DOMAIN counting'
               PROVE  Profile!Found(counting[j])' /\ \A i \in 1 .. j - 1 : Profile!FollowsOn(counting[i], counting[j])'
    BY DEF Profile!FramesSound
  <2>1. PICK f : f = counting'[j]
    OBVIOUS
  <2>2. Profile!Found(f)
    BY <1>1, <1>3, <1>4, <2>1 DEF Profile!FramesSound
  <2>3. Profile!Found(f)'
    BY <1>2, <2>2, TablesStay
  <2>4. Profile!Found(counting[j])'
    BY <2>1, <2>3 DEF Profile!Found
  <2>5. ASSUME NEW i \in 1 .. j - 1 PROVE Profile!FollowsOn(counting'[i], counting'[j])
    <3>1. j \in 2 .. Len(counting) /\ j \in DOMAIN counting /\ i \in 1 .. Len(counting) /\ counting'[j] = counting[j]
      BY <1>3, <1>4
    <3>2. CASE i = 1
      BY <1>4, <3>1, <3>2
    <3>3. CASE i # 1
      <4>1. counting'[i] = counting[i]
        BY <1>3, <1>4, <3>1, <3>3
      <4> QED
        BY <1>1, <3>1, <4>1 DEF Profile!FramesSound
    <3> QED
      BY <3>2, <3>3
  <2> QED
    BY <2>4, <2>5
<1>11. Profile!MissesPaid'
  <2>1. \A arc \in Profile!Arc : Profile!Missing(arc)' >= 0 /\ Profile!Missing(arc)' + Profile!Deep' <= interrupted'
    BY <1>1, <1>2, <1>7, <1>9 DEF Profile!MissesPaid
  <2>2. ASSUME NEW j \in DOMAIN counting, NEW f, f = counting'[j], f.at = "store"
        PROVE  Profile!Missing(Profile!Pair(f)) + (arcs[f.arc].count - f.count) + Profile!Deep <= interrupted
    <3>1. CASE j = 1
      <4>1. f = g /\ Profile!Pair(f) \in Profile!Arc
        BY <1>1, <1>3, <1>4, <2>2, <3>1, TablesTyped
      <4>2. arcs[f.arc].count - f.count = 0
        <5>1. g.arc \in 1 .. Len(arcs)
          BY <1>1, <2>2, <4>1, ArcFound DEF Profile!Using
        <5> QED
          BY <1>1, <2>2, <4>1, <5>1, TablesTyped
      <4>3. Profile!Missing(Profile!Pair(f)) \in Int
        BY <1>1, <4>1, Reckoned
      <4> QED
        BY <1>1, <4>1, <4>2, <4>3 DEF Profile!MissesPaid
    <3>2. CASE j # 1
      <4>1. f = counting[j]
        BY <1>3, <1>4, <2>2, <3>2
      <4> QED
        BY <1>1, <2>2, <4>1 DEF Profile!MissesPaid
    <3> QED
      BY <3>1, <3>2
  <2>3. ASSUME NEW j \in DOMAIN counting', NEW f, f = counting'[j], f.at = "store"
        PROVE  Profile!Missing(Profile!Pair(f))' + (arcs'[f.arc].count - f.count) + Profile!Deep' <= interrupted'
    BY <1>2, <1>4, <1>7, <1>9, <2>2, <2>3
  <2> QED
    BY <2>1, <2>3 DEF Profile!MissesPaid
<1>12. Profile!DoublesPaid'
  <2>1. Profile!Stale(Profile!Top)' => Profile!Stale(Profile!Top)
    <3>1. Profile!Stale(g)' <=> Profile!Stale(g)
      BY <1>2, TablesStay
    <3>2. Profile!Stale(Profile!Top)' <=> Profile!Stale(g)'
      BY <1>5 DEF Profile!Stale
    <3> QED
      BY <3>1, <3>2
  <2>2. Profile!Owed' <= Profile!Owed /\ Profile!Owed' \in Int /\ Profile!Owed \in Int
    <3>1. Profile!Deep \in Nat
      BY <1>1, Reckoned
    <3> QED
      BY <1>4, <1>7, <2>1, <3>1 DEF Profile!Owed
  <2>3. ASSUME NEW arc \in Profile!Arc
        PROVE  Cardinality(Profile!FnsOf(arc[1])') + Cardinality(Profile!Doubles(arc)') + Profile!Owed' <= 1 + interrupted
    <3>1. Profile!FnsOf(arc[1])' = Profile!FnsOf(arc[1]) /\ Profile!Doubles(arc)' = Profile!Doubles(arc)
      BY <1>2, CountsStay
    <3>2. Cardinality(Profile!FnsOf(arc[1])) \in Nat /\ Cardinality(Profile!Doubles(arc)) \in Nat
      BY <1>1, Reckoned
    <3>3. Cardinality(Profile!FnsOf(arc[1])) + Cardinality(Profile!Doubles(arc)) + Profile!Owed <= 1 + interrupted
      BY <1>1, SameSize DEF Profile!DoublesPaid
    <3>4. interrupted \in Nat
      BY <1>1 DEF Profile!TypeOK
    <3> QED
      BY <2>2, <3>1, <3>2, <3>3, <3>4
  <2>4. Profile!Owed' <= interrupted
    BY <1>1, <2>2, SameSize DEF Profile!DoublesPaid, Profile!TypeOK
  <2> QED
    BY <1>2, <2>3, <2>4, SameSize DEF Profile!DoublesPaid
<1> QED
  BY <1>6, <1>10, <1>11, <1>12 DEF Profile!ProfileInv

\* The call on top is done: what is left moves up by one.
LEMMA PopsOne ==
  ASSUME Profile!TypeOK, counting # <<>>, counting' = Tail(counting)
  PROVE  /\ counting' \in Seq(Profile!Frame) /\ Len(counting') = Len(counting) - 1 /\ DOMAIN counting' = 1 .. Len(counting) - 1
         /\ \A k \in 1 .. Len(counting) - 1 : k + 1 \in DOMAIN counting /\ k + 1 # 1 /\ counting'[k] = counting[k + 1]
         /\ Profile!Deep' = IF Len(counting) = 1 THEN 0 ELSE Profile!Deep - 1
         /\ \A arc : Cardinality(Profile!InProgress(arc)') = Cardinality(Profile!InProgress(arc)) - (IF Profile!Pair(Profile!Top) = arc THEN 1 ELSE 0)
<1>1. /\ Len(counting) \in Nat /\ DOMAIN counting = 1 .. Len(counting) /\ 1 \in DOMAIN counting /\ Profile!Top = counting[1]
      /\ Profile!Deep = Len(counting) - 1 /\ Len(counting) - 1 \in Nat
  BY TopIs, TablesTyped
<1>2. counting \in Seq(Profile!Frame)
  BY DEF Profile!TypeOK
<1>3. /\ counting' \in Seq(Profile!Frame) /\ Len(counting') = Len(counting) - 1 /\ DOMAIN counting' = 1 .. Len(counting) - 1
      /\ \A k \in 1 .. Len(counting) - 1 : k + 1 \in DOMAIN counting /\ k + 1 # 1 /\ counting'[k] = counting[k + 1]
  BY <1>1, <1>2
<1>4. Profile!Deep' = IF Len(counting) = 1 THEN 0 ELSE Profile!Deep - 1
  <2>1. CASE Len(counting) = 1
    <3>1. counting' = <<>>
      BY <1>3, <2>1
    <3> QED
      BY <2>1, <3>1 DEF Profile!Deep
  <2>2. CASE Len(counting) # 1
    <3>1. Len(counting') # 0 /\ Len(<<>>) = 0
      BY <1>1, <1>3, <2>2
    <3>2. counting' # <<>>
      BY <3>1
    <3> QED
      BY <1>1, <1>3, <2>2, <3>2 DEF Profile!Deep
  <2> QED
    BY <2>1, <2>2
<1>5. ASSUME NEW arc
      PROVE  Cardinality(Profile!InProgress(arc)') = Cardinality(Profile!InProgress(arc)) - (IF Profile!Pair(Profile!Top) = arc THEN 1 ELSE 0)
  <2>1. PICK n \in Nat : n = Len(counting) - 1
    BY <1>1, Zenon
  <2>2. PICK s, t : s = counting' /\ t = counting
    OBVIOUS
  <2>3. DOMAIN s = 1 .. n /\ DOMAIN t = 1 .. n + 1 /\ \A k \in 1 .. n : t[k + 1] = s[k]
    BY <1>1, <1>3, <2>1, <2>2
  <2>4. /\ Cardinality(On(arc, s)) \in Nat
        /\ Cardinality(On(arc, t))
             = Cardinality(On(arc, s)) + (IF Profile!Pair(t[1]) = arc THEN 1 ELSE 0)
    BY <2>3, OneBefore, SMTT(30)
  <2>5. Profile!InProgress(arc)' = On(arc, s)
    BY <2>2 DEF Profile!InProgress, On
  <2>6. Profile!InProgress(arc) = On(arc, t)
    BY <2>2 DEF Profile!InProgress, On
  <2>7. t[1] = Profile!Top
    BY <1>1, <2>2
  <2> QED
    BY <2>4, <2>5, <2>6, <2>7
<1> QED
  BY <1>3, <1>4, <1>5

\* A call begins: it is on top of the others.
LEMMA PutsOne ==
  ASSUME Profile!TypeOK, NEW g \in Profile!Frame, counting' = <<g>> \o counting
  PROVE  /\ counting' \in Seq(Profile!Frame) /\ counting' # <<>> /\ Len(counting') = Len(counting) + 1
         /\ DOMAIN counting' = 1 .. Len(counting) + 1 /\ counting'[1] = g /\ Profile!Top' = g
         /\ \A k \in 1 .. Len(counting) : counting'[k + 1] = counting[k]
         /\ Profile!Deep' = Len(counting)
         /\ \A arc : Cardinality(Profile!InProgress(arc)') = Cardinality(Profile!InProgress(arc)) + (IF Profile!Pair(g) = arc THEN 1 ELSE 0)
<1>1. Len(counting) \in Nat /\ DOMAIN counting = 1 .. Len(counting) /\ counting \in Seq(Profile!Frame)
  BY TablesTyped DEF Profile!TypeOK
<1>2. /\ counting' \in Seq(Profile!Frame) /\ counting' # <<>> /\ Len(counting') = Len(counting) + 1
      /\ DOMAIN counting' = 1 .. Len(counting) + 1 /\ counting'[1] = g
      /\ \A k \in 1 .. Len(counting) : counting'[k + 1] = counting[k]
  BY <1>1
<1>3. Profile!Deep' = Len(counting)
  BY <1>1, <1>2 DEF Profile!Deep
<1>4. Profile!Top' = g
  BY <1>2 DEF Profile!Top
<1>5. ASSUME NEW arc
      PROVE  Cardinality(Profile!InProgress(arc)') = Cardinality(Profile!InProgress(arc)) + (IF Profile!Pair(g) = arc THEN 1 ELSE 0)
  <2>1. PICK n \in Nat : n = Len(counting)
    BY <1>1
  <2>2. PICK s, t : s = counting /\ t = counting'
    OBVIOUS
  <2>3. DOMAIN s = 1 .. n /\ DOMAIN t = 1 .. n + 1 /\ \A k \in 1 .. n : t[k + 1] = s[k]
    BY <1>1, <1>2, <2>1, <2>2
  <2>4. /\ Cardinality(On(arc, s)) \in Nat
        /\ Cardinality(On(arc, t))
             = Cardinality(On(arc, s)) + (IF Profile!Pair(t[1]) = arc THEN 1 ELSE 0)
    BY <2>3, OneBefore, SMTT(30)
  <2>5. Profile!InProgress(arc) = On(arc, s)
    BY <2>2 DEF Profile!InProgress, On
  <2>6. Profile!InProgress(arc)' = On(arc, t)
    BY <2>2 DEF Profile!InProgress, On
  <2>7. t[1] = g
    BY <1>2, <2>2
  <2> QED
    BY <2>4, <2>5, <2>6, <2>7, SMTT(30)
<1> QED
  BY <1>2, <1>3, <1>4, <1>5

\* A call that begins owes the interrupt it took, if it took one.
LEMMA EnterKeeps ==
  ASSUME Profile!ProfileInv, NEW arc \in Profile!Arc, Profile!Enter(arc),
         interrupted' = IF counting = <<>> THEN interrupted ELSE interrupted + 1
  PROVE  Profile!ProfileInv'
<1> DEFINE g == [at |-> "fn", self_pc |-> arc[1], from_pc |-> arc[2], fn |-> Profile!None, arc |-> Profile!None, count |-> 0]
<1>1. Profile!TypeOK /\ Profile!HistogramSound /\ Profile!FramesSound /\ Profile!MissesPaid /\ Profile!DoublesPaid
  BY DEF Profile!ProfileInv
<1>2. /\ UNCHANGED Profile!tables /\ fns' = fns /\ arcs' = arcs /\ counting' = <<g>> \o counting
      /\ calls' = [calls EXCEPT ![arc] = calls[arc] + 1] /\ Profile!HistogramSound'
  <2>1. UNCHANGED Profile!tables /\ UNCHANGED Profile!sampler /\ counting' = <<g>> \o counting
        /\ calls' = [calls EXCEPT ![arc] = calls[arc] + 1]
    BY DEF Profile!Enter
  <2>2. Profile!HistogramSound'
    BY <1>1, <2>1 DEF Profile!HistogramSound, Profile!sampler
  <2> QED
    BY <2>1, <2>2 DEF Profile!tables
<1>3. /\ interrupted \in Nat /\ calls \in [Profile!Arc -> Nat] /\ Len(fns) \in Nat /\ Len(arcs) \in Nat
      /\ Len(counting) \in Nat /\ DOMAIN counting = 1 .. Len(counting)
  BY <1>1, TablesTyped DEF Profile!TypeOK
<1>4. g \in Profile!Frame /\ Profile!Pair(g) = arc /\ g.at = "fn" /\ g.fn = Profile!None
  <2>1. arc = <<arc[1], arc[2]>> /\ arc[1] \in Pcs /\ arc[2] \in Pcs
    BY DEF Profile!Arc
  <2> QED
    BY <1>3, <2>1 DEF Profile!Frame, Profile!Pair, Profile!None
<1> HIDE DEF g
<1>5. /\ counting' \in Seq(Profile!Frame) /\ counting' # <<>> /\ Len(counting') = Len(counting) + 1
      /\ DOMAIN counting' = 1 .. Len(counting) + 1 /\ counting'[1] = g /\ Profile!Top' = g
      /\ \A k \in 1 .. Len(counting) : counting'[k + 1] = counting[k]
      /\ Profile!Deep' = Len(counting)
      /\ \A a : Cardinality(Profile!InProgress(a)') = Cardinality(Profile!InProgress(a)) + (IF arc = a THEN 1 ELSE 0)
  BY <1>1, <1>2, <1>4, PutsOne
<1>6. Profile!TypeOK'
  <2>1. calls' \in [Profile!Arc -> Nat] /\ interrupted' \in Nat
    BY <1>2, <1>3
  <2> QED
    BY <1>1, <1>2, <1>5, <2>1, TypesStay DEF Profile!TypeOK
<1>7. ASSUME NEW a \in Profile!Arc PROVE Profile!Missing(a)' = Profile!Missing(a) /\ Profile!Missing(a) \in Int
  <2>1. calls'[a] = calls[a] + (IF arc = a THEN 1 ELSE 0) /\ calls[a] \in Nat
    BY <1>2, <1>3
  <2>2. Profile!CountOf(a)' = Profile!CountOf(a) /\ Profile!CountOf(a) \in Nat /\ Cardinality(Profile!InProgress(a)) \in Nat
    BY <1>1, <1>2, CountsStay, CountIsNumber, Reckoned
  <2> QED
    BY <1>5, <2>1, <2>2, SameSize DEF Profile!Missing
<1>8. PICK n \in Nat, d \in Nat, was \in Nat, l \in Nat :
        /\ Profile!Deep = d /\ Profile!Deep' = n /\ interrupted = was /\ interrupted' = l
        /\ (n = d /\ l = was) \/ (n = d + 1 /\ l = was + 1)
  <2>1. Profile!Deep' = Len(counting) /\ Len(counting) \in Nat /\ interrupted \in Nat
    BY <1>3, <1>5
  <2>2. CASE counting = <<>>
    <3>1. Len(counting) = 0 /\ Profile!Deep = 0 /\ interrupted' = interrupted
      BY <2>2 DEF Profile!Deep
    <3> QED
      BY <2>1, <3>1
  <2>3. CASE counting # <<>>
    <3>1. Profile!Deep \in Nat /\ Len(counting) = Profile!Deep + 1 /\ interrupted' = interrupted + 1
      BY <1>1, <1>3, <2>3, TopIs
    <3> QED
      BY <2>1, <3>1
  <2> QED
    BY <2>2, <2>3
<1>9. ASSUME NEW j \in DOMAIN counting', j # 1
      PROVE  j - 1 \in DOMAIN counting /\ counting'[j] = counting[j - 1]
  <2>1. j - 1 \in 1 .. Len(counting) /\ (j - 1) + 1 = j
    BY <1>3, <1>5, <1>9
  <2> QED
    BY <1>3, <1>5, <2>1
<1>10. Profile!FramesSound'
  <2> SUFFICES ASSUME NEW j \in DOMAIN counting'
               PROVE  Profile!Found(counting[j])' /\ \A i \in 1 .. j - 1 : Profile!FollowsOn(counting[i], counting[j])'
    BY DEF Profile!FramesSound
  <2>1. PICK f : f = counting'[j]
    OBVIOUS
  <2>2. Profile!Found(f)
    <3>1. CASE j = 1
      BY <1>4, <1>5, <2>1, <3>1 DEF Profile!Found, Profile!Using, Profile!None
    <3>2. CASE j # 1
      BY <1>1, <1>9, <2>1, <3>2 DEF Profile!FramesSound
    <3> QED
      BY <3>1, <3>2
  <2>3. Profile!Found(counting[j])'
    <3>1. Profile!Found(f)'
      BY <1>2, <2>2, TablesStay
    <3> QED
      BY <2>1, <3>1 DEF Profile!Found
  <2>4. ASSUME NEW i \in 1 .. j - 1 PROVE Profile!FollowsOn(counting'[i], counting'[j])
    <3>1. j # 1 /\ j \in 1 .. Len(counting) + 1 /\ i \in DOMAIN counting'
      BY <1>3, <1>5
    <3>2. CASE i = 1
      BY <1>4, <1>5, <3>2 DEF Profile!FollowsOn, Profile!Making
    <3>3. CASE i # 1
      <4>1. i - 1 \in 1 .. (j - 1) - 1
        BY <3>1, <3>3
      <4> QED
        BY <1>1, <1>9, <3>1, <3>3, <4>1 DEF Profile!FramesSound
    <3> QED
      BY <3>2, <3>3
  <2> QED
    BY <2>3, <2>4
<1>11. Profile!MissesPaid'
  <2>1. ASSUME NEW a \in Profile!Arc PROVE Profile!Missing(a)' >= 0 /\ Profile!Missing(a)' + Profile!Deep' <= interrupted'
    <3>1. Profile!Missing(a) >= 0 /\ Profile!Missing(a) + Profile!Deep <= interrupted
      BY <1>1 DEF Profile!MissesPaid
    <3> QED
      BY <1>3, <1>7, <1>8, <3>1
  <2>2. ASSUME NEW j \in DOMAIN counting', NEW f, f = counting'[j], f.at = "store"
        PROVE  Profile!Missing(Profile!Pair(f))' + (arcs'[f.arc].count - f.count) + Profile!Deep' <= interrupted'
    <3>1. j # 1
      BY <1>4, <1>5, <2>2
    <3>2. j - 1 \in DOMAIN counting /\ f = counting[j - 1]
      BY <1>9, <2>2, <3>1
    <3>3. Profile!Missing(Profile!Pair(f)) + (arcs[f.arc].count - f.count) + Profile!Deep <= interrupted
      BY <1>1, <2>2, <3>2 DEF Profile!MissesPaid
    <3>4. Profile!Pair(f) \in Profile!Arc /\ f.count \in Nat
      BY <1>1, <1>3, <3>2, TablesTyped
    <3>5. arcs[f.arc].count \in Nat
      <4>1. Profile!Found(f)
        BY <1>1, <3>2 DEF Profile!FramesSound
      <4> QED
        BY <1>1, <2>2, <4>1, ArcFound, TablesTyped DEF Profile!Using
    <3>6. arcs'[f.arc].count = arcs[f.arc].count
      BY <1>2
    <3>7. Profile!Missing(Profile!Pair(f))' = Profile!Missing(Profile!Pair(f)) /\ Profile!Missing(Profile!Pair(f)) \in Int
      BY <1>7, <3>4
    <3>8. PICK x, y, z \in Int : x = Profile!Missing(Profile!Pair(f)) /\ y = arcs[f.arc].count /\ z = f.count
      BY <3>4, <3>5, <3>7
    <3>9. x + (y - z) + d <= was
      BY <1>8, <3>3, <3>8
    <3>10. x + (y - z) + n <= l
      BY <1>8, <3>9
    <3> QED
      BY <1>8, <3>6, <3>7, <3>8, <3>10
  <2> QED
    BY <2>1, <2>2 DEF Profile!MissesPaid
<1>12. Profile!DoublesPaid'
  <2>1. ~Profile!Stale(Profile!Top)'
    <3>1. ~Profile!Stale(g)
      BY <1>4 DEF Profile!Stale, Profile!Making
    <3>2. ~Profile!Stale(g)'
      BY <1>2, <3>1, TablesStay
    <3> QED
      BY <1>5, <3>2 DEF Profile!Stale
  <2>2. Profile!Owed' = Profile!Deep' /\ Profile!Owed >= Profile!Deep /\ Profile!Owed \in Int
    <3>1. Profile!Owed = Profile!Deep \/ Profile!Owed = Profile!Deep + 1
      BY <1>8 DEF Profile!Owed
    <3>2. Profile!Owed' = Profile!Deep' + 0
      BY <2>1, Zenon DEF Profile!Owed
    <3>3. Profile!Owed >= Profile!Deep /\ Profile!Owed \in Int
      BY <1>8, <3>1
    <3>4. Profile!Owed' = Profile!Deep'
      BY <1>8, <3>2
    <3> QED
      BY <3>3, <3>4
  <2>3. ASSUME NEW a \in Profile!Arc
        PROVE  Cardinality(Profile!FnsOf(a[1])') + Cardinality(Profile!Doubles(a)') + Profile!Owed' <= 1 + interrupted'
    <3>1. Profile!FnsOf(a[1])' = Profile!FnsOf(a[1]) /\ Profile!Doubles(a)' = Profile!Doubles(a)
      BY <1>2, CountsStay
    <3>2. Cardinality(Profile!FnsOf(a[1])) \in Nat /\ Cardinality(Profile!Doubles(a)) \in Nat
      BY <1>1, Reckoned
    <3>3. Cardinality(Profile!FnsOf(a[1])) + Cardinality(Profile!Doubles(a)) + Profile!Owed <= 1 + interrupted
      BY <1>1, SameSize DEF Profile!DoublesPaid
    <3> QED
      BY <1>3, <1>8, <2>2, <3>1, <3>2, <3>3
  <2>4. Profile!Owed' <= interrupted'
    <3>1. Profile!Owed <= interrupted
      BY <1>1, SameSize DEF Profile!DoublesPaid
    <3> QED
      BY <1>3, <1>8, <2>2, <3>1
  <2> QED
    BY <2>3, <2>4, SameSize DEF Profile!DoublesPaid
<1> QED
  BY <1>2, <1>6, <1>10, <1>11, <1>12 DEF Profile!ProfileInv

\* Nothing of the calls or of the tables changes.
LEMMA IdleKeeps ==
  ASSUME Profile!ProfileInv, UNCHANGED <<Profile!tables, counting, Profile!history>>,
         Profile!HistogramSound'
  PROVE  Profile!ProfileInv'
<1>1. fns' = fns /\ arcs' = arcs /\ counting' = counting /\ calls' = calls /\ interrupted' = interrupted
  BY DEF Profile!tables, Profile!history
<1>2. \A arc : /\ Profile!CountOf(arc)' = Profile!CountOf(arc) /\ Profile!FnsOf(arc[1])' = Profile!FnsOf(arc[1])
               /\ Profile!Doubles(arc)' = Profile!Doubles(arc) /\ Profile!InProgress(arc)' = Profile!InProgress(arc)
  BY <1>1, CountsStay DEF Profile!InProgress
<1>3. \A arc : Profile!Missing(arc)' = Profile!Missing(arc)
  BY <1>1, <1>2, SameSize DEF Profile!Missing
<1>4. Profile!Deep' = Profile!Deep /\ Profile!Top' = Profile!Top
  BY <1>1 DEF Profile!Deep, Profile!Top
<1>5. \A f : (Profile!Found(f)' <=> Profile!Found(f)) /\ (Profile!Stale(f)' <=> Profile!Stale(f))
  BY <1>1, TablesStay
<1>6. Profile!TypeOK'
  BY <1>1 DEF Profile!ProfileInv, Profile!TypeOK, Profile!Entry, Profile!Frame
<1>7. Profile!FramesSound'
  BY <1>1, <1>5 DEF Profile!ProfileInv, Profile!FramesSound
<1>8. Profile!MissesPaid'
  BY <1>1, <1>3, <1>4 DEF Profile!ProfileInv, Profile!MissesPaid
<1>9. Profile!DoublesPaid'
  BY <1>1, <1>2, <1>4, <1>5, SameSize DEF Profile!ProfileInv, Profile!DoublesPaid,
    Profile!Owed
<1> QED
  BY <1>6, <1>7, <1>8, <1>9 DEF Profile!ProfileInv

\* What is left of the calls, when the one on top is done, has interrupted
\* the others as before, and owes one interrupt less.
LEMMA PopsKeep ==
  ASSUME Profile!ProfileInv, counting # <<>>, counting' = Tail(counting)
  PROVE  /\ \A j \in DOMAIN counting' :
              /\ j + 1 \in DOMAIN counting /\ counting'[j] = counting[j + 1] /\ Profile!Found(counting'[j])
              /\ Profile!FollowsOn(Profile!Top, counting'[j]) /\ Len(counting) # 1
              /\ \A i \in 1 .. j - 1 : Profile!FollowsOn(counting'[i], counting'[j])
         /\ \E n, m \in Nat : /\ Profile!Deep = n /\ Profile!Deep' = m /\ m <= n /\ Profile!Owed' \in m .. n
                              /\ Len(counting) # 1 => n = m + 1
<1>1. Profile!TypeOK /\ Profile!FramesSound
  BY DEF Profile!ProfileInv
<1>2. /\ Len(counting') = Len(counting) - 1 /\ DOMAIN counting' = 1 .. Len(counting) - 1
      /\ \A k \in 1 .. Len(counting) - 1 : k + 1 \in DOMAIN counting /\ k + 1 # 1 /\ counting'[k] = counting[k + 1]
      /\ Profile!Deep' = IF Len(counting) = 1 THEN 0 ELSE Profile!Deep - 1
  BY <1>1, PopsOne
<1>3. Profile!Top = counting[1] /\ Len(counting) \in Nat /\ DOMAIN counting = 1 .. Len(counting) /\ Profile!Deep = Len(counting) - 1 /\ Profile!Deep \in Nat
  BY <1>1, TopIs, TablesTyped
<1>4. ASSUME NEW j \in DOMAIN counting'
      PROVE  /\ j + 1 \in DOMAIN counting /\ counting'[j] = counting[j + 1] /\ Profile!Found(counting'[j])
             /\ Profile!FollowsOn(Profile!Top, counting'[j]) /\ Len(counting) # 1
             /\ \A i \in 1 .. j - 1 : Profile!FollowsOn(counting'[i], counting'[j])
  <2>1. j + 1 \in DOMAIN counting /\ counting'[j] = counting[j + 1] /\ Len(counting) # 1 /\ 1 \in 1 .. (j + 1) - 1
    BY <1>2, <1>3
  <2>2. Profile!Found(counting[j + 1]) /\ \A i \in 1 .. (j + 1) - 1 : Profile!FollowsOn(counting[i], counting[j + 1])
    BY <1>1, <2>1 DEF Profile!FramesSound
  <2>3. ASSUME NEW i \in 1 .. j - 1 PROVE Profile!FollowsOn(counting'[i], counting'[j])
    <3>1. i + 1 \in 1 .. (j + 1) - 1 /\ counting'[i] = counting[i + 1]
      BY <1>2, <1>3
    <3> QED
      BY <2>1, <2>2, <3>1
  <2> QED
    BY <1>3, <2>1, <2>2, <2>3
<1>5. PICK n, m \in Nat : Profile!Deep = n /\ Profile!Deep' = m /\ m = IF Len(counting) = 1 THEN 0 ELSE n - 1
  <2>1. CASE Len(counting) = 1
    BY <1>2, <1>3, <2>1, SMTT(30)
  <2>2. CASE Len(counting) # 1
    <3>1. Profile!Deep - 1 \in Nat
      BY <1>3, <2>2
    <3> QED
      BY <1>2, <1>3, <2>2, <3>1, Zenon
  <2> QED
    BY <2>1, <2>2
<1>6. Profile!Owed' \in m .. n
  <2>1. CASE Len(counting) = 1
    <3>1. counting' = <<>>
      <4>1. counting' \in Seq(Profile!Frame)
        BY <1>1, PopsOne
      <4> QED
        BY <1>2, <2>1, <4>1
    <3>2. Profile!Owed' = Profile!Deep' + 0
      BY <3>1, Zenon DEF Profile!Owed
    <3>3. Profile!Owed' = m + 0 /\ n = 0
      BY <1>3, <1>5, <2>1, <3>2
    <3> QED
      BY <1>5, <2>1, <3>3
  <2>2. CASE Len(counting) # 1
    <3>1. Profile!Owed' = Profile!Deep' + 0 \/ Profile!Owed' = Profile!Deep' + 1
      BY Zenon DEF Profile!Owed
    <3>2. Profile!Owed' = m + 0 \/ Profile!Owed' = m + 1
      BY <1>5, <3>1
    <3>3. \A o : o = m + 0 \/ o = m + 1 => o \in m .. n
      BY <1>3, <1>5, <2>2
    <3> QED
      BY <3>2, <3>3
  <2> QED
    BY <2>1, <2>2
<1>7. m <= n /\ (Len(counting) # 1 => n = m + 1)
  BY <1>3, <1>5
<1>8. \E k, l \in Nat : /\ Profile!Deep = k /\ Profile!Deep' = l /\ l <= k /\ Profile!Owed' \in l .. k
                        /\ Len(counting) # 1 => k = l + 1
  BY <1>5, <1>6, <1>7, Zenon
<1> QED
  BY <1>4, <1>8

\* A count is written: what was counted since it was read is lost, and paid
\* by the interrupted in between.
LEMMA CountKeeps ==
  ASSUME Profile!ProfileInv, Profile!StoreCount
  PROVE  Profile!ProfileInv'
<1>1. Profile!TypeOK /\ Profile!HistogramSound /\ Profile!FramesSound /\ Profile!MissesPaid /\ Profile!DoublesPaid
  BY DEF Profile!ProfileInv
<1>2. /\ counting # <<>> /\ Profile!Top.at = "store" /\ counting' = Tail(counting)
      /\ arcs' = [arcs EXCEPT ![Profile!Top.arc].count = Profile!Top.count + 1]
      /\ fns' = fns /\ calls' = calls /\ interrupted' = interrupted /\ UNCHANGED Profile!sampler
  BY DEF Profile!StoreCount, Profile!At, Profile!history
<1>3. /\ Len(counting) \in Nat /\ 1 \in DOMAIN counting /\ Profile!Top = counting[1] /\ interrupted \in Nat
      /\ Profile!Top.count \in Nat /\ Profile!Pair(Profile!Top) \in Profile!Arc /\ Profile!Found(Profile!Top) /\ Profile!Top.at \in Profile!Using
  BY <1>1, <1>2, TopIs, TablesTyped DEF Profile!FramesSound, Profile!Using, Profile!TypeOK
<1> DEFINE a == Profile!Top.arc
<1>4. a \in 1 .. Len(arcs) /\ a \in Profile!CopiesOf(Profile!Pair(Profile!Top)) /\ arcs[a].count \in Nat
  BY <1>1, <1>3, ArcFound, TablesTyped
<1>40. PICK tc, ac \in Nat : tc = Profile!Top.count /\ ac = arcs[a].count
  BY <1>3, <1>4
<1>5. /\ Len(arcs') = Len(arcs) /\ DOMAIN arcs' = DOMAIN arcs /\ arcs' \in Seq(Profile!Entry)
      /\ \A k \in 1 .. Len(arcs) : /\ arcs'[k].fn = arcs[k].fn /\ arcs'[k].from_pc = arcs[k].from_pc
                                   /\ arcs'[k].count = IF k = a THEN Profile!Top.count + 1 ELSE arcs[k].count
  <2>1. arcs \in Seq(Profile!Entry) /\ DOMAIN arcs = 1 .. Len(arcs)
    BY <1>1, TablesTyped DEF Profile!TypeOK
  <2>2. \A k \in 1 .. Len(arcs) : arcs[k] \in Profile!Entry
    BY <2>1
  <2> DEFINE new == [arcs[a] EXCEPT !.count = Profile!Top.count + 1]
  <2>3. new \in Profile!Entry /\ new.fn = arcs[a].fn /\ new.from_pc = arcs[a].from_pc /\ new.count = Profile!Top.count + 1
    <3>1. arcs[a] \in Profile!Entry /\ Profile!Top.count + 1 \in Nat
      BY <1>3, <1>4, <2>2
    <3> HIDE DEF a
    <3> QED
      BY <3>1 DEF Profile!Entry
  <2>4. arcs' = [arcs EXCEPT ![a] = new]
    BY <1>2
  <2> HIDE DEF new, a
  <2> QED
    BY <1>4, <2>1, <2>3, <2>4
<1> HIDE DEF a
<1>6. \A fn, from : Profile!ArcsOf(fn, from)' = Profile!ArcsOf(fn, from)
  BY <1>1, <1>5, TablesTyped DEF Profile!ArcsOf
<1>7. \A pc : Profile!FnsOf(pc)' = Profile!FnsOf(pc)
  BY <1>2 DEF Profile!FnsOf
<1>8. Profile!TypeOK'
  <2>1. Profile!Entry' = Profile!Entry /\ Profile!Frame' = Profile!Frame /\ counting' \in Seq(Profile!Frame)
    <3>1. Len(fns') = Len(fns) /\ Len(arcs') = Len(arcs) /\ counting' \in Seq(Profile!Frame)
      BY <1>1, <1>2, <1>5, PopsOne
    <3> QED
      BY <3>1 DEF Profile!Entry, Profile!Frame
  <2> QED
    BY <1>1, <1>2, <1>5, <2>1 DEF Profile!TypeOK
<1>9. PICK n, m \in Nat : /\ Profile!Deep = n /\ Profile!Deep' = m /\ m <= n /\ Profile!Owed' \in m .. n
                          /\ Len(counting) # 1 => n = m + 1
  BY <1>1, <1>2, PopsKeep
<1>10. ASSUME NEW j \in DOMAIN counting'
       PROVE  /\ j + 1 \in DOMAIN counting /\ counting'[j] = counting[j + 1] /\ Profile!Found(counting'[j])
              /\ Profile!FollowsOn(Profile!Top, counting'[j]) /\ Len(counting) # 1
              /\ \A i \in 1 .. j - 1 : Profile!FollowsOn(counting'[i], counting'[j])
  BY <1>1, <1>2, PopsKeep
<1>11. ASSUME NEW j \in DOMAIN counting', NEW f, f = counting'[j], f.at = "store"
       PROVE  /\ f.count \in Nat /\ f.arc \in 1 .. Len(arcs) /\ Profile!Pair(f) \in Profile!Arc
              /\ f.arc = a => Profile!Pair(f) = Profile!Pair(Profile!Top) /\ f.count <= Profile!Top.count
              /\ f.arc # a => Profile!Pair(f) # Profile!Pair(Profile!Top)
  <2>1. j + 1 \in DOMAIN counting /\ f = counting[j + 1] /\ Profile!Found(f) /\ Profile!FollowsOn(Profile!Top, f) /\ f.at \in Profile!Using
    BY <1>10, <1>11 DEF Profile!Using
  <2>2. f.count \in Nat /\ f.arc \in 1 .. Len(arcs) /\ Profile!Pair(f) \in Profile!Arc
    BY <1>1, <2>1, ArcFound, TablesTyped
  <2>3. Profile!Pair(f) = Profile!Pair(Profile!Top) <=> f.arc = a
    BY <1>1, <1>3, <2>1, SameFound DEF a
  <2>4. Profile!Pair(f) = Profile!Pair(Profile!Top) => f.count <= Profile!Top.count
    BY <1>2, <1>11, <2>1 DEF Profile!Pair, Profile!FollowsOn
  <2> QED
    BY <2>2, <2>3, <2>4
<1>12. Profile!FramesSound'
  <2> SUFFICES ASSUME NEW j \in DOMAIN counting'
               PROVE  Profile!Found(counting[j])' /\ \A i \in 1 .. j - 1 : Profile!FollowsOn(counting[i], counting[j])'
    BY DEF Profile!FramesSound
  <2>1. PICK f : f = counting'[j]
    OBVIOUS
  <2>2. Profile!Found(f)
    BY <1>10, <2>1
  <2>3. f.at = "store" => f.count <= arcs'[f.arc].count
    <3> SUFFICES ASSUME f.at = "store" PROVE f.count <= arcs'[f.arc].count
      OBVIOUS
    <3>1. /\ f.count \in Nat /\ f.arc \in 1 .. Len(arcs)
          /\ f.arc = a => f.count <= Profile!Top.count
      BY <1>11, <2>1
    <3>2. f.count <= arcs[f.arc].count
      BY <2>2 DEF Profile!Found
    <3> QED
      BY <1>3, <1>5, <3>1, <3>2
  <2>4. Profile!Found(f)'
    BY <1>6, <1>7, <2>2, <2>3 DEF Profile!Found
  <2>5. Profile!Found(counting[j])'
    BY <2>1, <2>4 DEF Profile!Found
  <2> QED
    BY <1>10, <2>5
<1>13. ASSUME NEW arc \in Profile!Arc
       PROVE  /\ Profile!Missing(arc)' = Profile!Missing(arc) + (IF arc = Profile!Pair(Profile!Top) THEN arcs[a].count - Profile!Top.count ELSE 0)
              /\ Profile!Missing(arc) \in Int
              /\ Profile!CopiesOf(arc)' = Profile!CopiesOf(arc)
  <2>1. a \in Profile!CopiesOf(arc) <=> arc = Profile!Pair(Profile!Top)
    <3>1. fns[arcs[a].fn] = Profile!Top.self_pc /\ arcs[a].from_pc = Profile!Top.from_pc
      BY <1>4 DEF Profile!CopiesOf, Profile!Pair
    <3>2. arc = <<arc[1], arc[2]>>
      BY DEF Profile!Arc
    <3>3. a \in DOMAIN arcs
      BY <1>1, <1>4, TablesTyped
    <3> QED
      BY <3>1, <3>2, <3>3 DEF Profile!CopiesOf, Profile!Pair
  <2>2. PICK k \in 1 .. Len(arcs), c \in Nat : k = a /\ c = Profile!Top.count + 1
    BY <1>3, <1>4
  <2>3. /\ Profile!CopiesOf(arc)' = Profile!CopiesOf(arc)
        /\ Profile!CountOf(arc)' = Profile!CountOf(arc) + (IF k \in Profile!CopiesOf(arc) THEN c - arcs[k].count ELSE 0)
    <3>1. arcs' = [arcs EXCEPT ![k].count = c]
      BY <1>2, <2>2 DEF a
    <3> QED
      BY <1>1, <1>2, <3>1, CountStored
  <2>4. Cardinality(Profile!InProgress(arc)') = Cardinality(Profile!InProgress(arc)) - (IF Profile!Pair(Profile!Top) = arc THEN 1 ELSE 0)
    BY <1>1, <1>2, PopsOne
  <2>5. /\ Profile!CountOf(arc) \in Nat /\ Cardinality(Profile!InProgress(arc)) \in Nat /\ calls[arc] \in Nat
        /\ Profile!Missing(arc) \in Int
    BY <1>1, CountIsNumber, Reckoned DEF Profile!TypeOK
  <2>6. PICK x, y, z \in Int : x = calls[arc] /\ y = Cardinality(Profile!InProgress(arc)) /\ z = Profile!CountOf(arc)
    BY <2>5
  <2>7. PICK d, e \in Int : /\ d = IF arc = Profile!Pair(Profile!Top) THEN 1 ELSE 0
                           /\ e = IF arc = Profile!Pair(Profile!Top) THEN tc + 1 - ac ELSE 0
    <3>1. tc + 1 - ac \in Int /\ 1 \in Int /\ 0 \in Int
      OBVIOUS
    <3> HIDE DEF a
    <3> QED
      BY <3>1, Zenon
  <2>8. Cardinality(Profile!InProgress(arc)') = y - d
    BY <2>4, <2>6, <2>7
  <2>9. Profile!CountOf(arc)' = z + e
    <3>1. CASE arc = Profile!Pair(Profile!Top)
      <4>1. k \in Profile!CopiesOf(arc) /\ c = tc + 1 /\ arcs[k].count = ac /\ e = tc + 1 - ac
        BY <1>40, <2>1, <2>2, <2>7, <3>1
      <4>2. Profile!CountOf(arc)' = Profile!CountOf(arc) + (c - arcs[k].count)
        BY <2>3, <4>1
      <4> QED
        BY <2>6, <4>1, <4>2
    <3>2. CASE arc # Profile!Pair(Profile!Top)
      BY <2>1, <2>2, <2>3, <2>6, <2>7, <3>2
    <3> QED
      BY <3>1, <3>2
  <2>10. Profile!Missing(arc)' = x - (y - d) - (z + e) /\ Profile!Missing(arc) = x - y - z
    BY <1>2, <2>6, <2>8, <2>9, SameSize DEF Profile!Missing
  <2>11. x - (y - d) - (z + e) = (x - y - z) + (IF arc = Profile!Pair(Profile!Top) THEN ac - tc ELSE 0)
    <3>1. CASE arc = Profile!Pair(Profile!Top)
      <4>1. x - (y - 1) - (z + (tc + 1 - ac)) = (x - y - z) + (ac - tc)
        OBVIOUS
      <4> QED
        BY <2>7, <3>1, <4>1
    <3>2. CASE arc # Profile!Pair(Profile!Top)
      <4>1. x - (y - 0) - (z + 0) = (x - y - z) + 0
        OBVIOUS
      <4> QED
        BY <2>7, <3>2, <4>1
    <3> QED
      BY <3>1, <3>2
  <2> QED
    BY <1>40, <2>3, <2>5, <2>10, <2>11
<1>14. Profile!MissesPaid'
  <2>1. PICK t \in Int : t = arcs[a].count - Profile!Top.count /\ t >= 0
    <3>1. Profile!Top.count <= arcs[a].count
      BY <1>2, <1>3 DEF Profile!Found, a
    <3> QED
      BY <1>3, <1>4, <3>1
  <2>2. Profile!Missing(Profile!Pair(Profile!Top)) + t + n <= interrupted
    BY <1>1, <1>2, <1>3, <1>9, <2>1 DEF Profile!MissesPaid, a
  <2>3. ASSUME NEW arc \in Profile!Arc PROVE Profile!Missing(arc)' >= 0 /\ Profile!Missing(arc)' + Profile!Deep' <= interrupted'
    <3>1. PICK s \in Int : s = Profile!Missing(arc) + (IF arc = Profile!Pair(Profile!Top) THEN t ELSE 0)
      BY <1>13, <2>1
    <3>2. Profile!Missing(arc)' = s
      BY <1>13, <2>1, <3>1
    <3>3. Profile!Missing(arc) >= 0 /\ Profile!Missing(arc) + n <= interrupted /\ Profile!Missing(arc) \in Int
      BY <1>1, <1>9, <1>13 DEF Profile!MissesPaid
    <3>4. s >= 0 /\ s + m <= interrupted
      <4>1. PICK x \in Int, i \in Int : x = Profile!Missing(arc) /\ i = interrupted
        BY <1>3, <3>3
      <4>2. x >= 0 /\ x + n <= i
        BY <3>3, <4>1
      <4>3. CASE arc = Profile!Pair(Profile!Top)
        <5>1. s = x + t /\ x + t + n <= i
          BY <2>2, <3>1, <4>1, <4>3
        <5>2. s >= 0 /\ s + m <= i
          BY <1>9, <2>1, <4>2, <5>1
        <5> QED
          BY <4>1, <5>2
      <4>4. CASE arc # Profile!Pair(Profile!Top)
        <5>1. s = x
          BY <3>1, <4>1, <4>4
        <5>2. s >= 0 /\ s + m <= i
          BY <1>9, <4>2, <5>1
        <5> QED
          BY <4>1, <5>2
      <4> QED
        BY <4>3, <4>4
    <3> QED
      BY <1>2, <1>9, <3>2, <3>4
  <2>4. ASSUME NEW j \in DOMAIN counting', NEW f, f = counting'[j], f.at = "store"
        PROVE  Profile!Missing(Profile!Pair(f))' + (arcs'[f.arc].count - f.count) + Profile!Deep' <= interrupted'
    <3>1. /\ f.count \in Nat /\ f.arc \in 1 .. Len(arcs) /\ Profile!Pair(f) \in Profile!Arc
          /\ f.arc = a => Profile!Pair(f) = Profile!Pair(Profile!Top) /\ f.count <= Profile!Top.count
          /\ f.arc # a => Profile!Pair(f) # Profile!Pair(Profile!Top)
          /\ n = m + 1 /\ j + 1 \in DOMAIN counting /\ f = counting[j + 1]
      BY <1>9, <1>10, <1>11, <2>4
    <3>2. Profile!Missing(Profile!Pair(f)) + (arcs[f.arc].count - f.count) + n <= interrupted
      BY <1>1, <1>9, <2>4, <3>1 DEF Profile!MissesPaid
    <3>3. PICK x \in Int : x = Profile!Missing(Profile!Pair(f))
      BY <1>13, <3>1
    <3>4. PICK y \in Nat : y = arcs[f.arc].count
      BY <1>1, <3>1, TablesTyped
    <3>5. PICK u \in Int, v \in Nat : /\ u = Profile!Missing(Profile!Pair(f))' /\ v = arcs'[f.arc].count
                                     /\ u = x + (IF f.arc = a THEN t ELSE 0)
                                     /\ v = IF f.arc = a THEN Profile!Top.count + 1 ELSE y
      <4>1. PICK u \in Int, v \in Nat : /\ u = x + (IF f.arc = a THEN t ELSE 0)
                                       /\ v = IF f.arc = a THEN Profile!Top.count + 1 ELSE y
        <5>1. x + t \in Int /\ x + 0 = x /\ Profile!Top.count + 1 \in Nat
          BY <1>3
        <5>2. CASE f.arc = a
          BY <5>1, <5>2
        <5>3. CASE f.arc # a
          BY <5>1, <5>3
        <5> QED
          BY <5>2, <5>3
      <4>2. v = arcs'[f.arc].count
        BY <1>5, <3>1, <3>4, <4>1
      <4>3. u = Profile!Missing(Profile!Pair(f))'
        <5>1. Profile!Missing(Profile!Pair(f))' = Profile!Missing(Profile!Pair(f)) + (IF Profile!Pair(f) = Profile!Pair(Profile!Top) THEN arcs[a].count - Profile!Top.count ELSE 0)
          BY <1>13, <3>1
        <5>2. CASE f.arc = a
          BY <2>1, <3>1, <3>3, <4>1, <5>1, <5>2
        <5>3. CASE f.arc # a
          BY <3>1, <3>3, <4>1, <5>1, <5>3
        <5> QED
          BY <5>2, <5>3
      <4> QED
        BY <4>1, <4>2, <4>3
    <3>6. x + (y - f.count) + (m + 1) <= interrupted
      BY <3>1, <3>2, <3>3, <3>4
    <3>7. u + (v - f.count) + m <= interrupted
      <4>1. CASE f.arc = a
        <5>1. t = y - tc /\ u = x + t /\ v = tc + 1
          BY <1>40, <2>1, <3>4, <3>5, <4>1
        <5>2. PICK w \in Nat : w = f.count
          BY <3>1
        <5>3. PICK i \in Nat : i = interrupted
          BY <1>3
        <5>4. x + (y - w) + (m + 1) <= i
          BY <3>6, <5>2, <5>3
        <5>5. u + (v - w) + m <= i
          BY <5>1, <5>4
        <5> QED
          BY <5>2, <5>3, <5>5
      <4>2. CASE f.arc # a
        <5>1. u = x /\ v = y
          BY <3>5, <4>2
        <5> QED
          BY <1>3, <3>1, <3>6, <5>1
      <4> QED
        BY <4>1, <4>2
    <3> QED
      BY <1>2, <1>9, <3>5, <3>7
  <2> QED
    BY <2>3, <2>4 DEF Profile!MissesPaid
<1>15. Profile!DoublesPaid'
  <2>1. ASSUME NEW arc \in Profile!Arc
        PROVE  Cardinality(Profile!FnsOf(arc[1])') + Cardinality(Profile!Doubles(arc)') + Profile!Owed' <= 1 + interrupted'
    <3>1. Profile!FnsOf(arc[1])' = Profile!FnsOf(arc[1]) /\ Profile!CopiesOf(arc)' = Profile!CopiesOf(arc)
      BY <1>7, <1>13
    <3>2. Profile!Doubles(arc)' = Profile!Doubles(arc)
      <4>1. \A k \in Profile!CopiesOf(arc) : k \in 1 .. Len(arcs) /\ \A j \in 1 .. k - 1 : j \in 1 .. Len(arcs)
        BY <1>1, TablesTyped DEF Profile!CopiesOf
      <4> QED
        BY <1>5, <3>1, <4>1 DEF Profile!Doubles
    <3>3. Cardinality(Profile!FnsOf(arc[1])) \in Nat /\ Cardinality(Profile!Doubles(arc)) \in Nat
      BY <1>1, Reckoned
    <3>4. Cardinality(Profile!FnsOf(arc[1])) + Cardinality(Profile!Doubles(arc)) + Profile!Owed <= 1 + interrupted /\ Profile!Owed \in Int
      BY <1>1, Reckoned, SameSize DEF Profile!DoublesPaid
    <3>5. Profile!Owed >= n
      BY <1>9 DEF Profile!Owed
    <3>6. \A o : o \in m .. n => Cardinality(Profile!FnsOf(arc[1])) + Cardinality(Profile!Doubles(arc)) + o <= 1 + interrupted
      BY <1>3, <1>9, <3>3, <3>4, <3>5
    <3> QED
      BY <1>2, <1>9, <3>1, <3>2, <3>6
  <2>2. Profile!Owed' <= interrupted'
    <3>1. Profile!Owed >= n /\ Profile!Owed \in Int /\ Profile!Owed <= interrupted
      BY <1>1, <1>9, Reckoned, SameSize DEF Profile!Owed, Profile!DoublesPaid
    <3>2. \A o : o \in m .. n => o <= interrupted
      BY <1>3, <1>9, <3>1
    <3> QED
      BY <1>2, <1>9, <3>2
  <2> QED
    BY <2>1, <2>2, SameSize DEF Profile!DoublesPaid
<1>16. Profile!HistogramSound'
  BY <1>1, <1>2 DEF Profile!HistogramSound, Profile!sampler
<1> QED
  BY <1>8, <1>12, <1>14, <1>15, <1>16 DEF Profile!ProfileInv

\* A sequence of some things is one of more things.
LEMMA SeqsGrow ==
  ASSUME NEW S, NEW T, S \subseteq T, NEW s \in Seq(S)
  PROVE  s \in Seq(T)
OBVIOUS

\* What the tables are when an entry has been made.
Recorded(fn) ==
  /\ arcs' = Append(arcs, [fn |-> fn, from_pc |-> Profile!Top.from_pc, count |-> 1])
  /\ \/ Profile!Top.fn = Profile!None /\ fn = Len(fns) + 1 /\ fns' = Append(fns, Profile!Top.self_pc)
     \/ Profile!Top.fn # Profile!None /\ fn = Profile!Top.fn /\ fn \in 1 .. Len(fns) /\ fns' = fns /\ fns[fn] = Profile!Top.self_pc

\* The entries of the function and of the arc are the ones there were, and
\* the new ones.
LEMMA RecordedTables ==
  ASSUME Profile!TypeOK, counting # <<>>, NEW fn \in 1 .. Len(fns) + 1, Recorded(fn)
  PROVE  /\ fns' \in Seq(Pcs) /\ arcs' \in Seq(Profile!Entry') /\ Profile!Frame \subseteq Profile!Frame'
         /\ Len(arcs') = Len(arcs) + 1 /\ \A k \in 1 .. Len(arcs) : arcs'[k] = arcs[k]
         /\ arcs'[Len(arcs) + 1] = [fn |-> fn, from_pc |-> Profile!Top.from_pc, count |-> 1]
         /\ DOMAIN arcs' = 1 .. Len(arcs) + 1
         /\ \A pc : Profile!FnsOf(pc)' = Profile!FnsOf(pc) \cup (IF Profile!Top.fn = Profile!None /\ pc = Profile!Top.self_pc THEN {Len(fns) + 1} ELSE {})
         /\ \A g, from : Profile!ArcsOf(g, from)' =
              Profile!ArcsOf(g, from) \cup (IF g = fn /\ from = Profile!Top.from_pc THEN {Len(arcs) + 1} ELSE {})
<1>1. /\ fns \in Seq(Pcs) /\ arcs \in Seq(Profile!Entry) /\ Profile!Top.self_pc \in Pcs /\ Profile!Top.from_pc \in Pcs
      /\ Len(fns) \in Nat /\ Len(arcs) \in Nat /\ DOMAIN fns = 1 .. Len(fns) /\ DOMAIN arcs = 1 .. Len(arcs)
      /\ fn \in Nat
  BY TablesTyped, TopIs DEF Profile!TypeOK
<1> DEFINE e == [fn |-> fn, from_pc |-> Profile!Top.from_pc, count |-> 1]
<1>2. arcs' = Append(arcs, e)
  BY DEF Recorded
<1>3. /\ fns' \in Seq(Pcs) /\ Len(fns') = Len(fns) + (IF Profile!Top.fn = Profile!None THEN 1 ELSE 0)
      /\ DOMAIN fns' = 1 .. Len(fns') /\ fn \in 1 .. Len(fns')
      /\ \A k \in 1 .. Len(fns) : fns'[k] = fns[k]
      /\ Profile!Top.fn = Profile!None => fns'[Len(fns) + 1] = Profile!Top.self_pc
  <2>1. CASE Profile!Top.fn = Profile!None
    <3>1. fns' = Append(fns, Profile!Top.self_pc) /\ fn = Len(fns) + 1
      BY <2>1 DEF Recorded
    <3> QED
      BY <1>1, <2>1, <3>1
  <2>2. CASE Profile!Top.fn # Profile!None
    BY <1>1, <2>2 DEF Recorded
  <2> QED
    BY <2>1, <2>2
<1>4. Profile!Entry \subseteq Profile!Entry' /\ e \in Profile!Entry'
  <2>1. 1 .. Len(fns) \subseteq 1 .. Len(fns')
    BY <1>1, <1>3
  <2> QED
    BY <1>1, <1>3, <2>1 DEF Profile!Entry
<1>5. arcs \in Seq(Profile!Entry')
  BY <1>1, <1>4, SeqsGrow
<1>6. /\ arcs' \in Seq(Profile!Entry') /\ Len(arcs') = Len(arcs) + 1 /\ DOMAIN arcs' = 1 .. Len(arcs) + 1
      /\ \A k \in 1 .. Len(arcs) : arcs'[k] = arcs[k]
      /\ arcs'[Len(arcs) + 1] = e
  <2> HIDE DEF e
  <2> QED
    BY <1>1, <1>2, <1>4, <1>5
<1>7. Profile!Frame \subseteq Profile!Frame'
  <2>1. 0 .. Len(fns) \subseteq 0 .. Len(fns') /\ 0 .. Len(arcs) \subseteq 0 .. Len(arcs')
    BY <1>1, <1>3, <1>6
  <2> QED
    BY <2>1 DEF Profile!Frame
<1>8. ASSUME NEW pc
      PROVE  Profile!FnsOf(pc)' = Profile!FnsOf(pc) \cup (IF Profile!Top.fn = Profile!None /\ pc = Profile!Top.self_pc THEN {Len(fns) + 1} ELSE {})
  <2>1. \A k : k \in Profile!FnsOf(pc)' <=> k \in 1 .. Len(fns') /\ fns'[k] = pc
    BY <1>3 DEF Profile!FnsOf
  <2>2. \A k : k \in Profile!FnsOf(pc) <=> k \in 1 .. Len(fns) /\ fns[k] = pc
    BY <1>1 DEF Profile!FnsOf
  <2>3. CASE Profile!Top.fn = Profile!None
    <3>1. \A k : k \in 1 .. Len(fns') <=> k \in 1 .. Len(fns) \/ k = Len(fns) + 1
      BY <1>1, <1>3, <2>3
    <3> QED
      BY <1>3, <2>1, <2>2, <2>3, <3>1
  <2>4. CASE Profile!Top.fn # Profile!None
    <3>1. \A k : k \in 1 .. Len(fns') <=> k \in 1 .. Len(fns)
      BY <1>1, <1>3, <2>4
    <3> QED
      BY <1>3, <2>1, <2>2, <2>4, <3>1
  <2> QED
    BY <2>3, <2>4
<1>9. ASSUME NEW g, NEW from
      PROVE  Profile!ArcsOf(g, from)' =
              Profile!ArcsOf(g, from) \cup (IF g = fn /\ from = Profile!Top.from_pc THEN {Len(arcs) + 1} ELSE {})
  <2>1. \A k : k \in Profile!ArcsOf(g, from)' <=> k \in 1 .. Len(arcs) + 1 /\ arcs'[k].fn = g /\ arcs'[k].from_pc = from
    BY <1>6 DEF Profile!ArcsOf
  <2>2. \A k : k \in Profile!ArcsOf(g, from) <=> k \in 1 .. Len(arcs) /\ arcs[k].fn = g /\ arcs[k].from_pc = from
    BY <1>1 DEF Profile!ArcsOf
  <2>3. \A k : k \in 1 .. Len(arcs) + 1 <=> k \in 1 .. Len(arcs) \/ k = Len(arcs) + 1
    BY <1>1
  <2>4. e.fn = fn /\ e.from_pc = Profile!Top.from_pc
    OBVIOUS
  <2> HIDE DEF e
  <2>5. ASSUME NEW k PROVE k \in Profile!ArcsOf(g, from)' <=> k \in Profile!ArcsOf(g, from) \/ (k = Len(arcs) + 1 /\ g = fn /\ from = Profile!Top.from_pc)
    BY <1>6, <2>1, <2>2, <2>3, <2>4
  <2> QED
    BY <2>5
<1> QED
  BY <1>3, <1>6, <1>7, <1>8, <1>9

\* An entry that is made is a double only if it has been made since the call
\* looked for it.
LEMMA DoublesGrow ==
  ASSUME Profile!TypeOK, counting # <<>>, NEW fn \in 1 .. Len(fns) + 1, Recorded(fn),
         Profile!Found(Profile!Top), Profile!Top.at \in Profile!Making,
         NEW arc \in Profile!Arc
  PROVE  /\ Profile!Doubles(arc)' \subseteq Profile!Doubles(arc) \cup {Len(arcs) + 1}
         /\ Len(arcs) + 1 \in Profile!Doubles(arc)' => Profile!Top.fn # Profile!None /\ Profile!Stale(Profile!Top)
         /\ Profile!FnsOf(arc[1]) = {} => Profile!Doubles(arc) = {}
         /\ Profile!CopiesOf(arc)' = Profile!CopiesOf(arc) \cup (IF Profile!Pair(Profile!Top) = arc THEN {Len(arcs) + 1} ELSE {})
         /\ Profile!CountOf(arc)' = Profile!CountOf(arc) + (IF Profile!Pair(Profile!Top) = arc THEN 1 ELSE 0)
<1>1. /\ Len(arcs') = Len(arcs) + 1 /\ \A k \in 1 .. Len(arcs) : arcs'[k] = arcs[k]
      /\ arcs'[Len(arcs) + 1] = [fn |-> fn, from_pc |-> Profile!Top.from_pc, count |-> 1]
      /\ DOMAIN arcs' = 1 .. Len(arcs) + 1
  BY RecordedTables
<1>2. /\ Len(arcs) \in Nat /\ DOMAIN arcs = 1 .. Len(arcs) /\ Len(fns) \in Nat
      /\ \A k \in 1 .. Len(arcs) : arcs[k].fn \in 1 .. Len(fns)
      /\ Profile!Top.self_pc \in Pcs /\ Profile!Top.from_pc \in Pcs
  BY TablesTyped, TopIs
<1>3. arc = <<arc[1], arc[2]>>
  BY DEF Profile!Arc
<1>4. /\ Profile!CopiesOf(arc)' = Profile!CopiesOf(arc) \cup (IF Profile!Pair(Profile!Top) = arc THEN {Len(arcs) + 1} ELSE {})
      /\ Profile!CountOf(arc)' = Profile!CountOf(arc) + (IF Profile!Pair(Profile!Top) = arc THEN 1 ELSE 0)
  <2>1. PICK pc \in Pcs, from \in Pcs : pc = Profile!Top.self_pc /\ from = Profile!Top.from_pc
    BY <1>2
  <2>2. /\ arcs' = Append(arcs, [fn |-> fn, from_pc |-> from, count |-> 1])
        /\ \/ fn = Len(fns) + 1 /\ fns' = Append(fns, pc)
           \/ fn \in 1 .. Len(fns) /\ fns' = fns /\ fns[fn] = pc
    BY <2>1 DEF Recorded
  <2>3. /\ Profile!CopiesOf(arc)' = Profile!CopiesOf(arc) \cup (IF <<pc, from>> = <<arc[1], arc[2]>> THEN {Len(arcs) + 1} ELSE {})
        /\ Profile!CountOf(arc)' = Profile!CountOf(arc) + (IF <<pc, from>> = <<arc[1], arc[2]>> THEN 1 ELSE 0)
    BY <2>2, CountRecorded
  <2>4. Profile!Pair(Profile!Top) = <<pc, from>>
    BY <2>1 DEF Profile!Pair
  <2> QED
    BY <1>3, <2>3, <2>4
<1>5. \A k \in Profile!CopiesOf(arc) : k \in 1 .. Len(arcs) /\ \A j \in 1 .. k - 1 : j \in 1 .. Len(arcs)
  BY <1>2 DEF Profile!CopiesOf
<1>6. Profile!Doubles(arc)' \subseteq Profile!Doubles(arc) \cup {Len(arcs) + 1}
  <2> SUFFICES ASSUME NEW k, k \in Profile!Doubles(arc)',
                      k # Len(arcs) + 1 PROVE k \in Profile!Doubles(arc)
    BY Zenon
  <2>1. k \in Profile!CopiesOf(arc)' /\ \E j \in 1 .. k - 1 : arcs'[j].fn = arcs'[k].fn /\ arcs'[j].from_pc = arcs'[k].from_pc
    BY DEF Profile!Doubles
  <2>2. k \in Profile!CopiesOf(arc)
    BY <1>4, <2>1
  <2> QED
    BY <1>1, <1>5, <2>1, <2>2 DEF Profile!Doubles
<1>7. ASSUME Len(arcs) + 1 \in Profile!Doubles(arc)' PROVE Profile!Top.fn # Profile!None /\ Profile!Stale(Profile!Top)
  <2>1. PICK j \in 1 .. (Len(arcs) + 1) - 1 :
          arcs'[j].fn = arcs'[Len(arcs) + 1].fn /\ arcs'[j].from_pc = arcs'[Len(arcs) + 1].from_pc
    BY <1>7 DEF Profile!Doubles
  <2>2. j \in 1 .. Len(arcs)
    BY <1>2
  <2>3. arcs[j].fn = fn /\ arcs[j].from_pc = Profile!Top.from_pc
    BY <1>1, <2>1, <2>2
  <2>4. fn # Len(fns) + 1
    BY <1>2, <2>2, <2>3
  <2>5. Profile!Top.fn # Profile!None /\ Profile!Top.fn = fn
    BY <2>4 DEF Recorded
  <2>6. j \in Profile!ArcsOf(Profile!Top.fn, Profile!Top.from_pc)
    BY <1>2, <2>2, <2>3, <2>5 DEF Profile!ArcsOf
  <2> QED
    BY <2>5, <2>6 DEF Profile!Stale
<1>8. Profile!FnsOf(arc[1]) = {} => Profile!Doubles(arc) = {}
  <2>1. DOMAIN fns = 1 .. Len(fns)
    BY TablesTyped
  <2> QED
    BY <1>2, <2>1 DEF Profile!Doubles, Profile!CopiesOf, Profile!FnsOf
<1> QED
  BY <1>4, <1>6, <1>7, <1>8

\* An entry is made: it is the call's own, and nobody else had found it
\* missing.
LEMMA RecordKeeps ==
  ASSUME Profile!ProfileInv, Profile!Record
  PROVE  Profile!ProfileInv'
<1>1. Profile!TypeOK /\ Profile!HistogramSound /\ Profile!FramesSound /\ Profile!MissesPaid /\ Profile!DoublesPaid
  BY DEF Profile!ProfileInv
<1>2. /\ counting # <<>> /\ Profile!Top.at = "record" /\ Profile!Top.at \in Profile!Making /\ counting' = Tail(counting)
      /\ calls' = calls /\ interrupted' = interrupted /\ UNCHANGED Profile!sampler
  BY DEF Profile!Record, Profile!At, Profile!history, Profile!Making
<1>3. /\ Len(counting) \in Nat /\ 1 \in DOMAIN counting /\ Profile!Top = counting[1] /\ interrupted \in Nat
      /\ Profile!Pair(Profile!Top) \in Profile!Arc /\ Profile!Found(Profile!Top) /\ Len(arcs) \in Nat /\ Len(fns) \in Nat
  BY <1>1, <1>2, TopIs, TablesTyped DEF Profile!FramesSound, Profile!TypeOK
<1>4. PICK fn \in 1 .. Len(fns) + 1 : Recorded(fn)
  <2>1. CASE Profile!Top.fn = Profile!None
    <3>1. Len(fns) + 1 \in 1 .. Len(fns) + 1
      BY <1>3
    <3>2. Recorded(Len(fns) + 1)
      BY <2>1 DEF Profile!Record, Recorded
    <3> QED
      BY <3>1, <3>2
  <2>2. CASE Profile!Top.fn # Profile!None
    <3>1. Profile!Top.fn \in 1 .. Len(fns) /\ fns[Profile!Top.fn] = Profile!Top.self_pc
      BY <1>1, <1>3, <2>2, FnFound
    <3>2. Recorded(Profile!Top.fn)
      BY <2>2, <3>1 DEF Profile!Record, Recorded
    <3> QED
      BY <1>3, <3>1, <3>2
  <2> QED
    BY <2>1, <2>2
<1>5. /\ fns' \in Seq(Pcs) /\ arcs' \in Seq(Profile!Entry') /\ Profile!Frame \subseteq Profile!Frame'
      /\ Len(arcs') = Len(arcs) + 1 /\ \A k \in 1 .. Len(arcs) : arcs'[k] = arcs[k]
      /\ DOMAIN arcs' = 1 .. Len(arcs) + 1
      /\ \A pc : Profile!FnsOf(pc)' = Profile!FnsOf(pc) \cup (IF Profile!Top.fn = Profile!None /\ pc = Profile!Top.self_pc THEN {Len(fns) + 1} ELSE {})
      /\ \A g, from : Profile!ArcsOf(g, from)' =
           Profile!ArcsOf(g, from) \cup (IF g = fn /\ from = Profile!Top.from_pc THEN {Len(arcs) + 1} ELSE {})
  BY <1>1, <1>2, <1>4, RecordedTables
<1>6. Profile!TypeOK'
  <2>1. counting' \in Seq(Profile!Frame)
    BY <1>1, <1>2, PopsOne
  <2>2. counting' \in Seq(Profile!Frame')
    BY <1>5, <2>1, SeqsGrow
  <2> QED
    BY <1>1, <1>2, <1>5, <2>2 DEF Profile!TypeOK
<1>7. PICK n, m \in Nat : /\ Profile!Deep = n /\ Profile!Deep' = m /\ m <= n /\ Profile!Owed' \in m .. n
                          /\ Len(counting) # 1 => n = m + 1
  BY <1>1, <1>2, PopsKeep
<1>8. ASSUME NEW j \in DOMAIN counting'
      PROVE  /\ j + 1 \in DOMAIN counting /\ counting'[j] = counting[j + 1] /\ Profile!Found(counting'[j])
             /\ Profile!FollowsOn(Profile!Top, counting'[j]) /\ Len(counting) # 1
             /\ \A i \in 1 .. j - 1 : Profile!FollowsOn(counting'[i], counting'[j])
  BY <1>1, <1>2, PopsKeep
<1>9. Profile!FramesSound'
  <2> SUFFICES ASSUME NEW j \in DOMAIN counting'
               PROVE  Profile!Found(counting[j])' /\ \A i \in 1 .. j - 1 : Profile!FollowsOn(counting[i], counting[j])'
    BY DEF Profile!FramesSound
  <2>1. PICK f : f = counting'[j]
    OBVIOUS
  <2>2. Profile!Found(f) /\ Profile!FollowsOn(Profile!Top, f)
    BY <1>8, <2>1
  <2>3. f.fn # Profile!None => Profile!FnsOf(f.self_pc)' = Profile!FnsOf(f.self_pc)
    <3>1. f.fn # Profile!None /\ f.self_pc = Profile!Top.self_pc => Profile!Top.fn # Profile!None
      BY <1>2, <2>2 DEF Profile!FollowsOn
    <3>2. Profile!FnsOf(f.self_pc)' = Profile!FnsOf(f.self_pc) \cup (IF Profile!Top.fn = Profile!None /\ f.self_pc = Profile!Top.self_pc THEN {Len(fns) + 1} ELSE {})
      BY <1>5
    <3> QED
      BY <3>1, <3>2
  <2>4. f.at \in Profile!Using => /\ Profile!ArcsOf(f.fn, f.from_pc)' = Profile!ArcsOf(f.fn, f.from_pc)
                                  /\ f.arc \in 1 .. Len(arcs)
    <3> SUFFICES ASSUME f.at \in Profile!Using
                 PROVE  Profile!ArcsOf(f.fn, f.from_pc)' = Profile!ArcsOf(f.fn, f.from_pc) /\ f.arc \in 1 .. Len(arcs)
      OBVIOUS
    <3>1. f.fn # Profile!None /\ f.fn \in 1 .. Len(fns) /\ fns[f.fn] = f.self_pc /\ f.arc \in 1 .. Len(arcs)
      BY <1>1, <2>2, ArcFound, FnFound
    <3>2. ~(f.fn = fn /\ f.from_pc = Profile!Top.from_pc)
      <4>1. SUFFICES ASSUME f.fn = fn, f.from_pc = Profile!Top.from_pc PROVE FALSE
        OBVIOUS
      <4>2. f.self_pc = Profile!Top.self_pc
        BY <1>3, <1>4, <3>1, <4>1 DEF Recorded
      <4> QED
        BY <1>2, <2>2, <4>1, <4>2 DEF Profile!FollowsOn
    <3>3. Profile!ArcsOf(f.fn, f.from_pc)' = Profile!ArcsOf(f.fn, f.from_pc) \cup (IF f.fn = fn /\ f.from_pc = Profile!Top.from_pc THEN {Len(arcs) + 1} ELSE {})
      BY <1>5
    <3> QED
      BY <3>1, <3>2, <3>3
  <2>5. Profile!Found(f)'
    <3>1. f.at \in {"arc"} \cup Profile!Using => f.fn # Profile!None
      BY <2>2 DEF Profile!Found
    <3>2. f.fn # Profile!None => f.at # "fn" /\ Profile!FnsOf(f.self_pc)' # {} /\ f.fn = Profile!Newest(Profile!FnsOf(f.self_pc)')
      BY <2>2, <2>3 DEF Profile!Found
    <3>3. f.at \in Profile!Using => /\ Profile!ArcsOf(f.fn, f.from_pc)' # {}
                                    /\ f.arc = Profile!Newest(Profile!ArcsOf(f.fn, f.from_pc)')
      BY <2>2, <2>4 DEF Profile!Found
    <3>4. f.at = "store" => f.count <= arcs'[f.arc].count
      BY <1>5, <2>2, <2>4 DEF Profile!Found, Profile!Using
    <3> QED
      BY <3>1, <3>2, <3>3, <3>4 DEF Profile!Found
  <2>6. Profile!Found(counting[j])'
    BY <2>1, <2>5 DEF Profile!Found
  <2> QED
    BY <1>8, <2>6
<1>10. ASSUME NEW arc \in Profile!Arc
       PROVE  Profile!Missing(arc)' = Profile!Missing(arc) /\ Profile!Missing(arc) \in Int
  <2>1. PICK d \in Int : d = IF Profile!Pair(Profile!Top) = arc THEN 1 ELSE 0
    OBVIOUS
  <2>2. PICK x, y, z \in Int : x = calls[arc] /\ y = Cardinality(Profile!InProgress(arc)) /\ z = Profile!CountOf(arc)
    <3>1. calls[arc] \in Nat
      BY <1>1 DEF Profile!TypeOK
    <3>2. Cardinality(Profile!InProgress(arc)) \in Nat /\ Profile!CountOf(arc) \in Nat
      BY <1>1, CountIsNumber, Reckoned
    <3> QED
      BY <3>1, <3>2
  <2>3. Cardinality(Profile!InProgress(arc)') = y - d
    <3>1. Cardinality(Profile!InProgress(arc)') = Cardinality(Profile!InProgress(arc)) - (IF Profile!Pair(Profile!Top) = arc THEN 1 ELSE 0)
      BY <1>1, <1>2, PopsOne
    <3> QED
      BY <2>1, <2>2, <3>1
  <2>4. Profile!CountOf(arc)' = z + d
    <3>1. Profile!CountOf(arc)' = Profile!CountOf(arc) + (IF Profile!Pair(Profile!Top) = arc THEN 1 ELSE 0)
      BY <1>1, <1>2, <1>3, <1>4, DoublesGrow
    <3> QED
      BY <2>1, <2>2, <3>1
  <2>5. Profile!Missing(arc)' = x - (y - d) - (z + d) /\ Profile!Missing(arc) = x - y - z
    BY <1>2, <2>2, <2>3, <2>4, SameSize DEF Profile!Missing
  <2>6. x - (y - d) - (z + d) = x - y - z /\ x - y - z \in Int
    OBVIOUS
  <2> QED
    BY <2>5, <2>6
<1>11. Profile!MissesPaid'
  <2>1. ASSUME NEW arc \in Profile!Arc PROVE Profile!Missing(arc)' >= 0 /\ Profile!Missing(arc)' + Profile!Deep' <= interrupted'
    <3>1. PICK x, i \in Int : x = Profile!Missing(arc) /\ i = interrupted
      BY <1>3, <1>10
    <3>2. x >= 0 /\ x + n <= i
      BY <1>1, <1>7, <3>1 DEF Profile!MissesPaid
    <3>3. x + m <= i
      BY <1>7, <3>2
    <3> QED
      BY <1>2, <1>7, <1>10, <3>1, <3>2, <3>3
  <2>2. ASSUME NEW j \in DOMAIN counting', NEW f, f = counting'[j], f.at = "store"
        PROVE  Profile!Missing(Profile!Pair(f))' + (arcs'[f.arc].count - f.count) + Profile!Deep' <= interrupted'
    <3>1. /\ j + 1 \in DOMAIN counting /\ f = counting[j + 1] /\ Profile!Found(f) /\ Profile!Pair(f) \in Profile!Arc /\ f.count \in Nat
          /\ f.arc \in 1 .. Len(arcs) /\ arcs[f.arc].count \in Nat
      BY <1>1, <1>8, <2>2, ArcFound, TablesTyped DEF Profile!Using
    <3>2. PICK x, y, z, i \in Int : /\ x = Profile!Missing(Profile!Pair(f)) /\ y = arcs[f.arc].count
                                    /\ z = f.count /\ i = interrupted
      BY <1>3, <1>10, <3>1, SMTT(30)
    <3>3. x + (y - z) + n <= i
      BY <1>1, <1>7, <2>2, <3>1, <3>2 DEF Profile!MissesPaid
    <3>4. x + (y - z) + m <= i
      BY <1>7, <3>3
    <3>5. arcs'[f.arc].count = y /\ Profile!Missing(Profile!Pair(f))' = x
      BY <1>5, <1>10, <3>1, <3>2
    <3> QED
      BY <1>2, <1>7, <3>2, <3>4, <3>5
  <2> QED
    BY <2>1, <2>2 DEF Profile!MissesPaid
<1>12. PICK o \in Int, w \in Int : o = Profile!Owed' /\ w = Profile!Owed /\ o <= n /\ w >= n /\ w <= interrupted
                                   /\ (Profile!Stale(Profile!Top) => w = n + 1)
  <2>1. Profile!Owed = n + (IF Profile!Stale(Profile!Top) THEN 1 ELSE 0)
    BY <1>2, <1>7 DEF Profile!Owed
  <2>2. Profile!Owed \in Int /\ Profile!Owed >= n /\ (Profile!Stale(Profile!Top) => Profile!Owed = n + 1)
    BY <2>1
  <2>3. Profile!Owed <= interrupted
    BY <1>1, SameSize DEF Profile!DoublesPaid
  <2>4. \E o \in Int : o = Profile!Owed' /\ o <= n
    BY <1>7
  <2> QED
    BY <2>2, <2>3, <2>4
<1>13. Profile!DoublesPaid'
  <2>1. ASSUME NEW arc \in Profile!Arc
        PROVE  Cardinality(Profile!FnsOf(arc[1])') + Cardinality(Profile!Doubles(arc)') + Profile!Owed' <= 1 + interrupted'
    <3>1. /\ Profile!Doubles(arc)' \subseteq Profile!Doubles(arc) \cup {Len(arcs) + 1}
          /\ Len(arcs) + 1 \in Profile!Doubles(arc)' => Profile!Top.fn # Profile!None /\ Profile!Stale(Profile!Top)
          /\ Profile!FnsOf(arc[1]) = {} => Profile!Doubles(arc) = {}
      BY <1>1, <1>2, <1>3, <1>4, DoublesGrow
    <3>2. Profile!FnsOf(arc[1])' = Profile!FnsOf(arc[1]) \cup (IF Profile!Top.fn = Profile!None /\ arc[1] = Profile!Top.self_pc THEN {Len(fns) + 1} ELSE {})
      BY <1>5
    <3>3. PICK F, G, D, E : F = Profile!FnsOf(arc[1]) /\ G = Profile!FnsOf(arc[1])' /\ D = Profile!Doubles(arc) /\ E = Profile!Doubles(arc)'
      OBVIOUS
    <3>4. /\ Cardinality(F) \in Nat /\ IsFiniteSet(F) /\ Cardinality(D) \in Nat /\ IsFiniteSet(D)
          /\ Cardinality(F) + Cardinality(D) + w <= 1 + interrupted
      BY <1>1, <1>12, <3>3, Reckoned, SameSize DEF Profile!DoublesPaid
    <3>5. /\ IsFiniteSet(G) /\ Cardinality(G) \in Nat /\ Cardinality(G) <= Cardinality(F) + 1
          /\ G # F => Profile!Top.fn = Profile!None /\ arc[1] = Profile!Top.self_pc
      <4>1. G = F \/ (G = F \cup {Len(fns) + 1} /\ Profile!Top.fn = Profile!None /\ arc[1] = Profile!Top.self_pc)
        BY <3>2, <3>3
      <4>2. IsFiniteSet(F \cup {Len(fns) + 1}) /\ Cardinality(F \cup {Len(fns) + 1}) \in {Cardinality(F), Cardinality(F) + 1}
        BY <3>4, FS_AddElement
      <4>3. CASE G = F
        BY <3>4, <4>3
      <4>4. CASE G # F
        <5>1. G = F \cup {Len(fns) + 1} /\ Profile!Top.fn = Profile!None /\ arc[1] = Profile!Top.self_pc
          BY <4>1, <4>4
        <5>2. Cardinality(G) = Cardinality(F) \/ Cardinality(G) = Cardinality(F) + 1
          BY <4>2, <5>1
        <5> QED
          BY <3>4, <4>2, <5>1, <5>2
      <4> QED
        BY <4>3, <4>4
    <3>6. /\ Cardinality(E) \in Nat /\ Cardinality(E) <= Cardinality(D) + 1
          /\ Cardinality(E) > Cardinality(D) => Profile!Top.fn # Profile!None /\ Profile!Stale(Profile!Top)
      <4>1. IsFiniteSet(D \cup {Len(arcs) + 1}) /\ Cardinality(D \cup {Len(arcs) + 1}) \in {Cardinality(D), Cardinality(D) + 1}
        BY <3>4, FS_AddElement
      <4>2. CASE Len(arcs) + 1 \in E
        <5>1. E \subseteq D \cup {Len(arcs) + 1}
          BY <3>1, <3>3
        <5>2. IsFiniteSet(E) /\ Cardinality(E) <= Cardinality(D \cup {Len(arcs) + 1}) /\ Cardinality(E) \in Nat
          BY <4>1, <5>1, FS_Subset, FS_CardinalityType
        <5> QED
          BY <3>1, <3>3, <3>4, <4>1, <4>2, <5>2
      <4>3. CASE Len(arcs) + 1 \notin E
        <5>1. E \subseteq D
          BY <3>1, <3>3, <4>3
        <5>2. Cardinality(E) <= Cardinality(D) /\ Cardinality(E) \in Nat
          BY <3>4, <5>1, FS_Subset, FS_CardinalityType
        <5> QED
          BY <3>4, <5>2
      <4> QED
        BY <4>2, <4>3
    <3>7. Cardinality(G) + Cardinality(E) + o <= 1 + interrupted
      <4>1. CASE G # F
        <5>1. Cardinality(E) <= Cardinality(D)
          BY <3>4, <3>5, <3>6, <4>1
        <5>2. CASE F = {}
          <6>1. Cardinality(F) = 0 /\ Cardinality(D) = 0
            BY <3>1, <3>3, <5>2, FS_EmptySet
          <6>2. Cardinality(E) = 0 /\ Cardinality(G) <= 1 /\ Cardinality(G) \in Nat
            BY <3>5, <3>6, <5>1, <6>1
          <6>3. o <= interrupted
            BY <1>3, <1>7, <1>12
          <6> QED
            BY <1>3, <6>2, <6>3
        <5>3. CASE F # {}
          <6>1. Profile!Stale(Profile!Top)
            BY <1>2, <3>3, <3>5, <4>1, <5>3 DEF Profile!Stale
          <6>2. w = n + 1 /\ o <= n
            BY <1>12, <6>1
          <6>3. /\ Cardinality(G) <= Cardinality(F) + 1 /\ Cardinality(G) \in Nat
                /\ Cardinality(F) \in Nat /\ Cardinality(E) \in Nat /\ Cardinality(D) \in Nat
                /\ Cardinality(F) + Cardinality(D) + w <= 1 + interrupted
            BY <3>4, <3>5, <3>6
          <6> QED
            BY <1>3, <5>1, <6>2, <6>3, SMTT(30)
        <5> QED
          BY <5>2, <5>3
      <4>2. CASE G = F /\ Cardinality(E) > Cardinality(D)
        BY <1>3, <1>7, <1>12, <3>4, <3>6, <4>2, SMTT(30)
      <4>3. CASE G = F /\ Cardinality(E) <= Cardinality(D)
        BY <1>3, <1>7, <1>12, <3>4, <3>6, <4>3, SMTT(30)
      <4> QED
        BY <3>4, <3>6, <4>1, <4>2, <4>3
    <3> QED
      BY <1>2, <1>12, <3>3, <3>7
  <2>2. Profile!Owed' <= interrupted'
    <3>1. o <= interrupted
      BY <1>3, <1>7, <1>12
    <3> QED
      BY <1>2, <1>12, <3>1
  <2> QED
    BY <2>1, <2>2, SameSize DEF Profile!DoublesPaid
<1>14. Profile!HistogramSound'
  BY <1>1, <1>2 DEF Profile!HistogramSound, Profile!sampler
<1> QED
  BY <1>6, <1>9, <1>11, <1>13, <1>14 DEF Profile!ProfileInv

\* A call goes on without the tables: by one step of its own.
LEMMA OneOn ==
  ASSUME Profile!ProfileInv, counting # <<>>, NEW g, counting' = [counting EXCEPT ![1] = g],
         g.self_pc = Profile!Top.self_pc, g.from_pc = Profile!Top.from_pc, g \in Profile!Frame,
         UNCHANGED <<Profile!tables, Profile!history>>, Profile!HistogramSound', Profile!Found(g), ~Profile!Stale(g),
         g.at = "store" => g.count = arcs[g.arc].count,
         \A h : Profile!FollowsOn(Profile!Top, h) /\ Profile!Found(h) => Profile!FollowsOn(g, h)
  PROVE  Profile!ProfileInv'
<1>1. Profile!TypeOK /\ Profile!FramesSound
  BY DEF Profile!ProfileInv
<1>2. Profile!Top = counting[1] /\ DOMAIN counting = 1 .. Len(counting) /\ Len(counting) \in Nat
  BY <1>1, TopIs, TablesTyped
<1>3. ASSUME NEW j \in 2 .. Len(counting) PROVE Profile!FollowsOn(g, counting[j])
  <2>1. j \in DOMAIN counting /\ 1 \in 1 .. j - 1
    BY <1>2
  <2>2. Profile!Found(counting[j]) /\ Profile!FollowsOn(counting[1], counting[j])
    BY <1>1, <2>1 DEF Profile!FramesSound
  <2> QED
    BY <1>2, <2>2
<1>4. Profile!Pair(g) = Profile!Pair(Profile!Top)
  BY DEF Profile!Pair
<1> QED
  BY <1>3, <1>4, StaysKeeps

\* The call on top, in its parts.
LEMMA TopTyped ==
  ASSUME Profile!ProfileInv, counting # <<>>
  PROVE  /\ Profile!TypeOK /\ Profile!HistogramSound /\ Profile!Top \in Profile!Frame /\ Profile!Found(Profile!Top) /\ counting \in Seq(Profile!Frame)
         /\ Profile!Top = counting[1] /\ 1 \in DOMAIN counting
<1>1. Profile!TypeOK /\ Profile!HistogramSound /\ Profile!FramesSound
  BY DEF Profile!ProfileInv
<1>2. Profile!Top = counting[1] /\ 1 \in DOMAIN counting
  BY <1>1, TopIs
<1>3. counting \in Seq(Profile!Frame)
  BY <1>1 DEF Profile!TypeOK
<1>4. Profile!Top \in Profile!Frame
  BY <1>2, <1>3
<1>5. Profile!Found(Profile!Top)
  BY <1>1, <1>2 DEF Profile!FramesSound
<1> QED
  BY <1>1, <1>2, <1>3, <1>4, <1>5

\* The function is looked for.
LEMMA FindFnKeeps ==
  ASSUME Profile!ProfileInv, Profile!FindFn
  PROVE  Profile!ProfileInv'
<1>1. counting # <<>> /\ UNCHANGED <<Profile!tables, Profile!history, Profile!sampler>>
  BY DEF Profile!FindFn, Profile!At
<1>2. Profile!TypeOK /\ Profile!HistogramSound /\ Profile!Top \in Profile!Frame /\ counting \in Seq(Profile!Frame) /\ Profile!Top = counting[1]
  BY <1>1, TopTyped
<1>3. PICK fn : fn = Profile!Newest(Profile!FnsOf(Profile!Top.self_pc))
  OBVIOUS
<1>4. fn \in 0 .. Len(fns) /\ (fn = Profile!None <=> Profile!FnsOf(Profile!Top.self_pc) = {})
  BY <1>2, <1>3, NewestOf
<1> DEFINE g == [Profile!Top EXCEPT !.fn = fn, !.at = IF fn = Profile!None THEN "init" ELSE "arc"]
<1>5. counting' = [counting EXCEPT ![1] = g]
  BY <1>2, <1>3 DEF Profile!FindFn
<1>6. /\ g \in Profile!Frame /\ g.self_pc = Profile!Top.self_pc /\ g.from_pc = Profile!Top.from_pc /\ g.fn = fn
      /\ g.at = IF fn = Profile!None THEN "init" ELSE "arc"
  BY <1>2, <1>4 DEF Profile!Frame, Profile!Making
<1> HIDE DEF g
<1>7. Profile!Found(g)
  BY <1>3, <1>4, <1>6 DEF Profile!Found, Profile!Using
<1>8. ~Profile!Stale(g)
  BY <1>4, <1>6 DEF Profile!Stale, Profile!Making
<1>9. ASSUME NEW h, Profile!Found(h) PROVE Profile!FollowsOn(g, h)
  <2>1. h.fn # Profile!None => Profile!FnsOf(h.self_pc) # {}
    BY <1>9 DEF Profile!Found
  <2>2. h.at \in Profile!Using => h.fn # Profile!None
    BY <1>9 DEF Profile!Found
  <2> QED
    BY <1>4, <1>6, <2>1, <2>2 DEF Profile!FollowsOn, Profile!Making
<1>10. Profile!HistogramSound'
  BY <1>1, <1>2 DEF Profile!HistogramSound, Profile!sampler
<1> QED
  BY <1>1, <1>5, <1>6, <1>7, <1>8, <1>9, <1>10, OneOn

\* The arc is looked for.
LEMMA FindArcKeeps ==
  ASSUME Profile!ProfileInv, Profile!FindArc
  PROVE  Profile!ProfileInv'
<1>1. counting # <<>> /\ Profile!Top.at = "arc" /\ UNCHANGED <<Profile!tables, Profile!history, Profile!sampler>>
  BY DEF Profile!FindArc, Profile!At
<1>2. Profile!TypeOK /\ Profile!HistogramSound /\ Profile!Top \in Profile!Frame /\ Profile!Found(Profile!Top) /\ counting \in Seq(Profile!Frame) /\ Profile!Top = counting[1]
  BY <1>1, TopTyped
<1>3. PICK arc : arc = Profile!Newest(Profile!ArcsOf(Profile!Top.fn, Profile!Top.from_pc))
  OBVIOUS
<1>4. arc \in 0 .. Len(arcs) /\ (arc = Profile!None <=> Profile!ArcsOf(Profile!Top.fn, Profile!Top.from_pc) = {})
  BY <1>2, <1>3, NewestOf
<1> DEFINE g == [Profile!Top EXCEPT !.arc = arc, !.at = IF arc = Profile!None THEN "init" ELSE "load"]
<1>5. counting' = [counting EXCEPT ![1] = g]
  BY <1>2, <1>3 DEF Profile!FindArc
<1>6. /\ g \in Profile!Frame /\ g.self_pc = Profile!Top.self_pc /\ g.from_pc = Profile!Top.from_pc /\ g.fn = Profile!Top.fn /\ g.arc = arc
      /\ g.at = IF arc = Profile!None THEN "init" ELSE "load"
  BY <1>2, <1>4 DEF Profile!Frame, Profile!Making, Profile!Using
<1> HIDE DEF g
<1>7. Profile!Top.fn # Profile!None /\ Profile!FnsOf(Profile!Top.self_pc) # {} /\ Profile!Top.fn = Profile!Newest(Profile!FnsOf(Profile!Top.self_pc))
  BY <1>1, <1>2 DEF Profile!Found
<1>8. Profile!Found(g)
  BY <1>3, <1>4, <1>6, <1>7 DEF Profile!Found, Profile!Using
<1>9. ~Profile!Stale(g)
  BY <1>4, <1>6, <1>7 DEF Profile!Stale, Profile!Making
<1>10. ASSUME NEW h, Profile!Found(h) PROVE Profile!FollowsOn(g, h)
  <2>1. h.at \in Profile!Using => Profile!ArcsOf(h.fn, h.from_pc) # {} /\ h.fn = Profile!Newest(Profile!FnsOf(h.self_pc))
    BY <1>10 DEF Profile!Found
  <2>2. g.self_pc = h.self_pc /\ g.from_pc = h.from_pc /\ h.at \in Profile!Using => g.at = "load"
    BY <1>4, <1>6, <1>7, <2>1
  <2> QED
    BY <1>6, <1>7, <2>2 DEF Profile!FollowsOn, Profile!Making
<1>11. Profile!HistogramSound'
  BY <1>1, <1>2 DEF Profile!HistogramSound, Profile!sampler
<1> QED
  BY <1>1, <1>5, <1>6, <1>8, <1>9, <1>10, <1>11, OneOn

\* The count is read.
LEMMA LoadKeeps ==
  ASSUME Profile!ProfileInv, Profile!LoadCount
  PROVE  Profile!ProfileInv'
<1>1. counting # <<>> /\ Profile!Top.at = "load" /\ Profile!Top.at \in Profile!Using /\ UNCHANGED <<Profile!tables, Profile!history, Profile!sampler>>
  BY DEF Profile!LoadCount, Profile!At, Profile!Using
<1>2. Profile!TypeOK /\ Profile!HistogramSound /\ Profile!Top \in Profile!Frame /\ Profile!Found(Profile!Top) /\ counting \in Seq(Profile!Frame) /\ Profile!Top = counting[1]
  BY <1>1, TopTyped
<1>3. Profile!Top.arc \in 1 .. Len(arcs)
  BY <1>1, <1>2, ArcFound
<1>4. PICK c \in Nat : c = arcs[Profile!Top.arc].count
  BY <1>2, <1>3, TablesTyped
<1> DEFINE g == [Profile!Top EXCEPT !.count = c, !.at = "store"]
<1>5. counting' = [counting EXCEPT ![1] = g]
  BY <1>2, <1>4 DEF Profile!LoadCount
<1>6. /\ g \in Profile!Frame /\ g.self_pc = Profile!Top.self_pc /\ g.from_pc = Profile!Top.from_pc /\ g.fn = Profile!Top.fn /\ g.arc = Profile!Top.arc
      /\ g.count = c /\ g.at = "store" /\ g.at \in Profile!Using /\ g.at \notin Profile!Making
  BY <1>2, <1>4 DEF Profile!Frame, Profile!Making, Profile!Using
<1> HIDE DEF g
<1>7. g.count = arcs[g.arc].count /\ c <= arcs[g.arc].count
  BY <1>4, <1>6
<1>8. Profile!Found(g)
  BY <1>1, <1>2, <1>6, <1>7 DEF Profile!Found
<1>9. ~Profile!Stale(g)
  BY <1>6 DEF Profile!Stale
<1>10. ASSUME NEW h, Profile!Found(h),
              Profile!FollowsOn(Profile!Top, h) PROVE Profile!FollowsOn(g, h)
  <2>1. ASSUME g.self_pc = h.self_pc, h.at = "store",
               g.from_pc = h.from_pc PROVE h.count <= g.count
    <3>1. h.at \in Profile!Using /\ Profile!Pair(g) = Profile!Pair(h)
      BY <2>1 DEF Profile!Using, Profile!Pair
    <3>2. h.arc = g.arc
      BY <1>2, <1>6, <1>8, <1>10, <3>1, SameFound
    <3>3. h.count <= arcs[h.arc].count
      BY <1>10, <2>1 DEF Profile!Found
    <3> QED
      BY <1>7, <3>2, <3>3
  <2>2. g.self_pc = h.self_pc /\ h.fn # Profile!None => g.fn # Profile!None
    BY <1>1, <1>6, <1>10 DEF Profile!FollowsOn
  <2> QED
    BY <1>6, <2>1, <2>2 DEF Profile!FollowsOn
<1>11. Profile!HistogramSound'
  BY <1>1, <1>2 DEF Profile!HistogramSound, Profile!sampler
<1> QED
  BY <1>1, <1>5, <1>6, <1>7, <1>8, <1>9, <1>10, <1>11, OneOn

\* An entry is to be made, and the sampler started first.
LEMMA GoKeeps ==
  ASSUME Profile!ProfileInv, counting # <<>>, Profile!Top.at \in Profile!Making,
         NEW at \in Profile!Making, Profile!Go(at),
         UNCHANGED <<Profile!tables, Profile!history>>, Profile!HistogramSound'
  PROVE  Profile!ProfileInv'
<1>1. Profile!TypeOK /\ Profile!FramesSound
  BY DEF Profile!ProfileInv
<1>2. Profile!TypeOK /\ Profile!HistogramSound /\ Profile!Top \in Profile!Frame /\ Profile!Found(Profile!Top) /\ counting \in Seq(Profile!Frame) /\ Profile!Top = counting[1]
  BY TopTyped
<1> DEFINE g == [Profile!Top EXCEPT !.at = at]
<1>3. counting' = [counting EXCEPT ![1] = g]
  BY <1>2 DEF Profile!Go
<1>4. /\ g \in Profile!Frame /\ g.self_pc = Profile!Top.self_pc /\ g.from_pc = Profile!Top.from_pc /\ g.fn = Profile!Top.fn
      /\ g.at = at /\ g.at # "fn" /\ g.at # "arc" /\ g.at \notin Profile!Using /\ g.at # "store" /\ g.at \in Profile!Making
  BY <1>2 DEF Profile!Frame, Profile!Making, Profile!Using
<1> HIDE DEF g
<1>5. Profile!Found(g)
  BY <1>2, <1>4 DEF Profile!Found
<1>6. Profile!Stale(g) => Profile!Stale(Profile!Top)
  BY <1>4 DEF Profile!Stale
<1>7. ASSUME NEW h, Profile!FollowsOn(Profile!Top, h) PROVE Profile!FollowsOn(g, h)
  BY <1>4, <1>7 DEF Profile!FollowsOn, Profile!Making
<1>8. ASSUME NEW j \in 2 .. Len(counting) PROVE Profile!FollowsOn(g, counting[j])
  <2>1. j \in DOMAIN counting /\ 1 \in 1 .. j - 1
    BY <1>1, TablesTyped
  <2>2. Profile!FollowsOn(Profile!Top, counting[j])
    BY <1>1, <1>2, <2>1 DEF Profile!FramesSound
  <2> QED
    BY <1>7, <2>2
<1>9. Profile!Pair(g) = Profile!Pair(Profile!Top)
  BY <1>4 DEF Profile!Pair
<1> QED
  BY <1>3, <1>4, <1>5, <1>6, <1>8, <1>9, StaysKeeps

\* A place in the text that is beyond the last whole bucket shows that the
\* text does not end with it.
LEMMA BeyondWhole ==
  ASSUME NEW b \in Nat \ {0}, NEW size \in Nat, NEW pc \in 0 .. size - 1,
         pc \div b >= size \div b
  PROVE  size % b # 0
<1>1. PICK q \in Int, p \in Int, r \in 0 .. b - 1, s \in 0 .. b - 1 :
        q = size \div b /\ p = pc \div b /\ r = size % b /\ s = pc % b
  OBVIOUS
<1>2. size = b * q + r /\ pc = b * p + s
  BY <1>1
<1>3. b * p = b * q + b * (p - q) /\ b * (p - q) >= 0
  <2>1. p - q \in Nat
    BY <1>1
  <2>2. \A k \in Nat : b * k >= 0
    OBVIOUS
  <2> QED
    BY <1>1, <2>1, <2>2
<1>4. r # 0
  BY <1>1, <1>2, <1>3
<1> QED
  BY <1>1, <1>4

\* The sampler's buckets: as many as the text's whole ones, or none yet.
LEMMA HistogramKeeps ==
  ASSUME Profile!HistogramSound, UNCHANGED text,
         \/ UNCHANGED <<s_pcsamples, beyond>>
         \/ s_pcsamples' = (text \div BUCKET) + 1 /\ UNCHANGED beyond
         \/ Profile!nios2_pcsample
  PROVE  Profile!HistogramSound'
<1>1. CASE UNCHANGED <<s_pcsamples, beyond>>
  BY <1>1 DEF Profile!HistogramSound
<1>2. CASE s_pcsamples' = (text \div BUCKET) + 1 /\ UNCHANGED beyond
  BY <1>2 DEF Profile!HistogramSound
<1>3. CASE Profile!nios2_pcsample
  <2>1. s_pcsamples # Profile!None /\ s_pcsamples' = s_pcsamples
    BY <1>3 DEF Profile!nios2_pcsample
  <2>2. PICK pc \in 0 .. text - 1 : beyond' = (beyond \/ pc \div BUCKET >= Profile!Buckets)
    BY <1>3 DEF Profile!nios2_pcsample
  <2>3. text \in Nat /\ s_pcsamples = (text \div BUCKET) + 1 /\ BUCKET \in Nat \ {0}
    BY <2>1, BoardAssumption DEF Profile!HistogramSound, Profile!Bounds
  <2>4. pc \div BUCKET >= Profile!Buckets => text % BUCKET # 0
    <3>1. text \div BUCKET \in Int
      BY <2>3
    <3>2. Profile!Buckets = text \div BUCKET
      BY <2>3, <3>1 DEF Profile!Buckets
    <3> QED
      BY <2>3, <3>2, BeyondWhole
  <2> QED
    BY <2>1, <2>2, <2>4 DEF Profile!HistogramSound
<1> QED
  BY <1>1, <1>2, <1>3

\* The sampler is started, or another's start is waited for by nobody.
LEMMA SamplerKeeps ==
  ASSUME Profile!ProfileInv, Profile!StartSampler \/ Profile!PcsampleInit
  PROVE  Profile!ProfileInv'
<1>1. /\ counting # <<>> /\ Profile!Top.at \in Profile!Making /\ UNCHANGED <<Profile!tables, Profile!history>>
      /\ UNCHANGED text /\ UNCHANGED beyond
      /\ s_pcsamples' = s_pcsamples \/ s_pcsamples' = (text \div BUCKET) + 1
      /\ Profile!Go("sampler") \/ Profile!Go("record")
  BY DEF Profile!StartSampler, Profile!PcsampleInit, Profile!At, Profile!Making
<1>2. Profile!HistogramSound'
  BY <1>1, HistogramKeeps DEF Profile!ProfileInv
<1>3. "sampler" \in Profile!Making /\ "record" \in Profile!Making
  BY DEF Profile!Making
<1> QED
  BY <1>1, <1>2, <1>3, GoKeeps

\* Calls begin, and the rest of the program runs.
LEMMA OthersKeep ==
  ASSUME Profile!ProfileInv,
         Profile!Mcount \/ Profile!Interrupt \/ Profile!Sbrk \/ Profile!ClockStarts \/ Profile!nios2_pcsample
  PROVE  Profile!ProfileInv'
<1>1. CASE Profile!Mcount
  <2>1. PICK arc \in Profile!Arc : Profile!Enter(arc)
    BY <1>1 DEF Profile!Mcount
  <2>2. interrupted' = IF counting = <<>> THEN interrupted ELSE interrupted + 1
    BY <1>1 DEF Profile!Mcount
  <2> QED
    BY <2>1, <2>2, EnterKeeps
<1>2. CASE Profile!Interrupt
  <2>1. PICK arc \in Profile!Arc : Profile!Enter(arc)
    BY <1>2 DEF Profile!Interrupt
  <2>2. interrupted' = IF counting = <<>> THEN interrupted ELSE interrupted + 1
    BY <1>2 DEF Profile!Interrupt
  <2> QED
    BY <2>1, <2>2, EnterKeeps
<1>3. CASE Profile!Sbrk \/ Profile!ClockStarts \/ Profile!nios2_pcsample
  <2>1. /\ UNCHANGED <<Profile!tables, counting, Profile!history>> /\ UNCHANGED text
        /\ UNCHANGED <<s_pcsamples, beyond>> \/ Profile!nios2_pcsample
    BY <1>3 DEF Profile!Sbrk, Profile!ClockStarts, Profile!nios2_pcsample, Profile!sampler
  <2>2. Profile!HistogramSound'
    BY <2>1, HistogramKeeps DEF Profile!ProfileInv
  <2> QED
    BY <2>1, <2>2, IdleKeeps
<1> QED
  BY <1>1, <1>2, <1>3

\* Every step of the profiler keeps it.
LEMMA ProfileSteps ==
  ASSUME Profile!ProfileInv, Profile!Next
  PROVE  Profile!ProfileInv'
<1>1. CASE Profile!Counting
  BY <1>1, FindFnKeeps, FindArcKeeps, LoadKeeps, CountKeeps, SamplerKeeps,
    RecordKeeps DEF Profile!Counting
<1>2. CASE Profile!Mcount \/ Profile!Interrupt \/ Profile!Sbrk \/ Profile!ClockStarts \/ Profile!nios2_pcsample
  BY <1>2, OthersKeep
<1> QED
  BY <1>1, <1>2 DEF Profile!Next

\* Nothing is counted at first.
LEMMA ProfileAtStart ==
  ASSUME Profile!Init
  PROVE  Profile!ProfileInv
<1>1. /\ fns = <<>> /\ arcs = <<>> /\ counting = <<>> /\ interrupted = 0
      /\ calls = [a \in Profile!Arc |-> 0] /\ text \in Texts /\ s_pcsamples = Profile!None /\ beyond = FALSE
  BY DEF Profile!Init
<1>2. Profile!TypeOK
  BY <1>1 DEF Profile!TypeOK
<1>3. Profile!HistogramSound
  BY <1>1, BoardAssumption DEF Profile!HistogramSound, Profile!Bounds
<1>4. Profile!FramesSound
  BY <1>1 DEF Profile!FramesSound
<1>5. Profile!Deep = 0
  BY <1>1 DEF Profile!Deep
<1>6. ASSUME NEW arc \in Profile!Arc
      PROVE  /\ Profile!CopiesOf(arc) = {} /\ Profile!FnsOf(arc[1]) = {} /\ Profile!Doubles(arc) = {} /\ Profile!InProgress(arc) = {}
             /\ Profile!CountOf(arc) = 0
  <2>1. Profile!CopiesOf(arc) = {} /\ Profile!FnsOf(arc[1]) = {} /\ Profile!InProgress(arc) = {}
    BY <1>1 DEF Profile!CopiesOf, Profile!FnsOf, Profile!InProgress
  <2>2. Profile!Doubles(arc) = {}
    BY <2>1 DEF Profile!Doubles
  <2>3. Len(arcs) = 0
    BY <1>1
  <2>4. Profile!CountOf(arc) = 0
    BY <2>3, TotalOfNone DEF Profile!CountOf
  <2> QED
    BY <2>1, <2>2, <2>4
<1>7. Profile!MissesPaid
  <2>1. ASSUME NEW arc \in Profile!Arc PROVE Profile!Missing(arc) = 0
    <3>1. calls[arc] = 0 /\ Cardinality(Profile!InProgress(arc)) = 0 /\ Profile!CountOf(arc) = 0
      BY <1>1, <1>6, <2>1, FS_EmptySet
    <3> QED
      BY <3>1, SameSize DEF Profile!Missing
  <2>2. DOMAIN counting = {}
    BY <1>1
  <2> QED
    BY <1>1, <1>5, <2>1, <2>2 DEF Profile!MissesPaid
<1>8. Profile!DoublesPaid
  <2>1. Profile!Owed = 0
    BY <1>1, <1>5 DEF Profile!Owed
  <2>2. ASSUME NEW arc \in Profile!Arc
        PROVE  Cardinality(Profile!FnsOf(arc[1])) + Cardinality(Profile!Doubles(arc)) + Profile!Owed <= 1 + interrupted
    <3>1. Cardinality(Profile!FnsOf(arc[1])) = 0 /\ Cardinality(Profile!Doubles(arc)) = 0
      BY <1>6, <2>2, FS_EmptySet
    <3> QED
      BY <1>1, <2>1, <3>1
  <2> QED
    BY <1>1, <2>1, <2>2, SameSize DEF Profile!DoublesPaid
<1> QED
  BY <1>2, <1>3, <1>4, <1>7, <1>8 DEF Profile!ProfileInv

\* The copies of an arc that are no doubles are each of a function's entry
\* of their own.
LEMMA CopiesCounted ==
  ASSUME Profile!TypeOK, NEW arc \in Profile!Arc
  PROVE  Cardinality(Profile!CopiesOf(arc)) <= Cardinality(Profile!FnsOf(arc[1])) + Cardinality(Profile!Doubles(arc))
<1> DEFINE S == Profile!CopiesOf(arc) \ Profile!Doubles(arc)
           f == [k \in S |-> arcs[k].fn]
<1>1. /\ DOMAIN arcs = 1 .. Len(arcs) /\ Len(arcs) \in Nat /\ DOMAIN fns = 1 .. Len(fns)
      /\ \A k \in 1 .. Len(arcs) : arcs[k].fn \in 1 .. Len(fns)
  BY TablesTyped
<1>2. \A k \in S : k \in 1 .. Len(arcs) /\ arcs[k].fn \in Profile!FnsOf(arc[1]) /\ arcs[k].from_pc = arc[2]
  BY <1>1 DEF Profile!CopiesOf, Profile!FnsOf
<1>3. ASSUME NEW j \in S, NEW k \in S, arcs[j].fn = arcs[k].fn, j < k PROVE FALSE
  <2>1. j \in 1 .. k - 1 /\ arcs[j].from_pc = arcs[k].from_pc
    BY <1>1, <1>2, <1>3
  <2> QED
    BY <1>3, <2>1 DEF Profile!Doubles
<1>4. f \in Injection(S, Profile!FnsOf(arc[1]))
  <2>1. f \in [S -> Profile!FnsOf(arc[1])]
    BY <1>2
  <2>2. ASSUME NEW j \in S, NEW k \in S, f[j] = f[k] PROVE j = k
    <3>1. j \in 1 .. Len(arcs) /\ k \in 1 .. Len(arcs) /\ arcs[j].fn = arcs[k].fn
      BY <1>2, <2>2
    <3>2. ~(j < k) /\ ~(k < j)
      BY <1>3, <3>1
    <3> QED
      BY <1>1, <3>1, <3>2
  <2> HIDE DEF f, S
  <2> QED
    BY <2>1, <2>2 DEF Injection, IsInjective
<1>5. IsFiniteSet(S) /\ Cardinality(S) <= Cardinality(Profile!FnsOf(arc[1])) /\ Cardinality(S) \in Nat
  <2>1. IsFiniteSet(Profile!FnsOf(arc[1]))
    BY Reckoned
  <2> HIDE DEF f, S
  <2>2. IsFiniteSet(S) /\ Cardinality(S) <= Cardinality(Profile!FnsOf(arc[1]))
    BY <1>4, <2>1, FS_Injection
  <2> QED
    BY <2>2, FS_CardinalityType
<1>6. Profile!CopiesOf(arc) = S \cup Profile!Doubles(arc) /\ S \cap Profile!Doubles(arc) = {}
  BY DEF Profile!Doubles
<1> HIDE DEF S
<1>7. /\ Cardinality(Profile!Doubles(arc)) \in Nat /\ IsFiniteSet(Profile!Doubles(arc))
      /\ Cardinality(Profile!FnsOf(arc[1])) \in Nat
  BY Reckoned
<1>8. Cardinality(S \cup Profile!Doubles(arc)) = Cardinality(S) + Cardinality(Profile!Doubles(arc)) - Cardinality(S \cap Profile!Doubles(arc))
  BY <1>5, <1>7, FS_Union
<1>9. Cardinality(S \cap Profile!Doubles(arc)) = 0
  BY <1>6, FS_EmptySet
<1> QED
  BY <1>5, <1>6, <1>7, <1>8, <1>9

\* What the tables say of every arc.
LEMMA ProfileStands ==
  ASSUME Profile!ProfileInv
  PROVE  Profile!ProfileSound
<1>1. Profile!TypeOK /\ Profile!HistogramSound /\ Profile!MissesPaid /\ Profile!DoublesPaid
  BY DEF Profile!ProfileInv
<1>2. PICK i \in Nat, d \in Nat, w \in Int : i = interrupted /\ d = Profile!Deep /\ w = Profile!Owed
  BY <1>1, Reckoned DEF Profile!TypeOK
<1>3. w >= 0
  <2>1. w = d \/ w = d + 1
    BY <1>2 DEF Profile!Owed
  <2> QED
    BY <2>1
<1>4. ASSUME NEW arc \in Profile!Arc
      PROVE  /\ Profile!CountOf(arc) <= calls[arc] - Cardinality(Profile!InProgress(arc))
             /\ Profile!CountOf(arc) >= calls[arc] - Cardinality(Profile!InProgress(arc)) - interrupted
             /\ Cardinality(Profile!CopiesOf(arc)) <= 1 + interrupted
  <2>1. PICK x, y, z \in Int : x = calls[arc] /\ y = Cardinality(Profile!InProgress(arc)) /\ z = Profile!CountOf(arc)
    <3>1. calls[arc] \in Nat
      BY <1>1 DEF Profile!TypeOK
    <3>2. Cardinality(Profile!InProgress(arc)) \in Nat /\ Profile!CountOf(arc) \in Nat
      BY <1>1, CountIsNumber, Reckoned
    <3> QED
      BY <3>1, <3>2
  <2>2. x - y - z >= 0 /\ x - y - z + d <= i
    <3>1. Profile!Missing(arc) = x - y - z
      BY <2>1, SameSize DEF Profile!Missing
    <3> QED
      BY <1>1, <1>2, <3>1 DEF Profile!MissesPaid
  <2>3. z <= x - y /\ z >= x - y - i
    BY <2>2
  <2>4. PICK p, q, s \in Nat : /\ p = Cardinality(Profile!FnsOf(arc[1])) /\ q = Cardinality(Profile!Doubles(arc))
                               /\ s = Cardinality(Profile!CopiesOf(arc))
    BY <1>1, Reckoned
  <2>5. s <= p + q
    BY <1>1, <2>4, CopiesCounted
  <2>6. p + q + w <= 1 + i
    BY <1>1, <1>2, <2>4, SameSize DEF Profile!DoublesPaid
  <2>7. s <= 1 + i
    BY <1>3, <2>5, <2>6
  <2> QED
    BY <1>2, <2>1, <2>3, <2>4, <2>7
<1> QED
  BY <1>1, <1>4, SameSize DEF Profile!ProfileSound, Profile!HistogramSound

-----------------------------------------------------------------------------
(* The ports.                                                              *)

\* The slaves are those of the ports, and five more.
LEMMA Named ==
  /\ Names = {"to_hw_port0", "to_hw_port1", "to_hw_port2", "to_hw_port3", "to_hw_port4",
              "to_hw_port5", "to_hw_port6", "to_hw_port7", "to_hw_port8", "to_hw_port9",
              "to_hw_port10", "to_hw_port11", "to_hw_port12", "to_hw_port13", "to_hw_port14",
              "to_hw_port15", "to_hw_sig", "to_sw_port0", "to_sw_port1", "to_sw_port2",
              "to_sw_port3", "to_sw_port4", "to_sw_sig"}
  /\ DOMAIN slave = Names \cup {"jtag_uart_0", "onchip_memory2_0", "sdram", "sdram_pll", "sysid_qsys_0"}
BY DEF Names, pointer, slave

\* The slave of a pointer's name begins where the pointer points.
LEMMA Pointed ==
  ASSUME NEW name \in Names
  PROVE  slave[name].base = pointer[name] /\ slave[name].span = 16 /\ pointer[name] \in Nat
BY DEF Names, pointer, slave, Pio, TO_HW_PORT0, TO_HW_PORT1, TO_HW_PORT2, TO_HW_PORT3,
  TO_HW_PORT4, TO_HW_PORT5, TO_HW_PORT6, TO_HW_PORT7, TO_HW_PORT8, TO_HW_PORT9,
  TO_HW_PORT10,
  TO_HW_PORT11, TO_HW_PORT12, TO_HW_PORT13, TO_HW_PORT14, TO_HW_PORT15, TO_HW_SIG,
  TO_SW_PORT0,
  TO_SW_PORT1, TO_SW_PORT2, TO_SW_PORT3, TO_SW_PORT4, TO_SW_SIG

\* The registers of two ports do not overlap.
LEMMA Apart ==
  ASSUME NEW name \in Names, NEW other \in Names, pointer[name] <= pointer[other],
         pointer[other] < pointer[name] + 16
  PROVE  name = other
BY SMTT(60) DEF Names, pointer

\* No port lies within a slave of another kind.
LEMMA Beside ==
  ASSUME NEW name \in Names,
         NEW n \in {"jtag_uart_0", "onchip_memory2_0", "sdram", "sdram_pll", "sysid_qsys_0"}
  PROVE  ~Within(pointer[name], slave[n])
BY SMTT(60) DEF Names, pointer, slave, Slave, Within, jtag_uart_0, onchip_memory2_0, sdram,
  sdram_pll,
  sysid_qsys_0

\* The program and its data lie within the SDRAM and nothing else.
LEMMA InSdram ==
  ASSUME NEW addr \in {RESET_REGION.base, RESET_REGION.base + RESET_REGION.span - 1,
                       SDRAM_REGION.base, SDRAM_REGION.base + SDRAM_REGION.span - 1},
         NEW n \in DOMAIN slave
  PROVE  Within(addr, slave[n]) <=> n = "sdram"
<1>1. CASE n \in Names
  <2>1. pointer[n] <= 384
    BY <1>1 DEF Names, pointer
  <2>2. addr \in Nat /\ addr > 400
    BY DEF RESET_REGION, SDRAM_REGION, Slave
  <2>3. n # "sdram"
    BY <1>1, Named
  <2> QED
    BY <2>1, <2>2, <2>3, <1>1, Pointed DEF Within
<1>2. CASE n \notin Names
  BY <1>2, Named, SMTT(60) DEF RESET_REGION, SDRAM_REGION, Slave, slave, Within,
    jtag_uart_0, onchip_memory2_0, sdram, sdram_pll,
  sysid_qsys_0
<1> QED
  BY <1>1, <1>2

\* How wide each port is, and which the processor reads.
LEMMA Sized ==
  /\ Ins = {"to_sw_port0", "to_sw_port1", "to_sw_port2", "to_sw_port3", "to_sw_port4", "to_sw_sig"}
  /\ \A n \in Names : slave[n].bits = CASE n \in {"to_hw_sig", "to_sw_sig"} -> 2
                                        [] n = "to_sw_port2" -> 8
                                        [] n \in {"to_sw_port3", "to_sw_port4"} -> 16
                                        [] OTHER -> 32
<1>1. \A n \in Names : slave[n].out <=> n \notin {"to_sw_port0", "to_sw_port1", "to_sw_port2", "to_sw_port3", "to_sw_port4", "to_sw_sig"}
  BY DEF Names, pointer, slave, Pio, In, Out, TO_HW_PORT0, TO_HW_PORT1, TO_HW_PORT2,
    TO_HW_PORT3,
  TO_HW_PORT4, TO_HW_PORT5, TO_HW_PORT6, TO_HW_PORT7, TO_HW_PORT8, TO_HW_PORT9,
  TO_HW_PORT10,
  TO_HW_PORT11, TO_HW_PORT12, TO_HW_PORT13, TO_HW_PORT14, TO_HW_PORT15, TO_HW_SIG,
  TO_SW_PORT0,
  TO_SW_PORT1, TO_SW_PORT2, TO_SW_PORT3, TO_SW_PORT4, TO_SW_SIG
<1>2. \A n \in Names : slave[n].bits = CASE n \in {"to_hw_sig", "to_sw_sig"} -> 2
                                        [] n = "to_sw_port2" -> 8
                                        [] n \in {"to_sw_port3", "to_sw_port4"} -> 16
                                        [] OTHER -> 32
  BY DEF Names, pointer, slave, Pio, In, Out, TO_HW_PORT0, TO_HW_PORT1, TO_HW_PORT2,
    TO_HW_PORT3,
  TO_HW_PORT4, TO_HW_PORT5, TO_HW_PORT6, TO_HW_PORT7, TO_HW_PORT8, TO_HW_PORT9,
  TO_HW_PORT10,
  TO_HW_PORT11, TO_HW_PORT12, TO_HW_PORT13, TO_HW_PORT14, TO_HW_PORT15, TO_HW_SIG,
  TO_SW_PORT0,
  TO_SW_PORT1, TO_SW_PORT2, TO_SW_PORT3, TO_SW_PORT4, TO_SW_SIG
<1> QED
  BY <1>1, <1>2, Named DEF Ins, Outs

\* A pointer is served by the slave of its name, and by its first register.
LEMMA Served ==
  ASSUME NEW name \in Names
  PROVE  Selected(pointer[name]) = {name} /\ DATA(pointer[name]) = {name}
<1>1. slave[name].base = pointer[name] /\ slave[name].span = 16 /\ pointer[name] \in Nat
      /\ name \in DOMAIN slave
  BY Pointed, Named
<1>2. ASSUME NEW n \in DOMAIN slave
      PROVE  Within(pointer[name], slave[n]) <=> n = name
  <2>1. CASE n = name
    BY <2>1, <1>1 DEF Within
  <2>2. CASE n \in Names /\ n # name
    <3>1. slave[n].base = pointer[n] /\ slave[n].span = 16 /\ pointer[n] \in Nat
      BY <2>2, Pointed
    <3> QED
      BY <2>2, <3>1, <1>1, Apart DEF Within
  <2>3. CASE n \notin Names
    BY <2>3, Named, Beside
  <2> QED
    BY <2>1, <2>2, <2>3
<1>3. Selected(pointer[name]) = {name}
  BY <1>1, <1>2 DEF Selected
<1>4. (pointer[name] - slave[name].base) \div 4 = 0
  BY <1>1
<1> QED
  BY <1>3, <1>4 DEF DATA

\* The map of the addresses.
LEMMA MapSound == OneSlaveEach
<1>1. \A n \in Names : Cardinality(Selected(pointer[n])) = 1
  BY Served, FS_Singleton
<1>2. ASSUME NEW r \in {RESET_REGION, SDRAM_REGION},
             NEW addr \in {r.base, r.base + r.span - 1}
      PROVE  Selected(addr) = {"sdram"}
  <2>1. "sdram" \in DOMAIN slave
    BY Named
  <2>2. addr \in {RESET_REGION.base, RESET_REGION.base + RESET_REGION.span - 1,
                  SDRAM_REGION.base, SDRAM_REGION.base + SDRAM_REGION.span - 1}
    BY <1>2
  <2>3. \A n \in DOMAIN slave : Within(addr, slave[n]) <=> n = "sdram"
    BY <2>2, InSdram
  <2> QED
    BY <2>1, <2>3 DEF Selected
<1>3. /\ Within(ALT_CPU_RESET_ADDR, RESET_REGION) /\ Within(ALT_CPU_EXCEPTION_ADDR, SDRAM_REGION)
      /\ RESET_REGION.base + RESET_REGION.span = SDRAM_REGION.base
  BY DEF Within, ALT_CPU_RESET_ADDR, ALT_CPU_EXCEPTION_ADDR, RESET_REGION, SDRAM_REGION,
    Slave
<1> QED
  BY <1>1, <1>2, <1>3 DEF OneSlaveEach

\* What a port keeps of a word it keeps of what it has kept.
LEMMA FitAgain ==
  ASSUME NEW word \in Nat, NEW n \in Names
  PROVE  /\ Fit(word, slave[n].bits) \in Nat
         /\ Fit(Fit(word, slave[n].bits), slave[n].bits) = Fit(word, slave[n].bits)
<1>1. 2 ^ 0 = 1 /\ 2 ^ 2 = 4 /\ 2 ^ 8 = 256 /\ 2 ^ 16 = 65536
  OBVIOUS
<1>2. word \div 1 = word
  OBVIOUS
<1>3. slave[n].bits \in {2, 8, 16, 32}
  BY Sized
<1>4. ASSUME NEW b \in {2, 8, 16}
      PROVE  Fit(word, b) \in Nat /\ Fit(Fit(word, b), b) = Fit(word, b)
  <2>1. \A w \in Nat : Fit(w, b) = w % (2 ^ b)
    BY <1>1 DEF Fit, Bits
  <2>2. 2 ^ b \in {4, 256, 65536}
    <3>1. CASE b = 2
      BY <3>1, <1>1
    <3>2. CASE b = 8
      BY <3>2, <1>1
    <3>3. CASE b = 16
      BY <3>3, <1>1
    <3> QED
      BY <3>1, <3>2, <3>3
  <2>3. word % (2 ^ b) \in Nat /\ (word % (2 ^ b)) % (2 ^ b) = word % (2 ^ b)
    BY <2>2
  <2> QED
    BY <2>1, <2>3
<1>5. Fit(word, 32) = word
  BY DEF Fit
<1> QED
  BY <1>3, <1>4, <1>5

\* The pointer to the keys is one to char, but the keys have no sign.
LEMMA KeysFound ==
  ASSUME NEW name \in Ins, name \in Chars, pins[name] \in Nat, pins[name] < 32
  PROVE  Loaded(name) = pins[name]
<1>1. name \in Names
  BY DEF Ins
<1>2. DATA(pointer[name]) \cap Ins = {name}
  BY <1>1, Served
<1>3. Loaded(name) = Signed(Fit(pins[name], 8))
  BY <1>2 DEF Loaded
<1>4. 2 ^ 0 = 1 /\ 2 ^ 8 = 256
  OBVIOUS
<1>5. Fit(pins[name], 8) = (pins[name] \div 1) % 256
  BY <1>4 DEF Fit, Bits
<1>6. Fit(pins[name], 8) = pins[name]
  BY <1>5
<1> QED
  BY <1>3, <1>6 DEF Signed

\* A load finds the pins of its name, also through a pointer to char.
LEMMA LoadFinds ==
  ASSUME PortInv, NEW name \in Ins
  PROVE  Fit(Loaded(name), slave[name].bits) = pins[name]
<1>1. name \in Names
  BY DEF Ins
<1>2. pins[name] \in Nat /\ Fit(pins[name], slave[name].bits) = pins[name]
  BY DEF PortInv
<1>3. CASE name \notin Chars
  <2>1. DATA(pointer[name]) \cap Ins = {name}
    BY <1>1, Served
  <2> QED
    BY <1>2, <1>3, <2>1 DEF Loaded
<1>4. CASE name \in Chars
  <2>1. 2 ^ 0 = 1 /\ 2 ^ 2 = 4
    OBVIOUS
  <2>2. name \in {"to_sw_port2", "to_sw_sig"}
    BY <1>4, Sized DEF Chars
  <2>3. slave["to_sw_sig"].bits = 2
    BY Named, Sized
  <2>4. pins[name] < 32
    <3>1. CASE name = "to_sw_port2"
      BY <3>1 DEF PortInv
    <3>2. CASE name = "to_sw_sig"
      <4>1. pins[name] = (pins[name] \div 1) % 4
        BY <3>2, <2>1, <2>3, <1>2 DEF Fit, Bits
      <4> QED
        BY <4>1, <1>2
    <3> QED
      BY <2>2, <3>1, <3>2
  <2> QED
    BY <1>2, <1>4, <2>4, KeysFound
<1> QED
  BY <1>3, <1>4

\* A word is stored through a pointer, and shown by the port of its name alone.
LEMMA StoreKeeps ==
  ASSUME PortInv, NEW name \in Outs, NEW word, Stored(name, word),
         UNCHANGED <<pins, loaded>>
  PROVE  PortInv'
<1>1. name \in Names
  BY DEF Outs
<1>2. DATA(pointer[name]) = {name}
  BY <1>1, Served
<1>3. register' = [n \in Outs |-> IF n \in {name} THEN Fit(word, slave[n].bits) ELSE register[n]]
      /\ last' = [last EXCEPT ![name] = word]
  BY <1>2 DEF Stored
<1>4. register = [n \in Outs |-> Fit(last[n], slave[n].bits)] /\ last = [n \in Outs |-> last[n]]
  BY DEF PortInv
<1>5. last' = [n \in Outs |-> IF n = name THEN word ELSE last[n]]
  BY <1>3, <1>4
<1>6. \A n \in Outs : register'[n] = Fit(last'[n], slave[n].bits)
  BY <1>3, <1>4, <1>5
<1>7. register' = [n \in Outs |-> Fit(last'[n], slave[n].bits)]
  BY <1>3, <1>6
<1>8. last' = [n \in Outs |-> last'[n]]
  BY <1>5
<1> QED
  BY <1>7, <1>8 DEF PortInv

\* The hardware drives pins.
LEMMA DriveKeeps ==
  ASSUME PortInv, NEW name \in Ins, NEW word \in Nat, Drive(name, word),
         Fit(word, slave[name].bits) = word, name = "to_sw_port2" => word < 32
  PROVE  PortInv'
<1>1. pins' = [pins EXCEPT ![name] = word] /\ UNCHANGED <<register, loaded, last>>
  BY DEF Drive
<1>2. pins \in [Ins -> Nat]
  BY DEF PortInv
<1>3. pins' \in [Ins -> Nat] /\ \A n \in Ins : pins'[n] = IF n = name THEN word ELSE pins[n]
  BY <1>1, <1>2
<1>4. "to_sw_port2" \in Ins
  BY Sized
<1> QED
  BY <1>1, <1>3, <1>4 DEF PortInv

\* At the start the ports show nothing.
LEMMA PortsAtStart == Init => PortInv
<1> SUFFICES ASSUME Init PROVE PortInv
  OBVIOUS
<1>1. /\ register = [n \in Outs |-> 0] /\ pins = [n \in Ins |-> 0]
      /\ loaded = Nothing /\ last = [n \in Outs |-> 0]
  BY DEF Init
<1>2. \A b \in {2, 8, 16, 32} : Fit(0, b) = 0
  <2>1. 2 ^ 0 = 1 /\ 2 ^ 2 = 4 /\ 2 ^ 8 = 256 /\ 2 ^ 16 = 65536
    OBVIOUS
  <2>2. 0 \div 1 = 0 /\ 0 % 4 = 0 /\ 0 % 256 = 0 /\ 0 % 65536 = 0
    OBVIOUS
  <2> SUFFICES ASSUME NEW b \in {2, 8, 16, 32} PROVE Fit(0, b) = 0
    OBVIOUS
  <2>3. CASE b = 2
    BY <2>1, <2>2, <2>3 DEF Fit, Bits
  <2>4. CASE b = 8
    BY <2>1, <2>2, <2>4 DEF Fit, Bits
  <2>5. CASE b = 16
    BY <2>1, <2>2, <2>5 DEF Fit, Bits
  <2>6. CASE b = 32
    BY <2>6 DEF Fit
  <2> QED
    BY <2>3, <2>4, <2>5, <2>6
<1>3. \A n \in Names : Fit(0, slave[n].bits) = 0
  BY <1>2, Sized
<1>4. "to_sw_port2" \in Ins
  BY Sized
<1>5. \A n \in Outs : n \in Names
  BY DEF Outs
<1>6. \A n \in Ins : n \in Names
  BY DEF Ins
<1> QED
  BY <1>1, <1>3, <1>4, <1>5, <1>6 DEF PortInv

\* Every access and every change of the pins.
LEMMA PortsStep == PortInv /\ [Next]_vars => PortInv'
<1> SUFFICES ASSUME PortInv, [Next]_vars PROVE PortInv'
  OBVIOUS
<1>1. ASSUME NEW n \in Outs, NEW word \in Values, Store(n, word) PROVE PortInv'
  BY <1>1, StoreKeeps DEF Store
<1>2. ASSUME NEW n \in Ins, Load(n) PROVE PortInv'
  <2>1. /\ loaded' = [name |-> n, word |-> Loaded(n), pins |-> pins[n]]
        /\ UNCHANGED <<register, pins, last>>
    BY <1>2 DEF Load
  <2>2. Fit(loaded'.word, slave[loaded'.name].bits) = loaded'.pins
    BY <2>1, LoadFinds
  <2> QED
    BY <2>1, <2>2 DEF PortInv
<1>3. ASSUME NEW n \in Ins \ {"to_sw_port2"}, NEW word \in Values,
             Drive(n, Fit(word, slave[n].bits))
      PROVE  PortInv'
  <2>1. word \in Nat /\ n \in Names
    BY BoardAssumption DEF Bounds, Ins
  <2>2. PICK fit \in Nat : fit = Fit(word, slave[n].bits) /\ Fit(fit, slave[n].bits) = fit
    BY <2>1, FitAgain
  <2> QED
    BY <1>3, <2>2, DriveKeeps
<1>4. ASSUME NEW type, NEW state, SendState(type, state) PROVE PortInv'
  <2>1. "to_hw_port0" \in Outs
    BY Named, Sized DEF Ins
  <2> QED
    BY <1>4, <2>1, StoreKeeps DEF SendState
<1>5. ASSUME NEW keys \in 0 .. 31, Drive("to_sw_port2", keys) PROVE PortInv'
  <2>1. "to_sw_port2" \in Ins /\ "to_sw_port2" \in Names /\ slave["to_sw_port2"].bits = 8
    BY Named, Sized
  <2>2. 2 ^ 0 = 1 /\ 2 ^ 8 = 256
    OBVIOUS
  <2>3. Fit(keys, 8) = keys
    BY <2>2 DEF Fit, Bits
  <2> QED
    BY <1>5, <2>1, <2>3, DriveKeeps
<1>6. CASE port2Unpackager
  BY <1>6 DEF port2Unpackager, PortInv
<1>7. CASE UNCHANGED vars
  BY <1>7 DEF vars, PortInv
<1> QED
  BY <1>1, <1>2, <1>3, <1>4, <1>5, <1>6, <1>7 DEF Next

\* Every pointer is a register of its own.
LEMMA AllReached == PortInv => PortsReached
BY MapSound DEF PortInv, PortsReached

\* A number taken apart by dividing it again and again, what its digits count
\* for added up.
TakesApart(f, digit, base, d) ==
  f = [n \in Nat |-> IF n = 0 THEN 0 ELSE digit[n] + base * f[n \div d]]

\* A number is taken apart by dividing it again and again: there is a
\* function that does so, which the recursion defines.
LEMMA TakenApart ==
  ASSUME NEW digit \in [Nat -> Nat], NEW base \in Nat, NEW d \in Nat, d >= 2
  PROVE  \E f : TakesApart(f, digit, base, d)
<1> DEFINE Rule(n, g) == IF n = 0 THEN 0 ELSE digit[n] + base * g[n \div d]
           ToThere(n, g) == g \in [0 .. n -> Nat] /\ \A m \in 0 .. n : g[m] = Rule(m, g)
<1>1. \A n \in Nat : n # 0 => n \div d \in 0 .. n - 1
  BY Shrinks
<1>2. ASSUME NEW n \in Nat, NEW k \in Nat, NEW g, NEW h, ToThere(n, g), ToThere(k, h),
             NEW m \in Nat, m <= n, m <= k
      PROVE  g[m] = h[m]
  <2> DEFINE T == {j \in Nat : j <= n /\ j <= k /\ g[j] # h[j]}
  <2> SUFFICES ASSUME T # {} PROVE FALSE
    BY <1>2
  <2>1. PICK x \in T : \A y \in T : x <= y
    <3>1. T \subseteq Nat
      OBVIOUS
    <3> HIDE DEF T
    <3> QED
      BY <3>1, LeastOf
  <2>2. g[x] = Rule(x, g) /\ h[x] = Rule(x, h) /\ x \in Nat
    BY <1>2
  <2>3. CASE x = 0
    BY <2>2, <2>3
  <2>4. CASE x # 0
    <3>1. x \div d \in 0 .. x - 1
      BY <1>1, <2>4
    <3>2. g[x \div d] = h[x \div d]
      BY <3>1, <2>1
    <3> QED
      BY <2>2, <2>4, <3>2
  <2> QED
    BY <2>3, <2>4
<1>3. ASSUME NEW n \in Nat
      PROVE  \E g : ToThere(n, g)
  <2> DEFINE T == {j \in Nat : ~\E g : ToThere(j, g)}
  <2> SUFFICES ASSUME T # {} PROVE FALSE
    BY Zenon
  <2>1. PICK x \in T : \A y \in T : x <= y
    <3>1. T \subseteq Nat
      OBVIOUS
    <3> HIDE DEF T
    <3> QED
      BY <3>1, LeastOf
  <2>2. CASE x = 0
    <3>1. ToThere(0, [m \in 0 .. 0 |-> 0])
      OBVIOUS
    <3> QED
      BY <2>2, <3>1
  <2>3. CASE x # 0
    <3>1. x - 1 \in Nat /\ x \in Nat
      BY <2>3
    <3>2. PICK g : ToThere(x - 1, g)
      <4>1. x - 1 \notin T
        <5> HIDE DEF T
        <5> QED
          BY <2>1, <3>1
      <4> HIDE DEF ToThere
      <4> QED
        BY <3>1, <4>1
    <3>3. x \div d \in 0 .. x - 1
      BY <1>1, <2>3
    <3>4. PICK v \in Nat : v = digit[x] + base * g[x \div d]
      <4>1. PICK w \in Nat : w = g[x \div d]
        BY <3>2, <3>3
      <4>2. base * w \in Nat /\ digit[x] \in Nat
        BY <3>1
      <4>3. PICK p \in Nat, q \in Nat : p = base * w /\ q = digit[x]
        BY <4>2, Zenon
      <4>4. p + q \in Nat /\ q + p = p + q
        OBVIOUS
      <4> QED
        BY <4>1, <4>3, <4>4, Zenon
    <3> DEFINE h == [m \in 0 .. x |-> IF m = x THEN v ELSE g[m]]
    <3>5. h \in [0 .. x -> Nat]
      <4>1. \A m \in 0 .. x : m # x => m \in 0 .. x - 1
        BY <3>1
      <4>2. \A m \in 0 .. x - 1 : g[m] \in Nat
        BY <3>2
      <4> QED
        BY <4>1, <4>2
    <3>6. ASSUME NEW m \in 0 .. x PROVE h[m] = Rule(m, h)
      <4>1. CASE m = x
        <5>1. x \div d \in 0 .. x /\ x \div d # x /\ x \in 0 .. x
          BY <3>1, <3>3
        <5>2. h[x] = v /\ h[x \div d] = g[x \div d]
          BY <5>1
        <5> QED
          BY <3>4, <4>1, <2>3, <5>2
      <4>2. CASE m # x /\ m # 0
        <5>1. m \in 0 .. x - 1 /\ m \in Nat
          BY <3>1, <4>2
        <5>2. m \div d \in 0 .. m - 1
          BY <1>1, <4>2, <5>1
        <5>3. m \div d \in 0 .. x /\ m \div d # x
          BY <5>1, <5>2
        <5>4. h[m] = g[m] /\ h[m \div d] = g[m \div d]
          BY <4>2, <5>1, <5>3
        <5>5. g[m] = Rule(m, g)
          BY <3>2, <5>1
        <5> QED
          BY <5>4, <5>5
      <4>3. CASE m # x /\ m = 0
        <5>1. 0 \in 0 .. x - 1
          BY <3>1, <4>3
        <5> QED
          BY <3>2, <4>3, <5>1
      <4> QED
        BY <4>1, <4>2, <4>3
    <3>7. ToThere(x, h)
      BY <3>5, <3>6
    <3> QED
      BY <3>7
  <2> QED
    BY <2>2, <2>3
<1> DEFINE G(n) == CHOOSE g : ToThere(n, g)
           f == [n \in Nat |-> G(n)[n]]
<1>4. ASSUME NEW n \in Nat PROVE ToThere(n, G(n))
  <2> HIDE DEF ToThere
  <2> QED
    BY <1>3
<1>5. f \in [Nat -> Nat]
  <2>1. ASSUME NEW n \in Nat PROVE G(n)[n] \in Nat
    <3> HIDE DEF G
    <3> QED
      BY <1>4
  <2> QED
    BY <2>1
<1>6. ASSUME NEW n \in Nat PROVE f[n] = Rule(n, f)
  <2>1. G(n)[n] = Rule(n, G(n))
    <3> HIDE DEF G
    <3> QED
      BY <1>4
  <2>2. ASSUME n # 0 PROVE G(n)[n \div d] = G(n \div d)[n \div d]
    <3> PICK k \in Nat : k = n \div d /\ k <= n
      BY <1>1, <2>2
    <3> HIDE DEF ToThere, G
    <3> QED
      BY <1>2, <1>4
  <2>3. n # 0 => n \div d \in Nat
    BY <1>1
  <2> HIDE DEF G
  <2> QED
    BY <2>1, <2>2, <2>3
<1>7. f = [n \in Nat |-> Rule(n, f)]
  <2> HIDE DEF Rule
  <2> QED
    BY <1>6
<1> QED
  BY <1>7 DEF TakesApart

\* Whatever is defined so is that function: its values are numbers.
LEMMA TakenSo ==
  ASSUME NEW digit \in [Nat -> Nat], NEW base \in Nat, NEW d \in Nat, d >= 2, NEW f,
         TakesApart(f, digit, base, d)
  PROVE  /\ \A n \in Nat : f[n] \in Nat
         /\ \A n \in Nat : f[n] = IF n = 0 THEN 0 ELSE digit[n] + base * f[n \div d]
<1>1. ASSUME NEW n \in Nat
      PROVE  f[n] = IF n = 0 THEN 0 ELSE digit[n] + base * f[n \div d]
  BY DEF TakesApart
<1>2. ASSUME NEW n \in Nat PROVE f[n] \in Nat
  <2> DEFINE T == {j \in Nat : f[j] \notin Nat}
  <2> SUFFICES ASSUME T # {} PROVE FALSE
    OBVIOUS
  <2>1. PICK x \in T : \A y \in T : x <= y
    <3>1. T \subseteq Nat
      OBVIOUS
    <3> HIDE DEF T
    <3> QED
      BY <3>1, LeastOf
  <2>2. x \in Nat /\ f[x] \notin Nat
    OBVIOUS
  <2>3. x # 0
    BY <1>1, <2>2
  <2>4. x \div d \in Nat /\ x \div d < x
    BY <2>2, <2>3, Shrinks
  <2>5. x \div d \notin T
    <3> HIDE DEF T
    <3> QED
      BY <2>1, <2>2, <2>4
  <2>6. PICK w \in Nat : w = f[x \div d]
    BY <2>4, <2>5
  <2>7. base * w \in Nat /\ digit[x] \in Nat
    BY <2>2
  <2>8. PICK p \in Nat, q \in Nat : p = base * w /\ q = digit[x]
    BY <2>7, Zenon
  <2>9. q + p \in Nat
    OBVIOUS
  <2>10. f[x] = digit[x] + base * f[x \div d]
    BY <1>1, <2>2, <2>3
  <2> QED
    BY <2>2, <2>6, <2>8, <2>9, <2>10, Zenon
<1> QED
  BY <1>1, <1>2

\* What convertDecimalToBinary does with a number: its last binary digit is
\* kept, and the rest is converted.
LEMMA DecimalToBinary ==
  \A n \in Nat :
    /\ convertDecimalToBinary[n] \in Nat
    /\ convertDecimalToBinary[n] =
         IF n = 0 THEN 0 ELSE (n % 2) + 10 * convertDecimalToBinary[n \div 2]
<1> DEFINE Rule(f) == f = [n \in Nat |-> IF n = 0 THEN 0 ELSE (n % 2) + 10 * f[n \div 2]]
<1>1. PICK digit \in [Nat -> Nat] : \A n \in Nat : digit[n] = n % 2
  <2>1. [n \in Nat |-> n % 2] \in [Nat -> Nat]
    OBVIOUS
  <2> QED
    BY <2>1
<1>0. PICK b \in Nat, d \in Nat : b = 10 /\ d = 2 /\ d >= 2
  OBVIOUS
<1>2. \A f : Rule(f) <=> TakesApart(f, digit, b, d)
  BY <1>0, <1>1 DEF TakesApart
<1> HIDE DEF Rule
<1>3. \E f : Rule(f)
  <2>1. PICK f : TakesApart(f, digit, b, d)
    BY <1>0, TakenApart
  <2> QED
    BY <1>2, <2>1
<1>4. Rule(convertDecimalToBinary)
  <2>1. convertDecimalToBinary = CHOOSE f : Rule(f)
    BY DEF convertDecimalToBinary, Rule
  <2> QED
    BY <1>3, <2>1
<1>5. PICK f : f = convertDecimalToBinary /\ Rule(f)
  BY <1>4
<1>6. /\ \A n \in Nat : f[n] \in Nat
      /\ \A n \in Nat : f[n] = IF n = 0 THEN 0 ELSE digit[n] + b * f[n \div d]
  <2>1. TakesApart(f, digit, b, d)
    BY <1>2, <1>5
  <2>2. d >= 2
    BY <1>0
  <2> QED
    BY <2>1, <2>2, TakenSo
<1> QED
  BY <1>0, <1>1, <1>5, <1>6

\* What convertBinaryToDecimal does with one: a last decimal digit of 1 counts,
\* and the rest is converted.
LEMMA BinaryToDecimal ==
  \A n \in Nat :
    /\ convertBinaryToDecimal[n] \in Nat
    /\ convertBinaryToDecimal[n] =
         IF n = 0 THEN 0 ELSE (IF n % 10 = 1 THEN 1 ELSE 0) + 2 * convertBinaryToDecimal[n \div 10]
<1> DEFINE Rule(f) == f = [n \in Nat |-> IF n = 0 THEN 0
                             ELSE (IF n % 10 = 1 THEN 1 ELSE 0) + 2 * f[n \div 10]]
<1>1. PICK digit \in [Nat -> Nat] : \A n \in Nat : digit[n] = IF n % 10 = 1 THEN 1 ELSE 0
  <2>1. [n \in Nat |-> IF n % 10 = 1 THEN 1 ELSE 0] \in [Nat -> Nat]
    OBVIOUS
  <2> QED
    BY <2>1
<1>0. PICK b \in Nat, d \in Nat : b = 2 /\ d = 10 /\ d >= 2
  OBVIOUS
<1>2. \A f : Rule(f) <=> TakesApart(f, digit, b, d)
  BY <1>0, <1>1 DEF TakesApart
<1> HIDE DEF Rule
<1>3. \E f : Rule(f)
  <2>1. PICK f : TakesApart(f, digit, b, d)
    BY <1>0, TakenApart
  <2> QED
    BY <1>2, <2>1
<1>4. Rule(convertBinaryToDecimal)
  <2>1. convertBinaryToDecimal = CHOOSE f : Rule(f)
    BY DEF convertBinaryToDecimal, Rule
  <2> QED
    BY <1>3, <2>1
<1>5. PICK f : f = convertBinaryToDecimal /\ Rule(f)
  BY <1>4
<1>6. /\ \A n \in Nat : f[n] \in Nat
      /\ \A n \in Nat : f[n] = IF n = 0 THEN 0 ELSE digit[n] + b * f[n \div d]
  <2>1. TakesApart(f, digit, b, d)
    BY <1>2, <1>5
  <2>2. d >= 2
    BY <1>0
  <2> QED
    BY <2>1, <2>2, TakenSo
<1> QED
  BY <1>0, <1>1, <1>5, <1>6

\* Three binary digits of a number, as decimal ones, and the rest above them.
LastThree(n) == (n % 2) + 10 * ((n \div 2) % 2) + 100 * ((n \div 4) % 2)

LEMMA ThreeDigits ==
  ASSUME NEW n \in Nat
  PROVE  convertDecimalToBinary[n] = LastThree(n) + 1000 * convertDecimalToBinary[n \div 8]
<1>1. \A m \in Nat : convertDecimalToBinary[m] = (m % 2) + 10 * convertDecimalToBinary[m \div 2]
  <2> SUFFICES ASSUME NEW m \in Nat
               PROVE  convertDecimalToBinary[m] = (m % 2) + 10 * convertDecimalToBinary[m \div 2]
    OBVIOUS
  <2>1. CASE m = 0
    <3>1. convertDecimalToBinary[0] = 0 /\ 0 % 2 = 0 /\ 0 \div 2 = 0
      BY DecimalToBinary
    <3> QED
      BY <2>1, <3>1
  <2>2. CASE m # 0
    BY <2>2, DecimalToBinary
  <2> QED
    BY <2>1, <2>2
<1>2. n \div 2 \in Nat /\ n \div 4 \in Nat /\ n \div 8 \in Nat
      /\ (n \div 2) \div 2 = n \div 4 /\ (n \div 4) \div 2 = n \div 8
  OBVIOUS
<1>3. PICK a \in Nat, b \in Nat, c \in Nat, d \in Nat :
        /\ a = convertDecimalToBinary[n] /\ b = convertDecimalToBinary[n \div 2]
        /\ c = convertDecimalToBinary[n \div 4] /\ d = convertDecimalToBinary[n \div 8]
  BY <1>2, DecimalToBinary
<1>4. a = (n % 2) + 10 * b /\ b = ((n \div 2) % 2) + 10 * c /\ c = ((n \div 4) % 2) + 10 * d
  BY <1>1, <1>2, <1>3
<1> QED
  BY <1>3, <1>4 DEF LastThree

\* A last digit that is a binary one is taken as it is.
LEMMA LastDigit ==
  ASSUME NEW m \in Nat, NEW e \in {0, 1}
  PROVE  convertBinaryToDecimal[e + 10 * m] = e + 2 * convertBinaryToDecimal[m]
<1>1. PICK n \in Nat : n = e + 10 * m
  OBVIOUS
<1>2. n % 10 = e /\ n \div 10 = m
  BY <1>1
<1>3. CASE n = 0
  <2>1. m = 0 /\ e = 0 /\ convertBinaryToDecimal[0] = 0
    BY <1>1, <1>3, BinaryToDecimal
  <2> QED
    BY <1>1, <2>1
<1>4. CASE n # 0
  <2>1. convertBinaryToDecimal[n] = (IF n % 10 = 1 THEN 1 ELSE 0) + 2 * convertBinaryToDecimal[n \div 10]
    BY <1>4, BinaryToDecimal
  <2> QED
    BY <1>1, <1>2, <2>1
<1> QED
  BY <1>3, <1>4

\* A number converted and converted back is the number, however large it is.
LEMMA ThereAndBack ==
  ASSUME NEW n \in Nat
  PROVE  convertBinaryToDecimal[convertDecimalToBinary[n]] = n
<1> DEFINE T == {j \in Nat : convertBinaryToDecimal[convertDecimalToBinary[j]] # j}
<1> SUFFICES ASSUME T # {} PROVE FALSE
  OBVIOUS
<1>1. PICK x \in T : \A y \in T : x <= y
  <2>1. T \subseteq Nat
    OBVIOUS
  <2> HIDE DEF T
  <2> QED
    BY <2>1, LeastOf
<1>2. x \in Nat /\ convertBinaryToDecimal[convertDecimalToBinary[x]] # x
  OBVIOUS
<1>3. x # 0
  <2>1. convertDecimalToBinary[0] = 0 /\ convertBinaryToDecimal[0] = 0
    BY DecimalToBinary, BinaryToDecimal
  <2> QED
    BY <1>2, <2>1
<1>4. PICK h \in Nat, e \in {0, 1} : h = x \div 2 /\ e = x % 2 /\ x = e + 2 * h /\ h < x
  BY <1>2, <1>3
<1>5. convertBinaryToDecimal[convertDecimalToBinary[h]] = h
  <2> SUFFICES h \notin T
    OBVIOUS
  <2> HIDE DEF T
  <2> QED
    BY <1>1, <1>2, <1>4
<1>6. PICK m \in Nat : m = convertDecimalToBinary[h]
  BY DecimalToBinary
<1>7. convertDecimalToBinary[x] = e + 10 * m
  BY <1>2, <1>3, <1>4, <1>6, DecimalToBinary
<1>8. convertBinaryToDecimal[e + 10 * m] = e + 2 * convertBinaryToDecimal[m]
  BY LastDigit
<1> QED
  BY <1>2, <1>4, <1>5, <1>6, <1>7, <1>8

\* A type and a state are packed into a word of which the last three bits are
\* the state and the next the type.
LEMMA PackedWord ==
  ASSUME NEW type \in Nat, NEW state \in 0 .. 7
  PROVE  messagePackager(type, state) = state + 8 * type
<1>1. PICK n \in Nat : n = state + 8 * type
  OBVIOUS
<1>2. /\ n % 2 = state % 2 /\ (n \div 2) % 2 = (state \div 2) % 2
      /\ (n \div 4) % 2 = (state \div 4) % 2 /\ n \div 8 = type /\ state \div 8 = 0
  BY <1>1
<1>3. convertDecimalToBinary[0] = 0 /\ state \in Nat
  BY DecimalToBinary
<1>4. PICK t \in Nat : t = convertDecimalToBinary[type]
  BY DecimalToBinary
<1>5. convertDecimalToBinary[state] = LastThree(state)
  <2>1. convertDecimalToBinary[state] =
          LastThree(state) + 1000 * convertDecimalToBinary[state \div 8]
    BY <1>3, ThreeDigits
  <2>2. LastThree(state) \in Nat
    BY <1>3 DEF LastThree
  <2> QED
    BY <1>2, <1>3, <2>1, <2>2
<1>6. convertDecimalToBinary[n] = LastThree(n) + 1000 * t
  BY <1>2, <1>4, ThreeDigits
<1>7. convertDecimalToBinary[n] = convertDecimalToBinary[state] + t * 1000
  BY <1>2, <1>5, <1>6 DEF LastThree
<1> QED
  BY <1>1, <1>4, <1>7, ThereAndBack DEF messagePackager

\* The digits of a byte of five bits are its bits.
LEMMA DigitsAreBits ==
  ASSUME NEW n \in 0 .. 31, NEW i \in 0 .. 4
  PROVE  Digit(n, i) = Bits(n, i, 1)
<1>1. /\ 2 ^ 0 = 1 /\ 2 ^ 1 = 2 /\ 2 ^ 2 = 4 /\ 2 ^ 3 = 8 /\ 2 ^ 4 = 16
  OBVIOUS
<1>2. /\ 10 ^ 0 = 1 /\ 10 ^ 1 = 10 /\ 10 ^ 2 = 100 /\ 10 ^ 3 = 1000 /\ 10 ^ 4 = 10000
  OBVIOUS
<1>3. PICK b0 \in {0, 1}, b1 \in {0, 1}, b2 \in {0, 1}, b3 \in {0, 1}, b4 \in {0, 1} :
        /\ b0 = n % 2 /\ b1 = (n \div 2) % 2 /\ b2 = (n \div 4) % 2
        /\ b3 = (n \div 8) % 2 /\ b4 = (n \div 16) % 2
  OBVIOUS
<1>4. PICK d \in Nat : d = convertDecimalToBinary[n]
  BY DecimalToBinary
<1>5. d = b0 + 10 * b1 + 100 * b2 + 1000 * b3 + 10000 * b4
  <2>1. n \div 8 \in Nat /\ (n \div 8) \div 2 = n \div 16 /\ (n \div 8) \div 4 = 0
        /\ (n \div 8) \div 8 = 0
    OBVIOUS
  <2>2. convertDecimalToBinary[0] = 0 /\ 0 % 2 = 0
    BY DecimalToBinary
  <2>3. PICK k \in Nat : k = n \div 8
    BY <2>1
  <2>4. convertDecimalToBinary[k] = LastThree(k) + 1000 * convertDecimalToBinary[k \div 8]
    BY ThreeDigits
  <2>5. convertDecimalToBinary[k] = b3 + 10 * b4
    BY <1>3, <2>1, <2>2, <2>3, <2>4 DEF LastThree
  <2>6. convertDecimalToBinary[n] = LastThree(n) + 1000 * convertDecimalToBinary[n \div 8]
    BY ThreeDigits
  <2> QED
    BY <1>3, <1>4, <2>3, <2>5, <2>6 DEF LastThree
<1>6. CASE i = 0
  BY <1>1, <1>2, <1>3, <1>4, <1>5, <1>6 DEF Digit, Bits
<1>7. CASE i = 1
  BY <1>1, <1>2, <1>3, <1>4, <1>5, <1>7 DEF Digit, Bits
<1>8. CASE i = 2
  BY <1>1, <1>2, <1>3, <1>4, <1>5, <1>8 DEF Digit, Bits
<1>9. CASE i = 3
  BY <1>1, <1>2, <1>3, <1>4, <1>5, <1>9 DEF Digit, Bits
<1>10. CASE i = 4
  BY <1>1, <1>2, <1>3, <1>4, <1>5, <1>10 DEF Digit, Bits
<1> QED
  BY <1>6, <1>7, <1>8, <1>9, <1>10

\* What holds of the packing after every access.
LEMMA PackingStep == PortInv /\ PackingExact /\ [Next]_vars => PackingExact'
<1> SUFFICES ASSUME PortInv, PackingExact, [Next]_vars PROVE PackingExact'
  OBVIOUS
<1> DEFINE SentExact == sent # NotSent => <<type0, state0>> = sent
           KeysExact == \A i \in 0 .. 4 : unpackaged.digits[i] = Bits(unpackaged.pins, i, 1)
<1>1. SentExact /\ KeysExact
  BY DEF PackingExact
<1>2. UNCHANGED unpackaged => KeysExact'
  BY <1>1
<1>3. UNCHANGED sent /\ register'["to_hw_port0"] = register["to_hw_port0"] => SentExact'
  BY <1>1 DEF type0, state0
<1>4. "to_hw_port0" \in Outs /\ "to_hw_port0" \in Names /\ slave["to_hw_port0"].bits = 32
  BY Named, Sized DEF Ins
<1>5. ASSUME NEW n \in Outs, NEW word, Stored(n, word)
      PROVE  register'["to_hw_port0"] = IF n = "to_hw_port0" THEN word
                                        ELSE register["to_hw_port0"]
  <2>1. DATA(pointer[n]) = {n}
    BY Served DEF Outs
  <2> QED
    BY <1>4, <1>5, <2>1 DEF Stored, Fit
<1>6. ASSUME NEW n \in Outs, NEW word \in Values, Store(n, word)
      PROVE  SentExact' /\ KeysExact'
  <2>1. CASE n = "to_hw_port0"
    BY <1>2, <1>6, <2>1 DEF Store
  <2>2. CASE n # "to_hw_port0"
    BY <1>2, <1>3, <1>5, <1>6, <2>2 DEF Store
  <2> QED
    BY <2>1, <2>2
<1>7. ASSUME NEW type \in 0 .. 7, NEW state \in 0 .. 7, SendState(type, state)
      PROVE  SentExact' /\ KeysExact'
  <2>1. register'["to_hw_port0"] = state + 8 * type /\ sent' = <<type, state>>
    <3>1. PICK word : word = messagePackager(type, state)
      OBVIOUS
    <3>2. word = state + 8 * type
      <4>1. type \in Nat
        OBVIOUS
      <4>2. messagePackager(type, state) = state + 8 * type
        BY <4>1, PackedWord
      <4> QED
        BY <3>1, <4>2
    <3>3. Stored("to_hw_port0", word) /\ sent' = <<type, state>>
      BY <1>7, <3>1 DEF SendState
    <3> QED
      BY <1>4, <1>5, <3>2, <3>3
  <2>2. /\ type0' = ((state + 8 * type) \div 2 ^ 3) % 2 ^ 3
        /\ state0' = ((state + 8 * type) \div 2 ^ 0) % 2 ^ 3
    BY <2>1 DEF type0, state0, Bits
  <2>3. 2 ^ 0 = 1 /\ 2 ^ 3 = 8
    OBVIOUS
  <2>4. type0' = type /\ state0' = state
    BY <2>2, <2>3
  <2> QED
    BY <1>2, <1>7, <2>1, <2>4 DEF SendState
<1>8. ASSUME port2Unpackager PROVE SentExact' /\ KeysExact'
  <2>1. "to_sw_port2" \in Ins /\ "to_sw_port2" \in Names /\ slave["to_sw_port2"].bits = 8
    BY Named, Sized
  <2>2. PICK n \in 0 .. 31 : n = pins["to_sw_port2"]
    BY <2>1 DEF PortInv
  <2>3. Loaded("to_sw_port2") = n
    BY <2>1, <2>2, KeysFound DEF Chars
  <2>4. unpackaged' = [digits |-> [i \in 0 .. 4 |-> Digit(n, i)], pins |-> n]
    BY <1>8, <2>2, <2>3 DEF port2Unpackager
  <2>5. KeysExact'
    BY <2>4, DigitsAreBits
  <2> QED
    BY <1>3, <1>8, <2>5 DEF port2Unpackager
<1>9. ASSUME UNCHANGED <<register, unpackaged, sent>> PROVE SentExact' /\ KeysExact'
  BY <1>2, <1>3, <1>9
<1> HIDE DEF SentExact, KeysExact
<1>10. SentExact' /\ KeysExact'
  <2>1. ASSUME NEW n, Load(n) PROVE UNCHANGED <<register, unpackaged, sent>>
    BY <2>1 DEF Load
  <2>2. ASSUME NEW n, NEW word,
               Drive(n, word) PROVE UNCHANGED <<register, unpackaged, sent>>
    BY <2>2 DEF Drive
  <2>3. UNCHANGED vars => UNCHANGED <<register, unpackaged, sent>>
    BY DEF vars
  <2> QED
    BY <1>6, <1>7, <1>8, <1>9, <2>1, <2>2, <2>3, Zenon DEF Next
<1> QED
  BY <1>10 DEF PackingExact, SentExact, KeysExact

\* At the start nothing has been sent or taken apart.
LEMMA PackingAtStart == Init => PackingExact
<1>1. /\ 2 ^ 0 = 1 /\ 2 ^ 1 = 2 /\ 2 ^ 2 = 4 /\ 2 ^ 3 = 8 /\ 2 ^ 4 = 16
  OBVIOUS
<1>2. ASSUME NEW i \in 0 .. 4 PROVE Bits(0, i, 1) = 0
  <2>1. 2 ^ i \in {1, 2, 4, 8, 16}
    <3>1. i = 0 \/ i = 1 \/ i = 2 \/ i = 3 \/ i = 4
      OBVIOUS
    <3> QED
      BY <1>1, <3>1, Zenon
  <2>2. PICK p \in {1, 2, 4, 8, 16} : p = 2 ^ i
    BY <2>1
  <2>3. (0 \div p) % 2 = 0
    OBVIOUS
  <2> QED
    BY <1>1, <2>2, <2>3 DEF Bits
<1> QED
  BY <1>2 DEF Init, PackingExact, NotSent

-----------------------------------------------------------------------------
(* The parts together: one runs, the others stand still.                   *)

BoardInv == /\ Files!PoolInv /\ Clock!AlarmInv /\ Time!TimeInv /\ Profile!ProfileInv
            /\ PortInv /\ PackingExact /\ TextInv

\* A part that stands still keeps its invariant.
LEMMA PoolStands == Files!PoolInv /\ UNCHANGED files => Files!PoolInv'
<1>1. UNCHANGED files => UNCHANGED Files!vars
  BY DEF files, Files!vars, Files!lists, Files!pool
<1> QED
  BY <1>1, PoolSteps

\* So do the alarms,
LEMMA RingStands == Clock!AlarmInv /\ UNCHANGED clock => Clock!AlarmInv'
<1>1. UNCHANGED clock => UNCHANGED Clock!vars
  BY DEF clock, Clock!vars, Clock!clock, Clock!ring, Clock!due
<1> QED
  BY <1>1, RingSteps

\* the time of day,
LEMMA TimeStands == Time!TimeInv /\ UNCHANGED tod => Time!TimeInv'
<1>1. UNCHANGED tod => UNCHANGED Time!vars
  BY DEF tod, Time!vars
<1> QED
  BY <1>1, TimeStep

\* the profiler
LEMMA ProfileStandsStill == Profile!ProfileInv /\ UNCHANGED profile => Profile!ProfileInv'
<1> SUFFICES ASSUME Profile!ProfileInv, UNCHANGED profile PROVE Profile!ProfileInv'
  OBVIOUS
<1>1. UNCHANGED <<Profile!tables, counting, Profile!history>> /\ UNCHANGED <<text, s_pcsamples, beyond>>
  BY DEF profile, Profile!tables, Profile!history
<1>2. Profile!HistogramSound'
  BY <1>1, HistogramKeeps DEF Profile!ProfileInv
<1> QED
  BY <1>1, <1>2, IdleKeeps

\* the ports
LEMMA PortsStand == PortInv /\ PackingExact /\ UNCHANGED vars => (PortInv /\ PackingExact)'
BY PortsStep, PackingStep

\* and the texts.
LEMMA TextStands == TextInv /\ UNCHANGED textVars => TextInv'
BY TextKeeps

\* Every step of one part keeps the invariants of all.
LEMMA BoardStep == BoardInv /\ [BoardNext]_all => BoardInv'
<1> SUFFICES ASSUME BoardInv, [BoardNext]_all PROVE BoardInv'
  OBVIOUS
<1>1. Files!PoolInv'
  <2>1. Files!Next \/ UNCHANGED files
    BY DEF BoardNext, all
  <2> QED
    BY <2>1, PoolStands, PoolSteps DEF BoardInv
<1>2. Clock!AlarmInv'
  <2>1. Clock!Next \/ UNCHANGED clock
    BY DEF BoardNext, all
  <2> QED
    BY <2>1, RingStands, RingSteps DEF BoardInv
<1>3. Time!TimeInv'
  <2>1. Time!Next \/ UNCHANGED tod
    BY DEF BoardNext, all
  <2> QED
    BY <2>1, TimeStands, TimeStep DEF BoardInv
<1>4. Profile!ProfileInv'
  <2>1. Profile!Next \/ UNCHANGED profile
    BY DEF BoardNext, all
  <2> QED
    BY <2>1, ProfileStandsStill, ProfileSteps DEF BoardInv
<1>5. (PortInv /\ PackingExact)'
  <2>1. Next \/ UNCHANGED vars
    BY DEF BoardNext, all
  <2> QED
    BY <2>1, PortsStand, PortsStep, PackingStep DEF BoardInv
<1>6. TextInv'
  <2>1. TextNext \/ UNCHANGED textVars
    BY DEF BoardNext, all
  <2> QED
    BY <2>1, TextStands, TextKeeps DEF BoardInv
<1> QED
  BY <1>1, <1>2, <1>3, <1>4, <1>5, <1>6 DEF BoardInv

\* The invariants of the six parts, whichever of them runs.
THEOREM BoardInvariant == BoardSpec => []BoardInv
<1>1. BoardInit => BoardInv
  BY PoolAtStart, RingAtStart, TimeInit, ProfileAtStart, PortsAtStart, PackingAtStart,
     TextBegins DEF BoardInit, BoardInv
<1> QED
  BY <1>1, BoardStep, PTL DEF BoardSpec

\* A locked device has at most two descriptors, of which the one that is
\* locked is not standard and is alone in being locked (alt_fd_lock.c).
THEOREM LockOfTwoHolds == BoardSpec => []LockOfTwo
<1>1. BoardInv => LockOfTwo
  BY AtMostTwo DEF BoardInv, LockOfTwo
<1> QED
  BY <1>1, BoardInvariant, PTL

\* A device that is locked is not opened (alt_open.c, alt_file_locked).
THEOREM LockIsRespected == BoardSpec => LockRespected
<1>1. BoardInv /\ [BoardNext]_all => [part = "files" => Files!OpensUnlocked]_all
  <2> SUFFICES ASSUME BoardInv, BoardNext, part = "files" PROVE Files!OpensUnlocked
    OBVIOUS
  <2>1. Files!Next
    BY DEF BoardNext
  <2> QED
    BY <2>1, PoolSteps DEF BoardInv
<1> QED
  BY <1>1, BoardInvariant, PTL DEF BoardSpec, LockRespected

\* Alarms are called at the tick they were asked for: none is called before,
\* and none is left when the tick is over (alt_tick.c).
THEOREM PunctualHolds == BoardSpec => []Punctual
<1>1. BoardInv => Punctual
  BY InTime DEF BoardInv, Punctual
<1> QED
  BY <1>1, BoardInvariant, PTL

\* The time that is told is the time that was set and the ticks since; a nap
\* is never too short (alt_settod.c, alt_gettod.c, alt_busy_sleep.c).
THEOREM TimeToldHolds == BoardSpec => []TimeTold
<1>1. BoardInv => TimeTold
  BY ToldRight DEF BoardInv, TimeTold
<1> QED
  BY <1>1, BoardInvariant, PTL

\* The profiler counts no call twice, misses no more calls and makes no more
\* copies of an arc than there were interrupts, and its histogram covers the
\* text but for what the division loses (alt_mcount.S, alt_gmon.c).
THEOREM ProfileSoundHolds == BoardSpec => []ProfileSound
<1>1. BoardInv => ProfileSound
  BY ProfileStands DEF BoardInv, ProfileSound
<1> QED
  BY <1>1, BoardInvariant, PTL

\* Each pointer of the program reaches the register of its name and no other
\* (main.c, system.h).
THEOREM PortsReachedHolds == BoardSpec => []PortsReached
<1>1. BoardInv => PortsReached
  BY AllReached DEF BoardInv
<1> QED
  BY <1>1, BoardInvariant, PTL

\* Type and state arrive as they were packed, and the keys as they are shown:
\* the decimal arithmetic of the packing loses nothing (main.c,
\* Hardware_Software_Comm.sv).
THEOREM PackingExactHolds == BoardSpec => []PackingExact
<1>1. BoardInv => PackingExact
  BY DEF BoardInv
<1> QED
  BY <1>1, BoardInvariant, PTL

\* Every message is printed as its format means, in order, in full once it is
\* over; no Ctrl-D is put out, and a character is lost only if an interrupt fell
\* between the look at the FIFO and the writing of it (alt_log_printf.c,
\* alt_printf.c).
THEOREM TextExactHolds == BoardSpec => []TextExact
<1>1. BoardInv => TextExact
  BY TextIsExact DEF BoardInv
<1> QED
  BY <1>1, BoardInvariant, PTL
=============================================================================
