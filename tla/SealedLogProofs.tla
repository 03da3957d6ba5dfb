--------------------------- MODULE SealedLogProofs ---------------------------
(***************************************************************************)
(* What SealedLog guarantees for any set of bodies, writers and inodes, of *)
(* the bodies that no two writers append at the same time.                 *)
(*                                                                         *)
(* The argument is ownership.  No inode is ever referred to for the sake   *)
(* of two bodies (Apart), so that writers who race for one of them cannot  *)
(* touch the file of another.  A busy writer of a body that is not raced   *)
(* for is the only one (OneWriter): the `.part' it opened is still there   *)
(* when it renames, is not a published file and holds what it wrote        *)
(* (Progress).                                                             *)
(***************************************************************************)
EXTENDS SealedLog, TLAPS

OneWriter ==
  \A v, w \in Writer :
    Busy(v) /\ Busy(w) /\ name[v] = name[w] /\ name[w] \in Alone => v = w

Progress ==
  \A w \in Writer : name[w] \in Alone =>
    /\ Busy(w) => final[name[w]] = None
    /\ pc[w] \in {"write", "rename"} =>
         part[name[w]] # None /\ fd[w] = part[name[w]]
    /\ pc[w] = "write" => bytes[fd[w]] = Torn
    /\ pc[w] = "rename" => bytes[fd[w]] = [name |-> name[w], obs |-> obs[w]]

\* A writer that made or found a `.part' has it, or somebody published it.
SomeFile ==
  \A w \in Writer : pc[w] \in {"write", "rename"} =>
    part[name[w]] # None \/ final[name[w]] # None

Apart ==
  /\ \A n \in Name : part[n] # None =>
       /\ bytes[part[n]] # None
       /\ \A m \in Name \ {n} : part[m] # part[n] /\ final[m] # part[n]
       /\ n \in Alone => final[n] # part[n]
  /\ \A n \in Name : final[n] # None => bytes[final[n]] # None
  /\ \A w \in Writer : fd[w] # None =>
       /\ bytes[fd[w]] # None
       /\ \A m \in Name \ {name[w]} : part[m] # fd[w] /\ final[m] # fd[w]
       /\ \A v \in Writer : fd[v] = fd[w] => name[v] = name[w]

IInv ==
  /\ TypeOK
  /\ OneWriter /\ Progress /\ SomeFile /\ Apart
  /\ NoHalfFileAlone /\ AddedIsThere /\ LoserFindsItThere

-----------------------------------------------------------------------------
LEMMA InitIInv == Init => IInv
BY SealedLogAssumption
   DEF Init, IInv, TypeOK, Steps, OneWriter, Progress, SomeFile, Apart, NoHalfFileAlone,
       IsWhole, AddedIsThere, LoserFindsItThere, Busy

\* Type correctness needs no assumption about how many writers there are.
LEMMA NextTypeOK == TypeOK /\ [Next]_vars => TypeOK'
<1> SUFFICES ASSUME TypeOK, [Next]_vars PROVE TypeOK'
  OBVIOUS
<1> USE SealedLogAssumption DEF TypeOK, Steps
<1>1. ASSUME NEW w \in Writer, NEW n \in Name, NEW o \in Obs, Begin(w, n, o)
      PROVE  TypeOK'
  BY <1>1 DEF Begin, Busy
<1>2. ASSUME NEW w \in Writer, NEW i \in Inode, OpenNew(w, i) PROVE TypeOK'
  BY <1>2 DEF OpenNew
<1>3. ASSUME NEW w \in Writer, OpenExisting(w) PROVE TypeOK'
  BY <1>3 DEF OpenExisting
<1>4. ASSUME NEW w \in Writer, Write(w) PROVE TypeOK'
  BY <1>4 DEF Write
<1>5. ASSUME NEW w \in Writer, Rename(w) PROVE TypeOK'
  BY <1>5 DEF Rename
<1>6. ASSUME NEW w \in Writer, RenameFails(w) PROVE TypeOK'
  BY <1>6 DEF RenameFails
<1>7. ASSUME NEW w \in Writer, Crash(w) PROVE TypeOK'
  BY <1>7 DEF Crash, Busy
<1>8. CASE UNCHANGED vars
  BY <1>8 DEF vars
<1> QED
  BY <1>1, <1>2, <1>3, <1>4, <1>5, <1>6, <1>7, <1>8 DEF Next

(***************************************************************************)
(* Every behaviour of the files keeps its types: descriptors are open      *)
(* exactly between the open and the rename of seal_to.                     *)
(***************************************************************************)
THEOREM TypeCorrect == Spec => []TypeOK
<1>1. Init => TypeOK
  BY InitIInv DEF IInv
<1> QED
  BY <1>1, NextTypeOK, PTL DEF Spec
\* What a writer past its open knows of the inode it writes into.
LEMMA Owned ==
  ASSUME IInv, NEW w \in Writer, pc[w] \in {"write", "rename"}
  PROVE  /\ name[w] \in Name /\ obs[w] \in Obs
         /\ fd[w] \in Inode /\ bytes[fd[w]] # None
         /\ \A m \in Name \ {name[w]} : part[m] # fd[w] /\ final[m] # fd[w]
         /\ \A v \in Writer : fd[v] = fd[w] => name[v] = name[w]
BY DEF IInv, TypeOK, Apart

\* And what it knows when nobody races it.
LEMMA OwnedAlone ==
  ASSUME IInv, NEW w \in Writer, pc[w] \in {"write", "rename"}, name[w] \in Alone
  PROVE  /\ fd[w] = part[name[w]] /\ final[name[w]] = None
         /\ \A v \in Writer \ {w} : fd[v] # fd[w]
         /\ \A m \in Name : final[m] # fd[w]
<1>1. fd[w] = part[name[w]] /\ final[name[w]] = None
  BY DEF IInv, Progress, Busy
<1>2. fd[w] # None
  BY DEF IInv, TypeOK
<1>3. ASSUME NEW v \in Writer \ {w} PROVE fd[v] # fd[w]
  BY <1>2, Owned DEF IInv, OneWriter, TypeOK, Busy
<1>4. \A m \in Name : final[m] # fd[w]
  BY <1>1, <1>2, Owned
<1> QED
  BY <1>1, <1>3, <1>4

\* What the writer of a raced body writes into is nobody's of an Alone one.
LEMMA Foreign ==
  ASSUME IInv, NEW w \in Writer, pc[w] \in {"write", "rename"}, NEW n \in Alone, n # name[w]
  PROVE  /\ part[n] # fd[w] /\ final[n] # fd[w]
         /\ \A v \in Writer : name[v] = n => fd[v] # fd[w]
BY Owned, SealedLogAssumption

\* An inode nothing was written to yet is referred to by nobody.
LEMMA Fresh ==
  ASSUME IInv, NEW i \in Inode, bytes[i] = None
  PROVE  /\ \A m \in Name : part[m] # i /\ final[m] # i
         /\ \A v \in Writer : fd[v] # i
BY SealedLogAssumption DEF IInv, Apart

\* Writing into an inode that no body of Alone has published is invisible.
LEMMA Unseen ==
  ASSUME IInv, NEW i, bytes' = bytes \/ \E b : bytes' = [bytes EXCEPT ![i] = b],
         \A n \in Alone : final[n] # i, UNCHANGED final
  PROVE  /\ \A n \in Alone : Visible(n)' = Visible(n)
         /\ NoHalfFileAlone'
<1>1. ASSUME NEW n \in Alone, final[n] # None PROVE bytes'[final[n]] = bytes[final[n]]
  BY <1>1, SealedLogAssumption DEF IInv, TypeOK
<1> QED
  BY <1>1 DEF IInv, Visible, NoHalfFileAlone, IsWhole

\* The inode a writer has open is not published under a name of Alone.
LEMMA OpenUnpublished ==
  ASSUME IInv, NEW w \in Writer, pc[w] \in {"write", "rename"}
  PROVE  \A n \in Alone : final[n] # fd[w]
BY Foreign, OwnedAlone, SealedLogAssumption

(***************************************************************************)
(* The invariant is inductive, one action at a time.                       *)
(***************************************************************************)
Rest ==
  /\ OneWriter /\ Progress /\ SomeFile /\ Apart
  /\ NoHalfFileAlone /\ AddedIsThere /\ LoserFindsItThere

LEMMA BeginOk ==
  ASSUME IInv, NEW w \in Writer, NEW n \in Name, NEW o \in Obs, Begin(w, n, o)
  PROVE  Rest'
<1> USE SealedLogAssumption
<1>1. OneWriter'
  BY DEF IInv, TypeOK, OneWriter, Begin, Busy
<1>2. Progress' /\ SomeFile'
  BY DEF IInv, TypeOK, OneWriter, Progress, SomeFile, Begin, Busy
<1>3. Apart'
  <2>1. fd[w] = None
    BY DEF IInv, TypeOK, Begin, Busy
  <2> QED
    BY <2>1 DEF IInv, TypeOK, Apart, Begin
<1>4. NoHalfFileAlone'
  BY DEF IInv, NoHalfFileAlone, IsWhole, Begin
<1>5. AddedIsThere' /\ LoserFindsItThere'
  BY DEF IInv, TypeOK, AddedIsThere, LoserFindsItThere, Visible, Begin
<1> QED
  BY <1>1, <1>2, <1>3, <1>4, <1>5 DEF Rest

LEMMA OpenNewOk ==
  ASSUME IInv, NEW w \in Writer, NEW i \in Inode, OpenNew(w, i)
  PROVE  Rest'
<1> USE SealedLogAssumption
<1>1. /\ pc[w] = "open" /\ name[w] \in Name /\ part[name[w]] = None
      /\ \A v \in Writer : fd[v] # i
      /\ \A m \in Name : part[m] # i /\ final[m] # i
  BY Fresh DEF IInv, TypeOK, OpenNew
<1>2. OneWriter'
  BY DEF IInv, TypeOK, OneWriter, OpenNew, Busy
<1>3. Progress'
  BY <1>1 DEF IInv, TypeOK, OneWriter, Progress, OpenNew, Busy
<1>4. SomeFile'
  BY <1>1 DEF IInv, TypeOK, SomeFile, OpenNew
<1>5. Apart'
  BY <1>1 DEF IInv, TypeOK, Apart, OpenNew
<1>6. NoHalfFileAlone' /\ \A n \in Alone : Visible(n)' = Visible(n)
  BY <1>1, Unseen DEF OpenNew
<1>7. AddedIsThere' /\ LoserFindsItThere'
  BY <1>1, <1>6 DEF IInv, TypeOK, AddedIsThere, LoserFindsItThere, OpenNew
<1> QED
  BY <1>2, <1>3, <1>4, <1>5, <1>6, <1>7 DEF Rest

LEMMA OpenExistingOk ==
  ASSUME IInv, NEW w \in Writer, OpenExisting(w)
  PROVE  Rest'
<1> USE SealedLogAssumption
<1> DEFINE i == part[name[w]]
<1>1. pc[w] = "open" /\ name[w] \in Name /\ i \in Inode
  BY DEF IInv, TypeOK, OpenExisting
<1>2. /\ \A m \in Name \ {name[w]} : part[m] # i /\ final[m] # i
      /\ name[w] \in Alone => final[name[w]] # i
      /\ bytes[i] # None
  BY <1>1 DEF IInv, Apart
<1>3. \A v \in Writer : fd[v] = i => name[v] = name[w]
  BY <1>1 DEF IInv, Apart
<1>4. name[w] \in Alone => \A v \in Writer : fd[v] # i
  BY <1>1, <1>3 DEF IInv, TypeOK, OneWriter, Busy
<1>5. OneWriter'
  BY DEF IInv, TypeOK, OneWriter, OpenExisting, Busy
<1>6. Progress'
  <2> SUFFICES ASSUME NEW v \in Writer, name[v] \in Alone
               PROVE  /\ Busy(v)' => final[name[v]] = None
                      /\ pc'[v] \in {"write", "rename"} =>
                           part[name[v]] # None /\ fd'[v] = part[name[v]]
                      /\ pc'[v] = "write" => bytes'[fd'[v]] = Torn
                      /\ pc'[v] = "rename" =>
                           bytes'[fd'[v]] = [name |-> name[v], obs |-> obs[v]]
    BY DEF Progress, OpenExisting
  <2>1. CASE v = w
    BY <1>1, <2>1 DEF IInv, TypeOK, Progress, OpenExisting, Busy
  <2>2. CASE v # w
    <3>1. fd[v] # i
      BY <1>3, <1>4
    <3> QED
      BY <1>1, <2>2, <3>1 DEF IInv, TypeOK, Progress, OpenExisting, Busy
  <2> QED
    BY <2>1, <2>2
<1>7. SomeFile'
  BY <1>1 DEF IInv, TypeOK, SomeFile, OpenExisting
<1>8. Apart'
  BY <1>1, <1>2, <1>3 DEF IInv, TypeOK, Apart, OpenExisting
<1>9. NoHalfFileAlone' /\ \A n \in Alone : Visible(n)' = Visible(n)
  <2>1. \A n \in Alone : final[n] # i
    BY <1>2
  <2> QED
    BY <2>1, Unseen DEF OpenExisting
<1>10. AddedIsThere' /\ LoserFindsItThere'
  BY <1>1, <1>9 DEF IInv, TypeOK, AddedIsThere, LoserFindsItThere, OpenExisting
<1> QED
  BY <1>5, <1>6, <1>7, <1>8, <1>9, <1>10 DEF Rest

LEMMA WriteOk ==
  ASSUME IInv, NEW w \in Writer, Write(w)
  PROVE  Rest'
<1> USE SealedLogAssumption
<1>1. pc[w] = "write" /\ name[w] \in Name /\ fd[w] \in Inode
  BY DEF IInv, TypeOK, Write
<1>2. PICK b \in {[name |-> name[w], obs |-> obs[w]], Torn} :
        bytes' = [bytes EXCEPT ![fd[w]] = b]
  BY DEF Write
<1>3. b # None
  BY <1>1 DEF IInv, TypeOK
<1>4. \A v \in Writer : fd[v] = fd[w] => name[v] = name[w]
  BY <1>1, Owned
<1>5. OneWriter'
  BY DEF IInv, TypeOK, OneWriter, Write, Busy
<1>6. Progress'
  <2> SUFFICES ASSUME NEW v \in Writer, name[v] \in Alone
               PROVE  /\ Busy(v)' => final[name[v]] = None
                      /\ pc'[v] \in {"write", "rename"} =>
                           part[name[v]] # None /\ fd[v] = part[name[v]]
                      /\ pc'[v] = "write" => bytes'[fd[v]] = Torn
                      /\ pc'[v] = "rename" =>
                           bytes'[fd[v]] = [name |-> name[v], obs |-> obs[v]]
    BY DEF Progress, Write
  <2>1. CASE v = w
    <3>1. bytes[fd[w]] = Torn
      BY <1>1, <2>1 DEF IInv, Progress
    <3>2. bytes' = [bytes EXCEPT ![fd[w]] = [name |-> name[w], obs |-> obs[w]]]
      BY <3>1 DEF Write
    <3> QED
      BY <1>1, <2>1, <3>2 DEF IInv, TypeOK, Progress, Write, Busy
  <2>2. CASE v # w
    <3>1. pc[v] \in {"write", "rename"} => fd[v] # fd[w]
      BY <1>1, <1>4, <2>2 DEF IInv, OneWriter, Busy
    <3> QED
      BY <1>1, <1>2, <2>2, <3>1 DEF IInv, TypeOK, Progress, Write, Busy
  <2> QED
    BY <2>1, <2>2
<1>7. SomeFile'
  BY <1>1 DEF IInv, TypeOK, SomeFile, Write
<1>8. Apart'
  BY <1>1, <1>2, <1>3 DEF IInv, TypeOK, Apart, Write
<1>9. NoHalfFileAlone' /\ \A n \in Alone : Visible(n)' = Visible(n)
  BY <1>1, <1>2, Unseen, OpenUnpublished DEF Write
<1>10. AddedIsThere' /\ LoserFindsItThere'
  BY <1>1, <1>9 DEF IInv, TypeOK, AddedIsThere, LoserFindsItThere, Write
<1> QED
  BY <1>5, <1>6, <1>7, <1>8, <1>9, <1>10 DEF Rest

\* What a rename publishes: of a body of Alone, a whole record, and the first.
LEMMA Publishes ==
  ASSUME IInv, NEW w \in Writer, Rename(w)
  PROVE  /\ \A n \in Name : n # name[w] => final'[n] = final[n] /\ Visible(n)' = Visible(n)
         /\ \A n \in Alone : n = name[w] =>
              /\ obs[w] \in Obs /\ final[n] = None /\ final'[n] # None
              /\ Visible(n)' = [name |-> n, obs |-> obs[w]]
<1> USE SealedLogAssumption
<1>1. pc[w] = "rename" /\ name[w] \in Name /\ obs[w] \in Obs /\ part[name[w]] \in Inode
  BY DEF IInv, TypeOK, Rename
<1>2. ASSUME NEW n \in Name, n # name[w]
      PROVE  final'[n] = final[n] /\ Visible(n)' = Visible(n)
  BY <1>1, <1>2 DEF IInv, TypeOK, Rename, Visible
<1>3. ASSUME NEW n \in Alone, n = name[w]
      PROVE  /\ final[n] = None /\ final'[n] # None
             /\ Visible(n)' = [name |-> n, obs |-> obs[w]]
  <2>1. bytes[part[n]] = [name |-> n, obs |-> obs[w]] /\ final[n] = None
    BY <1>1, <1>3 DEF IInv, Progress, Busy
  <2>2. final'[n] = part[n] /\ part[n] \in Inode /\ bytes' = bytes
    BY <1>1, <1>3 DEF IInv, TypeOK, Rename
  <2> QED
    BY <2>1, <2>2 DEF Visible
<1> QED
  BY <1>1, <1>2, <1>3

LEMMA RenameOk ==
  ASSUME IInv, NEW w \in Writer, Rename(w)
  PROVE  Rest'
<1> USE SealedLogAssumption
<1>1. pc[w] = "rename" /\ name[w] \in Name /\ part[name[w]] \in Inode
  BY DEF IInv, TypeOK, Rename
<1>2. OneWriter'
  BY DEF IInv, TypeOK, OneWriter, Rename, Busy
<1>3. Progress'
  <2>1. \A v \in Writer \ {w} : Busy(v) /\ name[v] \in Alone => name[v] # name[w]
    BY <1>1 DEF IInv, OneWriter, Busy
  <2> QED
    BY <1>1, <2>1 DEF IInv, TypeOK, Progress, Rename, Busy
<1>4. SomeFile'
  BY <1>1 DEF IInv, TypeOK, SomeFile, Rename
<1>5. Apart'
  BY <1>1 DEF IInv, TypeOK, Apart, Rename
<1>6. NoHalfFileAlone'
  <2> SUFFICES ASSUME NEW n \in Alone, final'[n] # None
               PROVE  bytes'[final'[n]] \in [name: {n}, obs: Obs]
    BY DEF NoHalfFileAlone, IsWhole
  <2>1. CASE n = name[w]
    <3>1. Visible(n)' = [name |-> n, obs |-> obs[w]] /\ obs[w] \in Obs
      BY <2>1, Publishes
    <3>2. bytes'[final'[n]] = [name |-> n, obs |-> obs[w]]
      BY <3>1 DEF Visible
    <3> QED
      BY <3>1, <3>2
  <2>2. CASE n # name[w]
    <3>1. final'[n] = final[n] /\ Visible(n)' = Visible(n)
      BY <2>2, Publishes
    <3>2. bytes'[final'[n]] = bytes[final[n]]
      BY <3>1 DEF Visible
    <3> QED
      BY <3>1, <3>2 DEF IInv, NoHalfFileAlone, IsWhole
  <2> QED
    BY <2>1, <2>2
<1>7. AddedIsThere'
  <2> SUFFICES ASSUME NEW v \in Writer, pc'[v] = "added", NEW n \in Alone, n = name[v]
               PROVE  Visible(n)' = [name |-> n, obs |-> obs[v]]
    BY DEF AddedIsThere, Visible, Rename
  <2>1. CASE v = w
    BY <2>1, Publishes
  <2>2. CASE v # w
    <3>1. Visible(n) = [name |-> n, obs |-> obs[v]] /\ obs[v] \in Obs
      BY <2>2 DEF IInv, TypeOK, AddedIsThere, Rename
    <3>2. final[n] # None
      <4>1. [name |-> n, obs |-> obs[v]] # None
        BY <3>1
      <4> QED
        BY <3>1, <4>1 DEF Visible
    <3>3. n # name[w]
      BY <3>2, Publishes
    <3> QED
      BY <3>1, <3>3, Publishes
  <2> QED
    BY <2>1, <2>2
<1>8. LoserFindsItThere'
  BY <1>1 DEF IInv, TypeOK, LoserFindsItThere, Rename
<1> QED
  BY <1>2, <1>3, <1>4, <1>5, <1>6, <1>7, <1>8 DEF Rest

LEMMA RenameFailsOk ==
  ASSUME IInv, NEW w \in Writer, RenameFails(w)
  PROVE  Rest'
<1> USE SealedLogAssumption
<1>1. pc[w] = "rename" /\ final[name[w]] # None
  BY DEF IInv, SomeFile, RenameFails
<1>2. OneWriter' /\ Progress' /\ SomeFile' /\ Apart'
  BY DEF IInv, TypeOK, OneWriter, Progress, SomeFile, Apart, RenameFails, Busy
<1>3. NoHalfFileAlone' /\ AddedIsThere' /\ LoserFindsItThere'
  BY <1>1 DEF IInv, TypeOK, NoHalfFileAlone, IsWhole, AddedIsThere, LoserFindsItThere,
              Visible, RenameFails
<1> QED
  BY <1>2, <1>3 DEF Rest

LEMMA CrashOk ==
  ASSUME IInv, NEW w \in Writer, Crash(w)
  PROVE  Rest'
<1> USE SealedLogAssumption
<1>1. bytes' = bytes \/ (pc[w] = "write" /\ bytes' = [bytes EXCEPT ![fd[w]] = Torn])
  BY DEF Crash
<1>2. pc[w] = "write" => \A v \in Writer : fd[v] = fd[w] => name[v] = name[w]
  BY Owned
<1>3. OneWriter'
  BY DEF IInv, TypeOK, OneWriter, Crash, Busy
<1>4. Progress'
  <2> SUFFICES ASSUME NEW v \in Writer, name[v] \in Alone, v # w
               PROVE  /\ Busy(v) => final[name[v]] = None
                      /\ pc[v] \in {"write", "rename"} =>
                           part[name[v]] # None /\ fd[v] = part[name[v]]
                      /\ pc[v] = "write" => bytes'[fd[v]] = Torn
                      /\ pc[v] = "rename" =>
                           bytes'[fd[v]] = [name |-> name[v], obs |-> obs[v]]
    BY DEF IInv, TypeOK, Progress, Crash, Busy
  <2>1. pc[w] = "write" /\ pc[v] \in {"write", "rename"} => fd[v] # fd[w]
    BY <1>2 DEF IInv, OneWriter, Busy
  <2> QED
    BY <1>1, <2>1 DEF IInv, TypeOK, Progress
<1>5. SomeFile'
  BY DEF IInv, TypeOK, SomeFile, Crash
<1>6. Apart'
  <2>1. \A i \in Inode : bytes[i] # None => bytes'[i] # None
    BY <1>1 DEF IInv, TypeOK
  <2> QED
    BY <2>1 DEF IInv, TypeOK, Apart, Crash
<1>7. NoHalfFileAlone' /\ \A n \in Alone : Visible(n)' = Visible(n)
  <2>1. CASE bytes' = bytes
    BY <2>1 DEF IInv, NoHalfFileAlone, IsWhole, Visible, Crash
  <2>2. CASE pc[w] = "write" /\ bytes' = [bytes EXCEPT ![fd[w]] = Torn]
    BY <2>2, Unseen, OpenUnpublished DEF Crash
  <2> QED
    BY <1>1, <2>1, <2>2
<1>8. AddedIsThere' /\ LoserFindsItThere'
  BY <1>7 DEF IInv, TypeOK, AddedIsThere, LoserFindsItThere, Crash
<1> QED
  BY <1>3, <1>4, <1>5, <1>6, <1>7, <1>8 DEF Rest

LEMMA NextIInv == IInv /\ [Next]_vars => IInv'
<1> SUFFICES ASSUME IInv, [Next]_vars PROVE IInv'
  OBVIOUS
<1>1. TypeOK'
  BY NextTypeOK DEF IInv
<1>2. CASE Next
  <2>1. PICK w \in Writer :
          \/ \E n \in Name, o \in Obs : Begin(w, n, o)
          \/ \E i \in Inode : OpenNew(w, i)
          \/ OpenExisting(w) \/ Write(w) \/ Rename(w) \/ RenameFails(w) \/ Crash(w)
    BY <1>2 DEF Next
  <2>2. Rest'
    BY <2>1, BeginOk, OpenNewOk, OpenExistingOk, WriteOk, RenameOk, RenameFailsOk, CrashOk
  <2> QED
    BY <1>1, <2>2 DEF IInv, Rest
<1>3. CASE UNCHANGED vars
  <2>1. OneWriter' /\ Progress' /\ SomeFile'
    BY <1>3 DEF IInv, vars, OneWriter, Progress, SomeFile, Busy
  <2>2. Apart'
    BY <1>3 DEF IInv, vars, Apart
  <2>3. NoHalfFileAlone' /\ AddedIsThere' /\ LoserFindsItThere'
    BY <1>3 DEF IInv, vars, NoHalfFileAlone, IsWhole, AddedIsThere, LoserFindsItThere, Visible
  <2> QED
    BY <1>1, <2>1, <2>2, <2>3 DEF IInv
<1> QED
  BY <1>2, <1>3

LEMMA Invariance == Spec => []IInv
BY InitIInv, NextIInv, PTL DEF Spec

(***************************************************************************)
(* A half-written sealed file is impossible to observe, whoever is killed  *)
(* and whenever (seal.seal_to), under a name that is not raced for: what   *)
(* is published opens, and is a record of the body its name claims.        *)
(***************************************************************************)
THEOREM PublishedIsWhole == Spec => []NoHalfFileAlone
<1>1. IInv => NoHalfFileAlone
  BY DEF IInv
<1> QED
  BY <1>1, Invariance, PTL

(***************************************************************************)
(* An append that returned is_new = True is in the log with the stamp it   *)
(* was made with, and stays there (ledger.append).                         *)
(***************************************************************************)
THEOREM AddedStays == Spec => []AddedIsThere
<1>1. IInv => AddedIsThere
  BY DEF IInv
<1> QED
  BY <1>1, Invariance, PTL

(***************************************************************************)
(* A writer that lost a race for a body, any body, has lost it to a file   *)
(* that is published (seal.seal_to, the rename that raises).               *)
(***************************************************************************)
THEOREM LosersLostToSomebody == Spec => []LoserFindsItThere
<1>1. IInv => LoserFindsItThere
  BY DEF IInv
<1> QED
  BY <1>1, Invariance, PTL

-----------------------------------------------------------------------------
\* Some body of Alone is published for the first time, as a writer's record.
Published ==
  \E n \in Alone, o \in Obs :
    /\ final[n] = None
    /\ \A m \in Alone \ {n} : final'[m] = final[m] /\ Visible(m)' = Visible(m)
    /\ final'[n] # None
    /\ Visible(n)' = [name |-> n, obs |-> o]

\* Nothing a reader can get of Alone changes.
Same == \A m \in Alone : final'[m] = final[m] /\ Visible(m)' = Visible(m)

LEMMA StepKept == IInv /\ [Next]_vars => Published \/ Same
<1> SUFFICES ASSUME IInv, [Next]_vars PROVE Published \/ Same
  OBVIOUS
<1> USE SealedLogAssumption
<1>1. ASSUME NEW w \in Writer, NEW n \in Name, NEW o \in Obs, Begin(w, n, o) PROVE Same
  BY <1>1 DEF Same, Begin, Visible
<1>2. ASSUME NEW w \in Writer, NEW i \in Inode, OpenNew(w, i) PROVE Same
  <2>1. \A n \in Alone : final[n] # i
    BY <1>2, Fresh DEF OpenNew
  <2> QED
    BY <1>2, <2>1, Unseen DEF Same, OpenNew
<1>3. ASSUME NEW w \in Writer, OpenExisting(w) PROVE Same
  <2>1. \A n \in Alone : final[n] # part[name[w]]
    BY <1>3 DEF IInv, TypeOK, Apart, OpenExisting
  <2> QED
    BY <1>3, <2>1, Unseen DEF Same, OpenExisting
<1>4. ASSUME NEW w \in Writer, Write(w) PROVE Same
  BY <1>4, Unseen, OpenUnpublished DEF Same, Write
<1>5. ASSUME NEW w \in Writer, Rename(w) PROVE Published \/ Same
  <2>1. CASE name[w] \in Alone
    <3>1. PICK n \in Alone, o \in Obs : n = name[w] /\ o = obs[w]
      BY <1>5, <2>1, Publishes
    <3>2. Published
      BY <1>5, <3>1, Publishes DEF Published
    <3> QED
      BY <3>2
  <2>2. CASE name[w] \notin Alone
    <3>1. Same
      BY <1>5, <2>2, Publishes DEF Same
    <3> QED
      BY <3>1
  <2> QED
    BY <2>1, <2>2
<1>6. ASSUME NEW w \in Writer, RenameFails(w) PROVE Same
  BY <1>6 DEF Same, RenameFails, Visible
<1>7. ASSUME NEW w \in Writer, Crash(w) PROVE Same
  <2>1. CASE bytes' = bytes
    BY <1>7, <2>1 DEF Same, Crash, Visible
  <2>2. CASE pc[w] = "write" /\ bytes' = [bytes EXCEPT ![fd[w]] = Torn]
    BY <1>7, <2>2, Unseen, OpenUnpublished DEF Same, Crash
  <2> QED
    BY <1>7, <2>1, <2>2 DEF Crash
<1>8. CASE Next
  BY <1>8, <1>1, <1>2, <1>3, <1>4, <1>5, <1>6, <1>7 DEF Next
<1>9. CASE UNCHANGED vars
  BY <1>9 DEF vars, Same, Visible
<1> QED
  BY <1>8, <1>9

(***************************************************************************)
(* Never renamed over (ledger): what a reader once got under a name it     *)
(* gets for ever.                                                          *)
(***************************************************************************)
THEOREM FirstObservationKept == Spec => FirstObservationStands
<1>1. IInv /\ [Next]_vars =>
        [\A n \in Alone : final[n] # None => Visible(n)' = Visible(n)]_vars
  BY StepKept DEF Published, Same
<1> QED
  BY <1>1, Invariance, PTL DEF Spec, FirstObservationStands

(***************************************************************************)
(* The files implement the append-only table of AppendLog: renaming is its *)
(* Append, and nothing else that happens to the files can be seen.         *)
(***************************************************************************)
THEOREM FilesImplementTable == Spec => TableSpec
<1>1. Init => Table!Init
  BY SealedLogAssumption DEF Init, Table!Init, Kept
<1>2. IInv /\ [Next]_vars => [Table!Next]_Kept
  <2> SUFFICES ASSUME IInv, [Next]_vars, ~ UNCHANGED Kept PROVE Table!Next
    OBVIOUS
  <2>1. CASE Same
    BY <2>1 DEF Same, Kept, Visible
  <2>2. CASE Published
    <3>1. PICK n \in Alone, o \in Obs :
            /\ final[n] = None
            /\ \A m \in Alone \ {n} : final'[m] = final[m] /\ Visible(m)' = Visible(m)
            /\ final'[n] # None
            /\ Visible(n)' = [name |-> n, obs |-> o]
      BY <2>2 DEF Published
    <3>2. Kept[n] = None /\ Kept' = [Kept EXCEPT ![n] = o]
      <4>1. \A m \in Alone : Kept'[m] = IF m = n THEN o ELSE Kept[m]
        BY <3>1 DEF Kept, Visible
      <4>2. Kept' = [m \in Alone |-> Kept'[m]] /\ Kept = [m \in Alone |-> Kept[m]]
        BY DEF Kept
      <4>3. Kept[n] = None
        BY <3>1 DEF Kept
      <4> QED
        BY <4>1, <4>2, <4>3
    <3> QED
      BY <3>2 DEF Table!Next, Table!Append
  <2> QED
    BY <2>1, <2>2, StepKept
<1> QED
  BY <1>1, <1>2, Invariance, PTL DEF Spec, TableSpec, Table!Spec
=============================================================================
