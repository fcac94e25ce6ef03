--------------------------- MODULE InstallerProofs ---------------------------
(***************************************************************************)
(* Theorems about Installer, for any tools, builds and commands, in any    *)
(* overlap and with any number of failures and crashes.                    *)
(***************************************************************************)
EXTENDS Installer, TLAPS

\* The invariant holds on a host where nothing was installed.
LEMMA InitInvariant == Init => InstallerInv
  <1> SUFFICES ASSUME Init PROVE InstallerInv OBVIOUS
  <1>1. TypeOK
    BY NameAssumption DEF Init, TypeOK, Policy, Kind, Place, Inode
  <1>2. Holding /\ DoneLinked
    BY DEF Init, Holding, DoneLinked, AsRoot, At
  <1>3. TmpLinked /\ NamedAreGatekeepers
    BY DEF Init, TmpLinked, NamedAreGatekeepers
  <1> QED BY <1>1, <1>2, <1>3 DEF InstallerInv

\* A failing call leaves bound and history well typed.
LEMMA FailsTyped ==
    ASSUME TypeOK, NEW p \in Proc, Fails(p)
    PROVE  faults' \in Nat /\ clean' \in [Proc -> BOOLEAN]
  <1>1. faults' \in Nat
    BY DEF TypeOK, Fails
  <1>2. clean' \in [Proc -> BOOLEAN]
    BY DEF TypeOK, Fails
  <1> QED BY <1>1, <1>2

\* Writing and closing yield files.
LEMMA FileTyped ==
    ASSUME NEW f \in File \cup {NoFile}, NEW p \in Proc, NEW s \in SUBSET Tool
    PROVE  Filled(f, p, s) \in File \cup {NoFile} /\ Closed(f, p) \in File \cup {NoFile}
  <1>1. [tools |-> s, whole |-> TRUE, by |-> NoFile] \in File
    BY DEF File
  <1>2. f \in File => [f EXCEPT !.by = NoFile] \in File
    BY DEF File
  <1> QED BY <1>1, <1>2 DEF Filled, Closed

\* A path leads to an inode, to a symbolic link, or nowhere.
LEMMA InodeTyped ==
    ASSUME TypeOK, NEW t \in Target
    PROVE  InodeOf(t) \in Inode \cup {NoFile}
  <1>1. CASE t \in Tool
    BY <1>1, NameAssumption DEF TypeOK, InodeOf, Kind, Inode, Fixed
  <1>2. CASE t \notin Tool
    BY <1>2 DEF TypeOK, InodeOf, Target, Fixed, Inode
  <1> QED BY <1>1, <1>2

\* Loading the policy links nothing yet.
LEMMA I_LoadKeeps == ASSUME InstallerInv, NEW p \in Proc, I_Load(p) PROVE InstallerInv'
  <1> USE NameAssumption DEF I_Load, At, Goto, Works, Refused, Error
  <1>t. TypeOK /\ Holding
    BY DEF InstallerInv
  <1>1. TypeOK'
    <2>1. faults' \in Nat /\ clean' \in [Proc -> BOOLEAN] /\ leftover' \in BOOLEAN
      BY <1>t, FailsTyped DEF TypeOK, bound
    <2>2. pc' \in [Proc -> Place] /\ tool' \in [Proc -> Tool \cup {NoFile}]
      BY <1>t DEF TypeOK, Place
    <2>3. todo' \in [Proc -> SUBSET Target] /\ done' \in [Proc -> SUBSET Tool]
      BY <1>t DEF TypeOK, Holding, Target, Policy
    <2>4. err' \in [Proc -> BOOLEAN]
      BY <1>t DEF TypeOK
    <2>5. policy' \in Policy /\ binary' \in Build /\ immutable' \subseteq Inode
      BY <1>t DEF TypeOK, files, Kind, Inode, Fixed
    <2>6. entry' \in [Tool -> Kind] /\ bak' \in [Tool -> Kind]
      BY <1>t DEF TypeOK, files, Kind
    <2>7. dropin' \in File \cup {NoFile} /\ tmp' \in File \cup {NoFile}
      BY <1>t DEF TypeOK, files, File
    <2> QED BY <2>1, <2>2, <2>3, <2>4, <2>5, <2>6, <2>7 DEF TypeOK
  <1>2. Holding'
    BY DEF InstallerInv, TypeOK, Holding, files
  <1>3. DoneLinked'
    BY DEF InstallerInv, TypeOK, Holding, DoneLinked, AsRoot, Kind, files
  <1>4. TmpLinked'
    BY DEF InstallerInv, TypeOK, Holding, DoneLinked, TmpLinked, AsRoot, File, Kind, files
  <1>5. NamedAreGatekeepers'
    BY DEF InstallerInv, TypeOK, Holding, DoneLinked, TmpLinked, NamedAreGatekeepers,
           AsRoot, File, Kind, files
  <1> QED BY <1>1, <1>2, <1>3, <1>4, <1>5 DEF InstallerInv

\* Without binary or directory nothing is linked.
LEMMA I_OpenKeeps == ASSUME InstallerInv, NEW p \in Proc, I_Open(p) PROVE InstallerInv'
  <1> USE NameAssumption DEF I_Open, At, Goto, Works, Refused, Error
  <1>t. TypeOK /\ Holding
    BY DEF InstallerInv
  <1>1. TypeOK'
    <2>1. faults' \in Nat /\ clean' \in [Proc -> BOOLEAN] /\ leftover' \in BOOLEAN
      BY <1>t, FailsTyped DEF TypeOK, bound
    <2>2. pc' \in [Proc -> Place] /\ tool' \in [Proc -> Tool \cup {NoFile}]
      BY <1>t DEF TypeOK, Place
    <2>3. todo' \in [Proc -> SUBSET Target] /\ done' \in [Proc -> SUBSET Tool]
      BY <1>t DEF TypeOK, Holding, Target, Policy
    <2>4. err' \in [Proc -> BOOLEAN]
      BY <1>t DEF TypeOK
    <2>5. policy' \in Policy /\ binary' \in Build /\ immutable' \subseteq Inode
      BY <1>t DEF TypeOK, files, Kind, Inode, Fixed
    <2>6. entry' \in [Tool -> Kind] /\ bak' \in [Tool -> Kind]
      BY <1>t DEF TypeOK, files, Kind
    <2>7. dropin' \in File \cup {NoFile} /\ tmp' \in File \cup {NoFile}
      BY <1>t DEF TypeOK, files, File
    <2> QED BY <2>1, <2>2, <2>3, <2>4, <2>5, <2>6, <2>7 DEF TypeOK
  <1>2. Holding'
    BY DEF InstallerInv, TypeOK, Holding, files
  <1>3. DoneLinked'
    BY DEF InstallerInv, TypeOK, Holding, DoneLinked, AsRoot, Kind, files
  <1>4. TmpLinked'
    BY DEF InstallerInv, TypeOK, Holding, DoneLinked, TmpLinked, AsRoot, File, Kind, files
  <1>5. NamedAreGatekeepers'
    BY DEF InstallerInv, TypeOK, Holding, DoneLinked, TmpLinked, NamedAreGatekeepers,
           AsRoot, File, Kind, files
  <1> QED BY <1>1, <1>2, <1>3, <1>4, <1>5 DEF InstallerInv

\* A tool is recorded as linked only if its path is a link to the present binary.
LEMMA L_StatKeeps == ASSUME InstallerInv, NEW p \in Proc, L_Stat(p) PROVE InstallerInv'
  <1> USE NameAssumption
    DEF L_Stat, At, Goto, Works, Refused, Error, Treat, Replace, Linked, Skipped, First,
           Drop
  <1>t. TypeOK /\ Holding
    BY DEF InstallerInv
  <1>1. TypeOK'
    <2>1. faults' \in Nat /\ clean' \in [Proc -> BOOLEAN] /\ leftover' \in BOOLEAN
      BY <1>t, FailsTyped DEF TypeOK, bound
    <2>2. pc' \in [Proc -> Place] /\ tool' \in [Proc -> Tool \cup {NoFile}]
      BY <1>t DEF TypeOK, Place
    <2>3. todo' \in [Proc -> SUBSET Target] /\ done' \in [Proc -> SUBSET Tool]
      BY <1>t DEF TypeOK, Holding, Target, Policy
    <2>4. err' \in [Proc -> BOOLEAN]
      BY <1>t DEF TypeOK
    <2>5. policy' \in Policy /\ binary' \in Build /\ immutable' \subseteq Inode
      BY <1>t DEF TypeOK, files, Kind, Inode, Fixed
    <2>6. entry' \in [Tool -> Kind] /\ bak' \in [Tool -> Kind]
      BY <1>t DEF TypeOK, files, Kind
    <2>7. dropin' \in File \cup {NoFile} /\ tmp' \in File \cup {NoFile}
      BY <1>t DEF TypeOK, files, File
    <2> QED BY <2>1, <2>2, <2>3, <2>4, <2>5, <2>6, <2>7 DEF TypeOK
  <1>2. Holding'
    BY DEF InstallerInv, TypeOK, Holding, files
  <1>3. DoneLinked'
    BY DEF InstallerInv, TypeOK, Holding, DoneLinked, AsRoot, Kind, files
  <1>4. TmpLinked'
    BY DEF InstallerInv, TypeOK, Holding, DoneLinked, TmpLinked, AsRoot, File, Kind, files
  <1>5. NamedAreGatekeepers'
    BY DEF InstallerInv, TypeOK, Holding, DoneLinked, TmpLinked, NamedAreGatekeepers,
           AsRoot, File, Kind, files
  <1> QED BY <1>1, <1>2, <1>3, <1>4, <1>5 DEF InstallerInv

\* An entry that is removed leaves nothing behind.
LEMMA L_UnlinkKeeps == ASSUME InstallerInv, NEW p \in Proc, L_Unlink(p) PROVE InstallerInv'
  <1> USE NameAssumption DEF L_Unlink, At, Goto, Works, Refused, Error, Linked, Skipped, Drop
  <1>t. TypeOK /\ Holding
    BY DEF InstallerInv
  <1>1. TypeOK'
    <2>1. faults' \in Nat /\ clean' \in [Proc -> BOOLEAN] /\ leftover' \in BOOLEAN
      BY <1>t, FailsTyped DEF TypeOK, bound
    <2>2. pc' \in [Proc -> Place] /\ tool' \in [Proc -> Tool \cup {NoFile}]
      BY <1>t DEF TypeOK, Place
    <2>3. todo' \in [Proc -> SUBSET Target] /\ done' \in [Proc -> SUBSET Tool]
      BY <1>t DEF TypeOK, Holding, Target, Policy
    <2>4. err' \in [Proc -> BOOLEAN]
      BY <1>t DEF TypeOK
    <2>5. policy' \in Policy /\ binary' \in Build /\ immutable' \subseteq Inode
      BY <1>t DEF TypeOK, files, Kind, Inode, Fixed
    <2>6. entry' \in [Tool -> Kind] /\ bak' \in [Tool -> Kind]
      BY <1>t DEF TypeOK, files, Kind
    <2>7. dropin' \in File \cup {NoFile} /\ tmp' \in File \cup {NoFile}
      BY <1>t DEF TypeOK, files, File
    <2> QED BY <2>1, <2>2, <2>3, <2>4, <2>5, <2>6, <2>7 DEF TypeOK
  <1>2. Holding'
    BY DEF InstallerInv, TypeOK, Holding, files
  <1>3. DoneLinked'
    BY DEF InstallerInv, TypeOK, Holding, DoneLinked, AsRoot, Kind, files
  <1>4. TmpLinked'
    BY DEF InstallerInv, TypeOK, Holding, DoneLinked, TmpLinked, AsRoot, File, Kind, files
  <1>5. NamedAreGatekeepers'
    BY DEF InstallerInv, TypeOK, Holding, DoneLinked, TmpLinked, NamedAreGatekeepers,
           AsRoot, File, Kind, files
  <1> QED BY <1>1, <1>2, <1>3, <1>4, <1>5 DEF InstallerInv

\* An entry that is moved away leaves nothing behind.
LEMMA L_BackupKeeps == ASSUME InstallerInv, NEW p \in Proc, L_Backup(p) PROVE InstallerInv'
  <1> USE NameAssumption
    DEF L_Backup, At, Goto, Works, Refused, Error, Skipped, Drop, CannotRename, SameInode
  <1>t. TypeOK /\ Holding
    BY DEF InstallerInv
  <1>1. TypeOK'
    <2>1. faults' \in Nat /\ clean' \in [Proc -> BOOLEAN] /\ leftover' \in BOOLEAN
      BY <1>t, FailsTyped DEF TypeOK, bound
    <2>2. pc' \in [Proc -> Place] /\ tool' \in [Proc -> Tool \cup {NoFile}]
      BY <1>t DEF TypeOK, Place
    <2>3. todo' \in [Proc -> SUBSET Target] /\ done' \in [Proc -> SUBSET Tool]
      BY <1>t DEF TypeOK, Holding, Target, Policy
    <2>4. err' \in [Proc -> BOOLEAN]
      BY <1>t DEF TypeOK
    <2>5. policy' \in Policy /\ binary' \in Build /\ immutable' \subseteq Inode
      BY <1>t DEF TypeOK, files, Kind, Inode, Fixed
    <2>6. entry' \in [Tool -> Kind] /\ bak' \in [Tool -> Kind]
      BY <1>t DEF TypeOK, files, Kind
    <2>7. dropin' \in File \cup {NoFile} /\ tmp' \in File \cup {NoFile}
      BY <1>t DEF TypeOK, files, File
    <2> QED BY <2>1, <2>2, <2>3, <2>4, <2>5, <2>6, <2>7 DEF TypeOK
  <1>2. Holding'
    BY DEF InstallerInv, TypeOK, Holding, files
  <1>3. DoneLinked'
    BY DEF InstallerInv, TypeOK, Holding, DoneLinked, AsRoot, Kind, files
  <1>4. TmpLinked'
    BY DEF InstallerInv, TypeOK, Holding, DoneLinked, TmpLinked, AsRoot, File, Kind, files
  <1>5. NamedAreGatekeepers'
    BY DEF InstallerInv, TypeOK, Holding, DoneLinked, TmpLinked, NamedAreGatekeepers,
           AsRoot, File, Kind, files
  <1> QED BY <1>1, <1>2, <1>3, <1>4, <1>5 DEF InstallerInv

\* A new entry is a link to the present binary.
LEMMA L_LinkKeeps == ASSUME InstallerInv, NEW p \in Proc, L_Link(p) PROVE InstallerInv'
  <1> USE NameAssumption
    DEF L_Link, At, Goto, Works, Refused, Error, Linked, Skipped, Drop, CannotLink
  <1>t. TypeOK /\ Holding
    BY DEF InstallerInv
  <1>1. TypeOK'
    <2>1. faults' \in Nat /\ clean' \in [Proc -> BOOLEAN] /\ leftover' \in BOOLEAN
      BY <1>t, FailsTyped DEF TypeOK, bound
    <2>2. pc' \in [Proc -> Place] /\ tool' \in [Proc -> Tool \cup {NoFile}]
      BY <1>t DEF TypeOK, Place
    <2>3. todo' \in [Proc -> SUBSET Target] /\ done' \in [Proc -> SUBSET Tool]
      BY <1>t DEF TypeOK, Holding, Target, Policy
    <2>4. err' \in [Proc -> BOOLEAN]
      BY <1>t DEF TypeOK
    <2>5. policy' \in Policy /\ binary' \in Build /\ immutable' \subseteq Inode
      BY <1>t DEF TypeOK, files, Kind, Inode, Fixed
    <2>6. entry' \in [Tool -> Kind] /\ bak' \in [Tool -> Kind]
      BY <1>t DEF TypeOK, files, Kind
    <2>7. dropin' \in File \cup {NoFile} /\ tmp' \in File \cup {NoFile}
      BY <1>t DEF TypeOK, files, File
    <2> QED BY <2>1, <2>2, <2>3, <2>4, <2>5, <2>6, <2>7 DEF TypeOK
  <1>2. Holding'
    BY DEF InstallerInv, TypeOK, Holding, files
  <1>3. DoneLinked'
    BY DEF InstallerInv, TypeOK, Holding, DoneLinked, AsRoot, Kind, files
  <1>4. TmpLinked'
    BY DEF InstallerInv, TypeOK, Holding, DoneLinked, TmpLinked, AsRoot, File, Kind, files
  <1>5. NamedAreGatekeepers'
    BY DEF InstallerInv, TypeOK, Holding, DoneLinked, TmpLinked, NamedAreGatekeepers,
           AsRoot, File, Kind, files
  <1> QED BY <1>1, <1>2, <1>3, <1>4, <1>5 DEF InstallerInv

\* The drop-in is begun when all tools are treated.
LEMMA D_BeginKeeps == ASSUME InstallerInv, NEW p \in Proc, D_Begin(p) PROVE InstallerInv'
  <1> USE NameAssumption DEF D_Begin, At, Goto, Works, Refused, Error
  <1>t. TypeOK /\ Holding
    BY DEF InstallerInv
  <1>1. TypeOK'
    <2>1. faults' \in Nat /\ clean' \in [Proc -> BOOLEAN] /\ leftover' \in BOOLEAN
      BY <1>t, FailsTyped DEF TypeOK, bound
    <2>2. pc' \in [Proc -> Place] /\ tool' \in [Proc -> Tool \cup {NoFile}]
      BY <1>t DEF TypeOK, Place
    <2>3. todo' \in [Proc -> SUBSET Target] /\ done' \in [Proc -> SUBSET Tool]
      BY <1>t DEF TypeOK, Holding, Target, Policy
    <2>4. err' \in [Proc -> BOOLEAN]
      BY <1>t DEF TypeOK
    <2>5. policy' \in Policy /\ binary' \in Build /\ immutable' \subseteq Inode
      BY <1>t DEF TypeOK, files, Kind, Inode, Fixed
    <2>6. entry' \in [Tool -> Kind] /\ bak' \in [Tool -> Kind]
      BY <1>t DEF TypeOK, files, Kind
    <2>7. dropin' \in File \cup {NoFile} /\ tmp' \in File \cup {NoFile}
      BY <1>t DEF TypeOK, files, File
    <2> QED BY <2>1, <2>2, <2>3, <2>4, <2>5, <2>6, <2>7 DEF TypeOK
  <1>2. Holding'
    BY DEF InstallerInv, TypeOK, Holding, files
  <1>3. DoneLinked'
    BY DEF InstallerInv, TypeOK, Holding, DoneLinked, AsRoot, Kind, files
  <1>4. TmpLinked'
    BY DEF InstallerInv, TypeOK, Holding, DoneLinked, TmpLinked, AsRoot, File, Kind, files
  <1>5. NamedAreGatekeepers'
    BY DEF InstallerInv, TypeOK, Holding, DoneLinked, TmpLinked, NamedAreGatekeepers,
           AsRoot, File, Kind, files
  <1> QED BY <1>1, <1>2, <1>3, <1>4, <1>5 DEF InstallerInv

\* Without its directory no drop-in is written.
LEMMA D_NoDirectoryKeeps == ASSUME InstallerInv, NEW p \in Proc, D_NoDirectory(p) PROVE InstallerInv'
  <1> USE NameAssumption DEF D_NoDirectory, At, Goto, Works, Refused, Error, Forget
  <1>t. TypeOK /\ Holding
    BY DEF InstallerInv
  <1>1. TypeOK'
    <2>1. faults' \in Nat /\ clean' \in [Proc -> BOOLEAN] /\ leftover' \in BOOLEAN
      BY <1>t, FailsTyped DEF TypeOK, bound
    <2>2. pc' \in [Proc -> Place] /\ tool' \in [Proc -> Tool \cup {NoFile}]
      BY <1>t DEF TypeOK, Place
    <2>3. todo' \in [Proc -> SUBSET Target] /\ done' \in [Proc -> SUBSET Tool]
      BY <1>t DEF TypeOK, Holding, Target, Policy
    <2>4. err' \in [Proc -> BOOLEAN]
      BY <1>t DEF TypeOK
    <2>5. policy' \in Policy /\ binary' \in Build /\ immutable' \subseteq Inode
      BY <1>t DEF TypeOK, files, Kind, Inode, Fixed
    <2>6. entry' \in [Tool -> Kind] /\ bak' \in [Tool -> Kind]
      BY <1>t DEF TypeOK, files, Kind
    <2>7. dropin' \in File \cup {NoFile} /\ tmp' \in File \cup {NoFile}
      BY <1>t DEF TypeOK, files, File
    <2> QED BY <2>1, <2>2, <2>3, <2>4, <2>5, <2>6, <2>7 DEF TypeOK
  <1>2. Holding'
    BY DEF InstallerInv, TypeOK, Holding, files
  <1>3. DoneLinked'
    BY DEF InstallerInv, TypeOK, Holding, DoneLinked, AsRoot, Kind, files
  <1>4. TmpLinked'
    BY DEF InstallerInv, TypeOK, Holding, DoneLinked, TmpLinked, AsRoot, File, Kind, files
  <1>5. NamedAreGatekeepers'
    BY DEF InstallerInv, TypeOK, Holding, DoneLinked, TmpLinked, NamedAreGatekeepers,
           AsRoot, File, Kind, files
  <1> QED BY <1>1, <1>2, <1>3, <1>4, <1>5 DEF InstallerInv

\* A new temporary file names no tool.
LEMMA D_CreateKeeps == ASSUME InstallerInv, NEW p \in Proc, D_Create(p) PROVE InstallerInv'
  <1> USE NameAssumption DEF D_Create, At, Goto, Works, Refused, Error
  <1>t. TypeOK /\ Holding
    BY DEF InstallerInv
  <1>1. TypeOK'
    <2>1. faults' \in Nat /\ clean' \in [Proc -> BOOLEAN] /\ leftover' \in BOOLEAN
      BY <1>t, FailsTyped DEF TypeOK, bound
    <2>2. pc' \in [Proc -> Place] /\ tool' \in [Proc -> Tool \cup {NoFile}]
      BY <1>t DEF TypeOK, Place
    <2>3. todo' \in [Proc -> SUBSET Target] /\ done' \in [Proc -> SUBSET Tool]
      BY <1>t DEF TypeOK, Holding, Target, Policy
    <2>4. err' \in [Proc -> BOOLEAN]
      BY <1>t DEF TypeOK
    <2>5. policy' \in Policy /\ binary' \in Build /\ immutable' \subseteq Inode
      BY <1>t DEF TypeOK, files, Kind, Inode, Fixed
    <2>6. entry' \in [Tool -> Kind] /\ bak' \in [Tool -> Kind]
      BY <1>t DEF TypeOK, files, Kind
    <2>7. dropin' \in File \cup {NoFile} /\ tmp' \in File \cup {NoFile}
      <3>1. [tools |-> {}, whole |-> FALSE, by |-> p] \in File
        BY DEF File
      <3> QED BY <1>t, <3>1 DEF TypeOK
    <2> QED BY <2>1, <2>2, <2>3, <2>4, <2>5, <2>6, <2>7 DEF TypeOK
  <1>2. Holding'
    BY DEF InstallerInv, TypeOK, Holding, files
  <1>3. DoneLinked'
    BY DEF InstallerInv, TypeOK, Holding, DoneLinked, AsRoot, Kind, files
  <1>4. TmpLinked'
    BY DEF InstallerInv, TypeOK, Holding, DoneLinked, TmpLinked, AsRoot, File, Kind, files
  <1>5. NamedAreGatekeepers'
    BY DEF InstallerInv, TypeOK, Holding, DoneLinked, TmpLinked, NamedAreGatekeepers,
           AsRoot, File, Kind, files
  <1> QED BY <1>1, <1>2, <1>3, <1>4, <1>5 DEF InstallerInv

\* A temporary file, wherever it has got to, receives linked tools only.
LEMMA D_WriteKeeps == ASSUME InstallerInv, NEW p \in Proc, D_Write(p) PROVE InstallerInv'
  <1> USE NameAssumption
    DEF D_Write, At, Goto, Works, Refused, Error, Write, Filled, Closed, Content
  <1>t. TypeOK /\ Holding
    BY DEF InstallerInv
  <1>1. TypeOK'
    <2>1. faults' \in Nat /\ clean' \in [Proc -> BOOLEAN] /\ leftover' \in BOOLEAN
      BY <1>t, FailsTyped DEF TypeOK, bound
    <2>2. pc' \in [Proc -> Place] /\ tool' \in [Proc -> Tool \cup {NoFile}]
      BY <1>t DEF TypeOK, Place
    <2>3. todo' \in [Proc -> SUBSET Target] /\ done' \in [Proc -> SUBSET Tool]
      BY <1>t DEF TypeOK, Holding, Target, Policy
    <2>4. err' \in [Proc -> BOOLEAN]
      BY <1>t DEF TypeOK
    <2>5. policy' \in Policy /\ binary' \in Build /\ immutable' \subseteq Inode
      BY <1>t DEF TypeOK, files, Kind, Inode, Fixed
    <2>6. entry' \in [Tool -> Kind] /\ bak' \in [Tool -> Kind]
      BY <1>t DEF TypeOK, files, Kind
    <2>7. dropin' \in File \cup {NoFile} /\ tmp' \in File \cup {NoFile}
      <3>1. done[p] \in SUBSET Tool
        BY <1>t DEF TypeOK
      <3>2. \/ tmp' = Filled(tmp, p, done[p]) /\ dropin' = Filled(dropin, p, done[p])
            \/ tmp' = Closed(tmp, p) /\ dropin' = Closed(dropin, p)
        OBVIOUS
      <3>3. tmp \in File \cup {NoFile} /\ dropin \in File \cup {NoFile}
        BY <1>t DEF TypeOK
      <3> HIDE DEF Filled, Closed
      <3> QED BY <3>1, <3>2, <3>3, FileTyped
    <2> QED BY <2>1, <2>2, <2>3, <2>4, <2>5, <2>6, <2>7 DEF TypeOK
  <1>2. Holding'
    BY DEF InstallerInv, TypeOK, Holding, files
  <1>3. DoneLinked'
    BY DEF InstallerInv, TypeOK, Holding, DoneLinked, AsRoot, Kind, files
  <1>4. TmpLinked'
    BY DEF InstallerInv, TypeOK, Holding, DoneLinked, TmpLinked, AsRoot, File, Kind, files
  <1>5. NamedAreGatekeepers'
    BY DEF InstallerInv, TypeOK, Holding, DoneLinked, TmpLinked, NamedAreGatekeepers,
           AsRoot, File, Kind, files
  <1> QED BY <1>1, <1>2, <1>3, <1>4, <1>5 DEF InstallerInv

\* visudo changes nothing.
LEMMA D_CheckKeeps == ASSUME InstallerInv, NEW p \in Proc, D_Check(p) PROVE InstallerInv'
  <1> USE NameAssumption DEF D_Check, At, Goto, Works, Refused, Error
  <1>t. TypeOK /\ Holding
    BY DEF InstallerInv
  <1>1. TypeOK'
    <2>1. faults' \in Nat /\ clean' \in [Proc -> BOOLEAN] /\ leftover' \in BOOLEAN
      BY <1>t, FailsTyped DEF TypeOK, bound
    <2>2. pc' \in [Proc -> Place] /\ tool' \in [Proc -> Tool \cup {NoFile}]
      BY <1>t DEF TypeOK, Place
    <2>3. todo' \in [Proc -> SUBSET Target] /\ done' \in [Proc -> SUBSET Tool]
      BY <1>t DEF TypeOK, Holding, Target, Policy
    <2>4. err' \in [Proc -> BOOLEAN]
      BY <1>t DEF TypeOK
    <2>5. policy' \in Policy /\ binary' \in Build /\ immutable' \subseteq Inode
      BY <1>t DEF TypeOK, files, Kind, Inode, Fixed
    <2>6. entry' \in [Tool -> Kind] /\ bak' \in [Tool -> Kind]
      BY <1>t DEF TypeOK, files, Kind
    <2>7. dropin' \in File \cup {NoFile} /\ tmp' \in File \cup {NoFile}
      BY <1>t DEF TypeOK, files, File
    <2> QED BY <2>1, <2>2, <2>3, <2>4, <2>5, <2>6, <2>7 DEF TypeOK
  <1>2. Holding'
    BY DEF InstallerInv, TypeOK, Holding, files
  <1>3. DoneLinked'
    BY DEF InstallerInv, TypeOK, Holding, DoneLinked, AsRoot, Kind, files
  <1>4. TmpLinked'
    BY DEF InstallerInv, TypeOK, Holding, DoneLinked, TmpLinked, AsRoot, File, Kind, files
  <1>5. NamedAreGatekeepers'
    BY DEF InstallerInv, TypeOK, Holding, DoneLinked, TmpLinked, NamedAreGatekeepers,
           AsRoot, File, Kind, files
  <1> QED BY <1>1, <1>2, <1>3, <1>4, <1>5 DEF InstallerInv

\* What becomes the drop-in names gatekeepers only.
LEMMA D_RenameKeeps == ASSUME InstallerInv, NEW p \in Proc, D_Rename(p) PROVE InstallerInv'
  <1> USE NameAssumption DEF D_Rename, At, Goto, Works, Refused, Error, ManagedTargets, Target
  <1>t. TypeOK /\ Holding
    BY DEF InstallerInv
  <1>1. TypeOK'
    <2>1. faults' \in Nat /\ clean' \in [Proc -> BOOLEAN] /\ leftover' \in BOOLEAN
      BY <1>t, FailsTyped DEF TypeOK, bound
    <2>2. pc' \in [Proc -> Place] /\ tool' \in [Proc -> Tool \cup {NoFile}]
      BY <1>t DEF TypeOK, Place
    <2>3. todo' \in [Proc -> SUBSET Target] /\ done' \in [Proc -> SUBSET Tool]
      BY <1>t DEF TypeOK, Holding, Target, Policy
    <2>4. err' \in [Proc -> BOOLEAN]
      BY <1>t DEF TypeOK
    <2>5. policy' \in Policy /\ binary' \in Build /\ immutable' \subseteq Inode
      BY <1>t DEF TypeOK, files, Kind, Inode, Fixed
    <2>6. entry' \in [Tool -> Kind] /\ bak' \in [Tool -> Kind]
      BY <1>t DEF TypeOK, files, Kind
    <2>7. dropin' \in File \cup {NoFile} /\ tmp' \in File \cup {NoFile}
      BY <1>t DEF TypeOK, files, File
    <2> QED BY <2>1, <2>2, <2>3, <2>4, <2>5, <2>6, <2>7 DEF TypeOK
  <1>2. Holding'
    BY DEF InstallerInv, TypeOK, Holding, files
  <1>3. DoneLinked'
    BY DEF InstallerInv, TypeOK, Holding, DoneLinked, AsRoot, Kind, files
  <1>4. TmpLinked'
    BY DEF InstallerInv, TypeOK, Holding, DoneLinked, TmpLinked, AsRoot, File, Kind, files
  <1>5. NamedAreGatekeepers'
    BY DEF InstallerInv, TypeOK, Holding, DoneLinked, TmpLinked, NamedAreGatekeepers,
           AsRoot, File, Kind, files
  <1> QED BY <1>1, <1>2, <1>3, <1>4, <1>5 DEF InstallerInv

\* Removing the temporary file leaves the drop-in alone.
LEMMA G_CleanupKeeps == ASSUME InstallerInv, NEW p \in Proc, G_Cleanup(p) PROVE InstallerInv'
  <1> USE NameAssumption DEF G_Cleanup, At, Goto, Works, Refused, Error, Forget
  <1>t. TypeOK /\ Holding
    BY DEF InstallerInv
  <1>1. TypeOK'
    <2>1. faults' \in Nat /\ clean' \in [Proc -> BOOLEAN] /\ leftover' \in BOOLEAN
      <3>1. faults' \in Nat
        BY <1>t DEF TypeOK
      <3>2. clean' \in [Proc -> BOOLEAN]
        BY <1>t DEF TypeOK
      <3>3. leftover' \in BOOLEAN
        OBVIOUS
      <3> QED BY <3>1, <3>2, <3>3
    <2>2. pc' \in [Proc -> Place] /\ tool' \in [Proc -> Tool \cup {NoFile}]
      BY <1>t DEF TypeOK, Place
    <2>3. todo' \in [Proc -> SUBSET Target] /\ done' \in [Proc -> SUBSET Tool]
      BY <1>t DEF TypeOK, Holding, Target, Policy
    <2>4. err' \in [Proc -> BOOLEAN]
      BY <1>t DEF TypeOK
    <2>5. policy' \in Policy /\ binary' \in Build /\ immutable' \subseteq Inode
      BY <1>t DEF TypeOK, files, Kind, Inode, Fixed
    <2>6. entry' \in [Tool -> Kind] /\ bak' \in [Tool -> Kind]
      BY <1>t DEF TypeOK, files, Kind
    <2>7. dropin' \in File \cup {NoFile} /\ tmp' \in File \cup {NoFile}
      BY <1>t DEF TypeOK, files, File
    <2> QED BY <2>1, <2>2, <2>3, <2>4, <2>5, <2>6, <2>7 DEF TypeOK
  <1>2. Holding'
    BY DEF InstallerInv, TypeOK, Holding, files
  <1>3. DoneLinked'
    BY DEF InstallerInv, TypeOK, Holding, DoneLinked, AsRoot, Kind, files
  <1>4. TmpLinked'
    BY DEF InstallerInv, TypeOK, Holding, DoneLinked, TmpLinked, AsRoot, File, Kind, files
  <1>5. NamedAreGatekeepers'
    BY DEF InstallerInv, TypeOK, Holding, DoneLinked, TmpLinked, NamedAreGatekeepers,
           AsRoot, File, Kind, files
  <1> QED BY <1>1, <1>2, <1>3, <1>4, <1>5 DEF InstallerInv

\* A flag is set on an inode.
LEMMA K_LockKeeps == ASSUME InstallerInv, NEW p \in Proc, K_Lock(p) PROVE InstallerInv'
  <1> USE NameAssumption DEF K_Lock, At, Goto, Works, Refused, Error, First, Drop, InodeOf
  <1>t. TypeOK /\ Holding
    BY DEF InstallerInv
  <1>1. TypeOK'
    <2>1. faults' \in Nat /\ clean' \in [Proc -> BOOLEAN] /\ leftover' \in BOOLEAN
      BY <1>t, FailsTyped DEF TypeOK, bound
    <2>2. pc' \in [Proc -> Place] /\ tool' \in [Proc -> Tool \cup {NoFile}]
      BY <1>t DEF TypeOK, Place
    <2>3. todo' \in [Proc -> SUBSET Target] /\ done' \in [Proc -> SUBSET Tool]
      BY <1>t DEF TypeOK, Holding, Target, Policy
    <2>4. err' \in [Proc -> BOOLEAN]
      BY <1>t DEF TypeOK
    <2>5. policy' \in Policy /\ binary' \in Build /\ immutable' \subseteq Inode
      <3>1. PICK t \in Target :
                /\ immutable' \in {immutable, immutable \cup {InodeOf(t)}}
                /\ immutable' = immutable \/ InodeOf(t) # NoFile
        OBVIOUS
      <3>2. InodeOf(t) \in Inode \cup {NoFile}
        BY <1>t, InodeTyped
      <3> HIDE DEF InodeOf
      <3> QED BY <1>t, <3>1, <3>2 DEF TypeOK
    <2>6. entry' \in [Tool -> Kind] /\ bak' \in [Tool -> Kind]
      BY <1>t DEF TypeOK, files, Kind
    <2>7. dropin' \in File \cup {NoFile} /\ tmp' \in File \cup {NoFile}
      BY <1>t DEF TypeOK, files, File
    <2> QED BY <2>1, <2>2, <2>3, <2>4, <2>5, <2>6, <2>7 DEF TypeOK
  <1>2. Holding'
    BY DEF InstallerInv, TypeOK, Holding, files
  <1>3. DoneLinked'
    BY DEF InstallerInv, TypeOK, Holding, DoneLinked, AsRoot, Kind, files
  <1>4. TmpLinked'
    BY DEF InstallerInv, TypeOK, Holding, DoneLinked, TmpLinked, AsRoot, File, Kind, files
  <1>5. NamedAreGatekeepers'
    BY DEF InstallerInv, TypeOK, Holding, DoneLinked, TmpLinked, NamedAreGatekeepers,
           AsRoot, File, Kind, files
  <1> QED BY <1>1, <1>2, <1>3, <1>4, <1>5 DEF InstallerInv

\* A flag is cleared.
LEMMA K_UnlockKeeps == ASSUME InstallerInv, NEW p \in Proc, K_Unlock(p) PROVE InstallerInv'
  <1> USE NameAssumption DEF K_Unlock, At, Goto, Works, Refused, Error, First, Drop
  <1>t. TypeOK /\ Holding
    BY DEF InstallerInv
  <1>1. TypeOK'
    <2>1. faults' \in Nat /\ clean' \in [Proc -> BOOLEAN] /\ leftover' \in BOOLEAN
      BY <1>t, FailsTyped DEF TypeOK, bound
    <2>2. pc' \in [Proc -> Place] /\ tool' \in [Proc -> Tool \cup {NoFile}]
      BY <1>t DEF TypeOK, Place
    <2>3. todo' \in [Proc -> SUBSET Target] /\ done' \in [Proc -> SUBSET Tool]
      BY <1>t DEF TypeOK, Holding, Target, Policy
    <2>4. err' \in [Proc -> BOOLEAN]
      BY <1>t DEF TypeOK
    <2>5. policy' \in Policy /\ binary' \in Build /\ immutable' \subseteq Inode
      BY <1>t DEF TypeOK, files, Kind, Inode, Fixed
    <2>6. entry' \in [Tool -> Kind] /\ bak' \in [Tool -> Kind]
      BY <1>t DEF TypeOK, files, Kind
    <2>7. dropin' \in File \cup {NoFile} /\ tmp' \in File \cup {NoFile}
      BY <1>t DEF TypeOK, files, File
    <2> QED BY <2>1, <2>2, <2>3, <2>4, <2>5, <2>6, <2>7 DEF TypeOK
  <1>2. Holding'
    BY DEF InstallerInv, TypeOK, Holding, files
  <1>3. DoneLinked'
    BY DEF InstallerInv, TypeOK, Holding, DoneLinked, AsRoot, Kind, files
  <1>4. TmpLinked'
    BY DEF InstallerInv, TypeOK, Holding, DoneLinked, TmpLinked, AsRoot, File, Kind, files
  <1>5. NamedAreGatekeepers'
    BY DEF InstallerInv, TypeOK, Holding, DoneLinked, TmpLinked, NamedAreGatekeepers,
           AsRoot, File, Kind, files
  <1> QED BY <1>1, <1>2, <1>3, <1>4, <1>5 DEF InstallerInv

\* A command forgets what it has linked.
LEMMA K_EndKeeps == ASSUME InstallerInv, NEW p \in Proc, K_End(p) PROVE InstallerInv'
  <1> USE NameAssumption DEF K_End, At, Goto, Works, Refused, Error, Forget
  <1>t. TypeOK /\ Holding
    BY DEF InstallerInv
  <1>1. TypeOK'
    <2>1. faults' \in Nat /\ clean' \in [Proc -> BOOLEAN] /\ leftover' \in BOOLEAN
      BY <1>t, FailsTyped DEF TypeOK, bound
    <2>2. pc' \in [Proc -> Place] /\ tool' \in [Proc -> Tool \cup {NoFile}]
      BY <1>t DEF TypeOK, Place
    <2>3. todo' \in [Proc -> SUBSET Target] /\ done' \in [Proc -> SUBSET Tool]
      BY <1>t DEF TypeOK, Holding, Target, Policy
    <2>4. err' \in [Proc -> BOOLEAN]
      BY <1>t DEF TypeOK
    <2>5. policy' \in Policy /\ binary' \in Build /\ immutable' \subseteq Inode
      BY <1>t DEF TypeOK, files, Kind, Inode, Fixed
    <2>6. entry' \in [Tool -> Kind] /\ bak' \in [Tool -> Kind]
      BY <1>t DEF TypeOK, files, Kind
    <2>7. dropin' \in File \cup {NoFile} /\ tmp' \in File \cup {NoFile}
      BY <1>t DEF TypeOK, files, File
    <2> QED BY <2>1, <2>2, <2>3, <2>4, <2>5, <2>6, <2>7 DEF TypeOK
  <1>2. Holding'
    BY DEF InstallerInv, TypeOK, Holding, files
  <1>3. DoneLinked'
    BY DEF InstallerInv, TypeOK, Holding, DoneLinked, AsRoot, Kind, files
  <1>4. TmpLinked'
    BY DEF InstallerInv, TypeOK, Holding, DoneLinked, TmpLinked, AsRoot, File, Kind, files
  <1>5. NamedAreGatekeepers'
    BY DEF InstallerInv, TypeOK, Holding, DoneLinked, TmpLinked, NamedAreGatekeepers,
           AsRoot, File, Kind, files
  <1> QED BY <1>1, <1>2, <1>3, <1>4, <1>5 DEF InstallerInv

\* unlock links nothing.
LEMMA U_LoadKeeps == ASSUME InstallerInv, NEW p \in Proc, U_Load(p) PROVE InstallerInv'
  <1> USE NameAssumption DEF U_Load, At, Goto, Works, Refused, Error, Discovered, ManagedTargets
  <1>t. TypeOK /\ Holding
    BY DEF InstallerInv
  <1>1. TypeOK'
    <2>1. faults' \in Nat /\ clean' \in [Proc -> BOOLEAN] /\ leftover' \in BOOLEAN
      BY <1>t, FailsTyped DEF TypeOK, bound
    <2>2. pc' \in [Proc -> Place] /\ tool' \in [Proc -> Tool \cup {NoFile}]
      BY <1>t DEF TypeOK, Place
    <2>3. todo' \in [Proc -> SUBSET Target] /\ done' \in [Proc -> SUBSET Tool]
      BY <1>t DEF TypeOK, Holding, Target, Policy
    <2>4. err' \in [Proc -> BOOLEAN]
      BY <1>t DEF TypeOK
    <2>5. policy' \in Policy /\ binary' \in Build /\ immutable' \subseteq Inode
      BY <1>t DEF TypeOK, files, Kind, Inode, Fixed
    <2>6. entry' \in [Tool -> Kind] /\ bak' \in [Tool -> Kind]
      BY <1>t DEF TypeOK, files, Kind
    <2>7. dropin' \in File \cup {NoFile} /\ tmp' \in File \cup {NoFile}
      BY <1>t DEF TypeOK, files, File
    <2> QED BY <2>1, <2>2, <2>3, <2>4, <2>5, <2>6, <2>7 DEF TypeOK
  <1>2. Holding'
    BY DEF InstallerInv, TypeOK, Holding, files
  <1>3. DoneLinked'
    BY DEF InstallerInv, TypeOK, Holding, DoneLinked, AsRoot, Kind, files
  <1>4. TmpLinked'
    BY DEF InstallerInv, TypeOK, Holding, DoneLinked, TmpLinked, AsRoot, File, Kind, files
  <1>5. NamedAreGatekeepers'
    BY DEF InstallerInv, TypeOK, Holding, DoneLinked, TmpLinked, NamedAreGatekeepers,
           AsRoot, File, Kind, files
  <1> QED BY <1>1, <1>2, <1>3, <1>4, <1>5 DEF InstallerInv

\* A killed command leaves its files as they are.
LEMMA CrashKeeps == ASSUME InstallerInv, NEW p \in Proc, Crash(p) PROVE InstallerInv'
  <1> USE NameAssumption DEF Crash, At, Goto, Works, Refused, Error, Forget, Closed
  <1>t. TypeOK /\ Holding
    BY DEF InstallerInv
  <1>1. TypeOK'
    <2>1. faults' \in Nat /\ clean' \in [Proc -> BOOLEAN] /\ leftover' \in BOOLEAN
      BY <1>t, FailsTyped DEF TypeOK, bound
    <2>2. pc' \in [Proc -> Place] /\ tool' \in [Proc -> Tool \cup {NoFile}]
      BY <1>t DEF TypeOK, Place
    <2>3. todo' \in [Proc -> SUBSET Target] /\ done' \in [Proc -> SUBSET Tool]
      BY <1>t DEF TypeOK, Holding, Target, Policy
    <2>4. err' \in [Proc -> BOOLEAN]
      BY <1>t DEF TypeOK
    <2>5. policy' \in Policy /\ binary' \in Build /\ immutable' \subseteq Inode
      BY <1>t DEF TypeOK, files, Kind, Inode, Fixed
    <2>6. entry' \in [Tool -> Kind] /\ bak' \in [Tool -> Kind]
      BY <1>t DEF TypeOK, files, Kind
    <2>7. dropin' \in File \cup {NoFile} /\ tmp' \in File \cup {NoFile}
      BY <1>t DEF TypeOK, files, File
    <2> QED BY <2>1, <2>2, <2>3, <2>4, <2>5, <2>6, <2>7 DEF TypeOK
  <1>2. Holding'
    BY DEF InstallerInv, TypeOK, Holding, files
  <1>3. DoneLinked'
    BY DEF InstallerInv, TypeOK, Holding, DoneLinked, AsRoot, Kind, files
  <1>4. TmpLinked'
    BY DEF InstallerInv, TypeOK, Holding, DoneLinked, TmpLinked, AsRoot, File, Kind, files
  <1>5. NamedAreGatekeepers'
    BY DEF InstallerInv, TypeOK, Holding, DoneLinked, TmpLinked, NamedAreGatekeepers,
           AsRoot, File, Kind, files
  <1> QED BY <1>1, <1>2, <1>3, <1>4, <1>5 DEF InstallerInv

\* A new policy changes no entry.
LEMMA EditPolicyKeeps == ASSUME InstallerInv, EditPolicy PROVE InstallerInv'
  <1> USE DEF EditPolicy, local, bound
  <1>1. TypeOK'
    BY DEF InstallerInv, TypeOK
  <1>2. Holding' /\ DoneLinked'
    BY DEF InstallerInv, Holding, DoneLinked, AsRoot, At
  <1>3. TmpLinked' /\ NamedAreGatekeepers'
    BY DEF InstallerInv, TmpLinked, NamedAreGatekeepers, AsRoot
  <1> QED BY <1>1, <1>2, <1>3 DEF InstallerInv

\* An update changes the policy and its flags only.
LEMMA UpdatePolicyKeeps == ASSUME InstallerInv, UpdatePolicy PROVE InstallerInv'
  <1> USE DEF UpdatePolicy, local, bound
  <1>1. TypeOK'
    <2>1. policy' \in Policy
      BY DEF Policy
    <2>2. immutable' \subseteq Inode
      BY DEF InstallerInv, TypeOK, Inode, Fixed
    <2> QED BY <2>1, <2>2 DEF InstallerInv, TypeOK
  <1>2. Holding' /\ DoneLinked'
    BY DEF InstallerInv, Holding, DoneLinked, AsRoot, At
  <1>3. TmpLinked' /\ NamedAreGatekeepers'
    BY DEF InstallerInv, TmpLinked, NamedAreGatekeepers, AsRoot
  <1> QED BY <1>1, <1>2, <1>3 DEF InstallerInv

\* A new binary leaves the entries at their builds.
LEMMA UpgradeKeeps == ASSUME InstallerInv, Upgrade PROVE InstallerInv'
  <1> USE DEF Upgrade, local, bound
  <1>1. TypeOK'
    BY DEF InstallerInv, TypeOK
  <1>2. Holding' /\ DoneLinked'
    BY DEF InstallerInv, Holding, DoneLinked, AsRoot, At
  <1>3. TmpLinked' /\ NamedAreGatekeepers'
    BY DEF InstallerInv, TmpLinked, NamedAreGatekeepers, AsRoot
  <1> QED BY <1>1, <1>2, <1>3 DEF InstallerInv

\* Nothing is linked or being installed, and the drop-in does not name the path.
LEMMA PutFileKeeps == ASSUME InstallerInv, NEW t \in Tool, PutFile(t) PROVE InstallerInv'
  <1> USE DEF PutFile, local, bound
  <1>1. TypeOK'
    <2>1. entry' \in [Tool -> Kind]
      BY DEF InstallerInv, TypeOK, Kind
    <2> QED BY <2>1 DEF InstallerInv, TypeOK
  <1>2. Holding'
    BY DEF InstallerInv, Holding
  <1>3. DoneLinked'
    BY DEF InstallerInv, DoneLinked, AsRoot, At, Quiet
  <1>4. TmpLinked'
    BY DEF TmpLinked, At, Quiet
  <1>5. NamedAreGatekeepers'
    BY DEF InstallerInv, TypeOK, File, NamedAreGatekeepers
  <1> QED BY <1>1, <1>2, <1>3, <1>4, <1>5 DEF InstallerInv

\* A step of the system keeps the invariant.
LEMMA NextInvariant == InstallerInv /\ [Next]_vars => InstallerInv'
  <1> SUFFICES ASSUME InstallerInv, [Next]_vars PROVE InstallerInv' OBVIOUS
  <1>1. ASSUME NEW p \in Proc, Step(p) PROVE InstallerInv'
    BY <1>1, I_LoadKeeps, I_OpenKeeps, L_StatKeeps, L_UnlinkKeeps, L_BackupKeeps,
       L_LinkKeeps, D_BeginKeeps, D_NoDirectoryKeeps, D_CreateKeeps, D_WriteKeeps,
       D_CheckKeeps, D_RenameKeeps, G_CleanupKeeps, K_LockKeeps, K_UnlockKeeps,
       K_EndKeeps, U_LoadKeeps, CrashKeeps DEF Step
  <1>2. ASSUME Administer PROVE InstallerInv'
    BY <1>2, EditPolicyKeeps, UpdatePolicyKeeps, UpgradeKeeps, PutFileKeeps DEF Administer
  <1>3. ASSUME UNCHANGED vars PROVE InstallerInv'
    <2> USE <1>3 DEF vars, files, local, bound
    <2>1. TypeOK'
      BY DEF InstallerInv, TypeOK
    <2>2. Holding' /\ DoneLinked'
      BY DEF InstallerInv, Holding, DoneLinked, AsRoot, At
    <2>3. TmpLinked' /\ NamedAreGatekeepers'
      BY DEF InstallerInv, TmpLinked, NamedAreGatekeepers, AsRoot
    <2> QED BY <2>1, <2>2, <2>3 DEF InstallerInv
  <1> QED BY <1>1, <1>2, <1>3 DEF Next

\* The invariant of the installer, for any number of overlapping commands,
\* failing calls and crashes.
THEOREM Invariance == Spec => []InstallerInv
  BY InitInvariant, NextInvariant, PTL DEF Spec

\* Every reachable state of entry points, backups, drop-in and flags is well typed.
THEOREM TypeCorrect == Spec => []TypeOK
  <1>1. InstallerInv => TypeOK
    BY DEF InstallerInv
  <1> QED BY <1>1, Invariance, PTL

\* What the drop-in grants as root is always the gatekeeper.
THEOREM GatekeepersOnly == Spec => []NamedAreGatekeepers
  <1>1. InstallerInv => NamedAreGatekeepers
    BY DEF InstallerInv
  <1> QED BY <1>1, Invariance, PTL

-----------------------------------------------------------------------------
(***************************************************************************)
(* When one command runs at a time                                         *)
(***************************************************************************)

LEMMA InitSerial == Init => SerialInv
  BY NameAssumption
  DEF Init, SerialInv, Written, Locked, Sealed, Linking, Writing, Locking, At, Fixed

\* Loading the policy links nothing yet.
LEMMA I_Load_Serial ==
    ASSUME OneCommand, TypeOK, TypeOK', SerialInv, NEW p \in Proc, I_Load(p)
    PROVE  SerialInv'
  <1> USE NameAssumption
      DEF SerialInv, TypeOK, At, Goto, Error, Works, Refused, Fails, files, I_Load
  <1>1. Written'
    BY DEF Written, Writing, File
  <1>2. Locked'
    BY DEF Locked, Linking, Locking, InodeOf, ManagedTargets, Fixed, Target
  <1>3. Sealed'
    BY DEF Sealed, Written, Locked, Linking, Locking, File, Kind, Fixed
  <1>4. Linking(p)'
    BY DEF Linking, Policy, Target
  <1>5. Writing(p)'
    BY DEF Writing, Linking, File
  <1>6. Locking(p)'
    BY DEF Locking, Writing, Linking, Locked, InodeOf, ManagedTargets, Fixed, Target
  <1> QED BY <1>1, <1>2, <1>3, <1>4, <1>5, <1>6 DEF OneCommand

\* Without binary or directory nothing is linked, which is an error.
LEMMA I_Open_Serial ==
    ASSUME OneCommand, TypeOK, TypeOK', SerialInv, NEW p \in Proc, I_Open(p)
    PROVE  SerialInv'
  <1> USE NameAssumption
      DEF SerialInv, TypeOK, At, Goto, Error, Works, Refused, Fails, files, I_Open
  <1>1. Written'
    BY DEF Written, Writing, File
  <1>2. Locked'
    BY DEF Locked, Linking, Locking, InodeOf, ManagedTargets, Fixed, Target
  <1>3. Sealed'
    BY DEF Sealed, Written, Locked, Linking, Locking, File, Kind, Fixed
  <1>4. Linking(p)'
    BY DEF Linking, Policy, Target
  <1>5. Writing(p)'
    BY DEF Writing, Linking, File
  <1>6. Locking(p)'
    BY DEF Locking, Writing, Linking, Locked, InodeOf, ManagedTargets, Fixed, Target
  <1> QED BY <1>1, <1>2, <1>3, <1>4, <1>5, <1>6 DEF OneCommand

\* A name is recorded as linked only if it is a link to the present binary.
LEMMA L_Stat_Serial ==
    ASSUME OneCommand, TypeOK, TypeOK', SerialInv, NEW p \in Proc, L_Stat(p)
    PROVE  SerialInv'
  <1> USE NameAssumption
      DEF SerialInv, TypeOK, At, Goto, Error, Works, Refused, Fails, files, L_Stat, Treat,
          Replace, Linked, Skipped, First, Drop
  <1>1. Written'
    BY DEF Written, Writing, File
  <1>2. Locked'
    BY DEF Locked, Linking, Locking, InodeOf, ManagedTargets, Fixed, Target
  <1>3. Sealed'
    BY DEF Sealed, Written, Locked, Linking, Locking, File, Kind, Fixed
  <1>4. Linking(p)'
    BY DEF Linking, Policy, Target
  <1>5. Writing(p)'
    BY DEF Writing, Linking, File
  <1>6. Locking(p)'
    BY DEF Locking, Writing, Linking, Locked, InodeOf, ManagedTargets, Fixed, Target
  <1> QED BY <1>1, <1>2, <1>3, <1>4, <1>5, <1>6 DEF OneCommand

\* A locked link is not removed.
LEMMA L_Unlink_Serial ==
    ASSUME OneCommand, TypeOK, TypeOK', SerialInv, NEW p \in Proc, L_Unlink(p)
    PROVE  SerialInv'
  <1> USE NameAssumption
      DEF SerialInv, TypeOK, At, Goto, Error, Works, Refused, Fails, files, L_Unlink,
          Skipped, Drop
  <1>1. Written'
    BY DEF Written, Writing, File
  <1>2. Locked'
    BY DEF Locked, Linking, Locking, InodeOf, ManagedTargets, Fixed, Target
  <1>3. Sealed'
    BY DEF Sealed, Written, Locked, Linking, Locking, File, Kind, Fixed
  <1>4. Linking(p)'
    BY DEF Linking, Policy, Target
  <1>5. Writing(p)'
    BY DEF Writing, Linking, File
  <1>6. Locking(p)'
    BY DEF Locking, Writing, Linking, Locked, InodeOf, ManagedTargets, Fixed, Target
  <1> QED BY <1>1, <1>2, <1>3, <1>4, <1>5, <1>6 DEF OneCommand

\* A locked link is not moved.
LEMMA L_Backup_Serial ==
    ASSUME OneCommand, TypeOK, TypeOK', SerialInv, NEW p \in Proc, L_Backup(p)
    PROVE  SerialInv'
  <1> USE NameAssumption
      DEF SerialInv, TypeOK, At, Goto, Error, Works, Refused, Fails, files, L_Backup,
          Skipped, Drop, CannotRename, SameInode
  <1>1. Written'
    BY DEF Written, Writing, File
  <1>2. Locked'
    BY DEF Locked, Linking, Locking, InodeOf, ManagedTargets, Fixed, Target
  <1>3. Sealed'
    BY DEF Sealed, Written, Locked, Linking, Locking, File, Kind, Fixed
  <1>4. Linking(p)'
    BY DEF Linking, Policy, Target
  <1>5. Writing(p)'
    BY DEF Writing, Linking, File
  <1>6. Locking(p)'
    BY DEF Locking, Writing, Linking, Locked, InodeOf, ManagedTargets, Fixed, Target
  <1> QED BY <1>1, <1>2, <1>3, <1>4, <1>5, <1>6 DEF OneCommand

\* The new link is a link to the present binary.
LEMMA L_Link_Serial ==
    ASSUME OneCommand, TypeOK, TypeOK', SerialInv, NEW p \in Proc, L_Link(p)
    PROVE  SerialInv'
  <1> USE NameAssumption
      DEF SerialInv, TypeOK, At, Goto, Error, Works, Refused, Fails, files, L_Link, Linked,
          Skipped, Drop, CannotLink
  <1>1. Written'
    BY DEF Written, Writing, File
  <1>2. Locked'
    BY DEF Locked, Linking, Locking, InodeOf, ManagedTargets, Fixed, Target
  <1>3. Sealed'
    BY DEF Sealed, Written, Locked, Linking, Locking, File, Kind, Fixed
  <1>4. Linking(p)'
    BY DEF Linking, Policy, Target
  <1>5. Writing(p)'
    BY DEF Writing, Linking, File
  <1>6. Locking(p)'
    BY DEF Locking, Writing, Linking, Locked, InodeOf, ManagedTargets, Fixed, Target
  <1> QED BY <1>1, <1>2, <1>3, <1>4, <1>5, <1>6 DEF OneCommand

\* Every tool has been treated.
LEMMA D_Begin_Serial ==
    ASSUME OneCommand, TypeOK, TypeOK', SerialInv, NEW p \in Proc, D_Begin(p)
    PROVE  SerialInv'
  <1> USE NameAssumption
      DEF SerialInv, TypeOK, At, Goto, Error, Works, Refused, Fails, files, D_Begin
  <1>1. Written'
    BY DEF Written, Writing, File
  <1>2. Locked'
    BY DEF Locked, Linking, Locking, InodeOf, ManagedTargets, Fixed, Target
  <1>3. Sealed'
    BY DEF Sealed, Written, Locked, Linking, Locking, File, Kind, Fixed
  <1>4. Linking(p)'
    <2>1. done[p] \cup todo[p] = done[p]
      OBVIOUS
    <2>2. /\ pc[p] = "stat" /\ pc'[p] = "create" /\ done'[p] = done[p] /\ err'[p] = err[p]
          /\ entry' = entry /\ binary' = binary /\ policy' = policy
      OBVIOUS
    <2>3. Linking(p)
      OBVIOUS
    <2> QED BY <2>1, <2>2, <2>3 DEF Linking
  <1>5. Writing(p)'
    BY DEF Writing, Linking, File
  <1>6. Locking(p)'
    BY DEF Locking, Writing, Linking, Locked, InodeOf, ManagedTargets, Fixed, Target
  <1> QED BY <1>1, <1>2, <1>3, <1>4, <1>5, <1>6 DEF OneCommand

\* Nothing is written.
LEMMA D_NoDirectory_Serial ==
    ASSUME OneCommand, TypeOK, TypeOK', SerialInv, NEW p \in Proc, D_NoDirectory(p)
    PROVE  SerialInv'
  <1> USE NameAssumption
      DEF SerialInv, TypeOK, At, Goto, Error, Works, Refused, Fails, files, D_NoDirectory,
          Forget
  <1>1. Written'
    BY DEF Written, Writing, File
  <1>2. Locked'
    BY DEF Locked, Linking, Locking, InodeOf, ManagedTargets, Fixed, Target
  <1>3. Sealed'
    BY DEF Sealed, Written, Locked, Linking, Locking, File, Kind, Fixed
  <1>4. Linking(p)'
    BY DEF Linking, Policy, Target
  <1>5. Writing(p)'
    BY DEF Writing, Linking, File
  <1>6. Locking(p)'
    BY DEF Locking, Writing, Linking, Locked, InodeOf, ManagedTargets, Fixed, Target
  <1> QED BY <1>1, <1>2, <1>3, <1>4, <1>5, <1>6 DEF OneCommand

\* The temporary file is new.
LEMMA D_Create_Serial ==
    ASSUME OneCommand, TypeOK, TypeOK', SerialInv, NEW p \in Proc, D_Create(p)
    PROVE  SerialInv'
  <1> USE NameAssumption
      DEF SerialInv, TypeOK, At, Goto, Error, Works, Refused, Fails, files, D_Create
  <1>1. Written'
    BY DEF Written, Writing, File
  <1>2. Locked'
    BY DEF Locked, Linking, Locking, InodeOf, ManagedTargets, Fixed, Target
  <1>3. Sealed'
    BY DEF Sealed, Written, Locked, Linking, Locking, File, Kind, Fixed
  <1>4. Linking(p)'
    BY DEF Linking, Policy, Target
  <1>5. Writing(p)'
    <2>1. [tools |-> {}, whole |-> FALSE, by |-> p] \in File
      BY DEF File
    <2> DEFINE new == [tools |-> {}, whole |-> FALSE, by |-> p]
    <2>2. pc'[p] = "write" => tmp' = new
      OBVIOUS
    <2>3. new # NoFile /\ new.by = p
      BY <2>1
    <2>4. pc'[p] \in {"write", "cleanup"}
      OBVIOUS
    <2> HIDE DEF new
    <2> QED BY <2>2, <2>3, <2>4 DEF Writing
  <1>6. Locking(p)'
    BY DEF Locking, Writing, Linking, Locked, InodeOf, ManagedTargets, Fixed, Target
  <1> QED BY <1>1, <1>2, <1>3, <1>4, <1>5, <1>6 DEF OneCommand

\* What is written is written whole, to the temporary file.
LEMMA D_Write_Serial ==
    ASSUME OneCommand, TypeOK, TypeOK', SerialInv, NEW p \in Proc, D_Write(p)
    PROVE  SerialInv'
  <1> USE NameAssumption
      DEF SerialInv, TypeOK, At, Goto, Error, Works, Refused, Fails, files, D_Write, Write,
          Content, Filled, Closed
  <1>1. Written'
    BY DEF Written, Writing, File
  <1>2. Locked'
    <2>1. dropin # NoFile => dropin' # NoFile
      BY DEF Written
    <2> QED BY <2>1 DEF Locked
  <1>3. Sealed'
    BY DEF Sealed, Written, Locked, Linking, Locking, File, Kind, Fixed
  <1>4. Linking(p)'
    BY DEF Linking, Policy, Target
  <1>5. Writing(p)'
    <2>1. [tools |-> done[p], whole |-> TRUE, by |-> NoFile] \in File
      BY DEF File
    <2> DEFINE new == [tools |-> done[p], whole |-> TRUE, by |-> NoFile]
    <2>2. pc'[p] = "check" => tmp' = new /\ done'[p] = done[p]
      BY DEF Writing
    <2>3. new # NoFile /\ new.whole /\ new.by = NoFile /\ new.tools = done[p]
      BY <2>1
    <2>4. pc'[p] \in {"check", "cleanup"}
      OBVIOUS
    <2> HIDE DEF new
    <2> QED BY <2>2, <2>3, <2>4 DEF Writing
  <1>6. Locking(p)'
    BY DEF Locking, Writing, Linking, Locked, InodeOf, ManagedTargets, Fixed, Target
  <1> QED BY <1>1, <1>2, <1>3, <1>4, <1>5, <1>6 DEF OneCommand

\* A whole file is accepted.
LEMMA D_Check_Serial ==
    ASSUME OneCommand, TypeOK, TypeOK', SerialInv, NEW p \in Proc, D_Check(p)
    PROVE  SerialInv'
  <1> USE NameAssumption
      DEF SerialInv, TypeOK, At, Goto, Error, Works, Refused, Fails, files, D_Check
  <1>1. Written'
    BY DEF Written, Writing, File
  <1>2. Locked'
    BY DEF Locked, Linking, Locking, InodeOf, ManagedTargets, Fixed, Target
  <1>3. Sealed'
    BY DEF Sealed, Written, Locked, Linking, Locking, File, Kind, Fixed
  <1>4. Linking(p)'
    BY DEF Linking, Policy, Target
  <1>5. Writing(p)'
    BY DEF Writing, Linking, File
  <1>6. Locking(p)'
    BY DEF Locking, Writing, Linking, Locked, InodeOf, ManagedTargets, Fixed, Target
  <1> QED BY <1>1, <1>2, <1>3, <1>4, <1>5, <1>6 DEF OneCommand

\* The drop-in becomes the temporary file, if it is not locked.
LEMMA D_Rename_Serial ==
    ASSUME OneCommand, TypeOK, TypeOK', SerialInv, NEW p \in Proc, D_Rename(p)
    PROVE  SerialInv'
  <1> USE NameAssumption
      DEF SerialInv, TypeOK, At, Goto, Error, Works, Refused, Fails, files, D_Rename
  <1>1. Written'
    BY DEF Written, Writing, File
  <1>2. Locked'
    BY DEF Locked, Linking, Locking, InodeOf, ManagedTargets, Fixed, Target
  <1>3. Sealed'
    BY DEF Sealed, Written, Locked, Linking, Locking, File, Kind, Fixed
  <1>4. Linking(p)'
    BY DEF Linking, Policy, Target
  <1>5. Writing(p)'
    BY DEF Writing, Linking, File
  <1>6. Locking(p)'
    BY DEF Locking, Writing, Linking, Locked, InodeOf, ManagedTargets, Fixed, Target
  <1> QED BY <1>1, <1>2, <1>3, <1>4, <1>5, <1>6 DEF OneCommand

\* The temporary file is removed.
LEMMA G_Cleanup_Serial ==
    ASSUME OneCommand, TypeOK, TypeOK', SerialInv, NEW p \in Proc, G_Cleanup(p)
    PROVE  SerialInv'
  <1> USE NameAssumption
      DEF SerialInv, TypeOK, At, Goto, Error, Works, Refused, Fails, files, G_Cleanup, Forget
  <1>1. Written'
    BY DEF Written, Writing, File
  <1>2. Locked'
    BY DEF Locked, Linking, Locking, InodeOf, ManagedTargets, Fixed, Target
  <1>3. Sealed'
    BY DEF Sealed, Written, Locked, Linking, Locking, File, Kind, Fixed
  <1>4. Linking(p)'
    BY DEF Linking, Policy, Target
  <1>5. Writing(p)'
    BY DEF Writing, Linking, File
  <1>6. Locking(p)'
    BY DEF Locking, Writing, Linking, Locked, InodeOf, ManagedTargets, Fixed, Target
  <1> QED BY <1>1, <1>2, <1>3, <1>4, <1>5, <1>6 DEF OneCommand

\* One more path is locked.
LEMMA K_Lock_Serial ==
    ASSUME OneCommand, TypeOK, TypeOK', SerialInv, NEW p \in Proc, K_Lock(p)
    PROVE  SerialInv'
  <1> USE NameAssumption
      DEF SerialInv, TypeOK, At, Goto, Error, Works, Refused, Fails, files, K_Lock, First, Drop
  <1>1. Written'
    BY DEF Written, Writing, File
  <1>2. Locked'
    BY DEF Locked, Linking, Locking, InodeOf, ManagedTargets, Fixed, Target
  <1>3. Sealed'
    BY DEF Sealed, Written, Locked, Linking, Locking, File, Kind, Fixed
  <1>4. Linking(p)'
    BY DEF Linking, Policy, Target
  <1>5. Writing(p)'
    BY DEF Writing, Linking, File
  <1>6. Locking(p)'
    BY DEF Locking, Writing, Linking, Locked, InodeOf, ManagedTargets, Fixed, Target
  <1> QED BY <1>1, <1>2, <1>3, <1>4, <1>5, <1>6 DEF OneCommand

\* One more path is unlocked.
LEMMA K_Unlock_Serial ==
    ASSUME OneCommand, TypeOK, TypeOK', SerialInv, NEW p \in Proc, K_Unlock(p)
    PROVE  SerialInv'
  <1> USE NameAssumption
      DEF SerialInv, TypeOK, At, Goto, Error, Works, Refused, Fails, files, K_Unlock, First,
          Drop
  <1>1. Written'
    BY DEF Written, Writing, File
  <1>2. Locked'
    BY DEF Locked, Linking, Locking, InodeOf, ManagedTargets, Fixed, Target
  <1>3. Sealed'
    BY DEF Sealed, Written, Locked, Linking, Locking, File, Kind, Fixed
  <1>4. Linking(p)'
    BY DEF Linking, Policy, Target
  <1>5. Writing(p)'
    BY DEF Writing, Linking, File
  <1>6. Locking(p)'
    BY DEF Locking, Writing, Linking, Locked, InodeOf, ManagedTargets, Fixed, Target
  <1> QED BY <1>1, <1>2, <1>3, <1>4, <1>5, <1>6 DEF OneCommand

\* The command returns.
LEMMA K_End_Serial ==
    ASSUME OneCommand, TypeOK, TypeOK', SerialInv, NEW p \in Proc, K_End(p)
    PROVE  SerialInv'
  <1> USE NameAssumption
      DEF SerialInv, TypeOK, At, Goto, Error, Works, Refused, Fails, files, K_End, Forget
  <1>1. Written'
    BY DEF Written, Writing, File
  <1>2. Locked'
    BY DEF Locked, Linking, Locking, InodeOf, ManagedTargets, Fixed, Target
  <1>3. Sealed'
    BY DEF Sealed, Written, Locked, Linking, Locking, File, Kind, Fixed
  <1>4. Linking(p)'
    BY DEF Linking, Policy, Target
  <1>5. Writing(p)'
    BY DEF Writing, Linking, File
  <1>6. Locking(p)'
    BY DEF Locking, Writing, Linking, Locked, InodeOf, ManagedTargets, Fixed, Target
  <1> QED BY <1>1, <1>2, <1>3, <1>4, <1>5, <1>6 DEF OneCommand

\* What is locked is the file of a name outside the policy.
LEMMA LockedNames ==
    ASSUME Locked
    PROVE  \A i \in immutable : \E t \in Fixed : InodeOf(t) = i
  <1> TAKE i \in immutable
  <1>1. CASE i = binary
    <2>1. InodeOf("binary") = i
      BY <1>1, NameAssumption DEF InodeOf, Fixed
    <2> QED BY <2>1 DEF Fixed
  <1>2. CASE i # binary
    <2>1. i \in Fixed /\ i # "binary" /\ i \notin Tool /\ (i = "dropin" => dropin # NoFile)
      BY <1>2, NameAssumption DEF Locked
    <2>2. InodeOf(i) = i
      BY <2>1 DEF InodeOf
    <2> QED BY <2>1, <2>2
  <1> QED BY <1>1, <1>2

\* Everything that may be locked is to be unlocked.
LEMMA U_Load_Serial ==
    ASSUME OneCommand, TypeOK, TypeOK', SerialInv, NEW p \in Proc, U_Load(p)
    PROVE  SerialInv'
  <1> USE NameAssumption
      DEF SerialInv, TypeOK, At, Goto, Error, Works, Refused, Fails, files, U_Load
  <1>1. Written'
    BY DEF Written, Writing, File
  <1>2. Locked'
    BY DEF Locked, Linking, Locking, InodeOf, ManagedTargets, Fixed, Target
  <1>3. Sealed'
    BY DEF Sealed, Written, Locked, Linking, Locking, File, Kind, Fixed
  <1>4. Linking(p)'
    BY DEF Linking, Policy, Target
  <1>5. Writing(p)'
    BY DEF Writing, Linking, File
  <1>6. Locking(p)'
    <2>1. /\ pc'[p] = "unlock" /\ Fixed \subseteq todo'[p]
          /\ immutable' = immutable /\ binary' = binary /\ dropin' = dropin
      BY DEF ManagedTargets
    <2>3. \A i \in immutable : \E t \in Fixed : InodeOf(t)' = i
      <3>1. UNCHANGED <<entry, binary, dropin>>
        BY <2>1
      <3>2. Locked
        OBVIOUS
      <3> HIDE DEF SerialInv, TypeOK, At, Goto, Error, Works, Refused, Fails, files, U_Load
      <3>3. \A t : InodeOf(t)' = InodeOf(t)
        BY <3>1 DEF InodeOf
      <3> QED BY <3>2, <3>3, LockedNames
    <2> QED BY <2>1, <2>3 DEF Locking
  <1> QED BY <1>1, <1>2, <1>3, <1>4, <1>5, <1>6 DEF OneCommand

\* A killed command has not touched the drop-in's content.
LEMMA Crash_Serial ==
    ASSUME OneCommand, TypeOK, TypeOK', SerialInv, NEW p \in Proc, Crash(p)
    PROVE  SerialInv'
  <1> USE NameAssumption
      DEF SerialInv, TypeOK, At, Goto, Error, Works, Refused, Fails, files, Crash, Forget,
          Closed
  <1>1. Written'
    BY DEF Written, Writing, File
  <1>2. Locked'
    <2>1. dropin # NoFile => dropin' # NoFile
      BY DEF Written
    <2> QED BY <2>1 DEF Locked
  <1>3. Sealed'
    BY DEF Sealed, Written, Locked, Linking, Locking, File, Kind, Fixed
  <1>4. Linking(p)'
    BY DEF Linking, Policy, Target
  <1>5. Writing(p)'
    BY DEF Writing, Linking, File
  <1>6. Locking(p)'
    BY DEF Locking, Writing, Linking, Locked, InodeOf, ManagedTargets, Fixed, Target
  <1> QED BY <1>1, <1>2, <1>3, <1>4, <1>5, <1>6 DEF OneCommand

\* The administrator edits the policy, which links nothing.
LEMMA EditPolicy_Serial ==
    ASSUME TypeOK, SerialInv, EditPolicy
    PROVE  SerialInv'
  <1> USE NameAssumption DEF SerialInv, TypeOK, At, Quiet, local, bound, EditPolicy
  <1>1. Written' /\ Locked'
    BY DEF Written, Locked, Fixed
  <1>2. Sealed'
    BY DEF Sealed, Written, Locked, File, Fixed
  <1>3. ASSUME NEW p \in Proc PROVE Linking(p)' /\ Writing(p)' /\ Locking(p)'
    BY <1>3 DEF Linking, Writing, Locking
  <1> QED BY <1>1, <1>2, <1>3

\* A new policy is locked with its signature.
LEMMA UpdatePolicy_Serial ==
    ASSUME TypeOK, SerialInv, UpdatePolicy
    PROVE  SerialInv'
  <1> USE NameAssumption DEF SerialInv, TypeOK, At, Quiet, local, bound, UpdatePolicy
  <1>1. Written' /\ Locked'
    BY DEF Written, Locked, Fixed
  <1>2. Sealed'
    BY DEF Sealed, Written, Locked, File, Fixed
  <1>3. ASSUME NEW p \in Proc PROVE Linking(p)' /\ Writing(p)' /\ Locking(p)'
    BY <1>3 DEF Linking, Writing, Locking
  <1> QED BY <1>1, <1>2, <1>3

\* A new binary is not locked, so nothing is sealed by it.
LEMMA Upgrade_Serial ==
    ASSUME TypeOK, SerialInv, Upgrade
    PROVE  SerialInv'
  <1> USE NameAssumption DEF SerialInv, TypeOK, At, Quiet, local, bound, Upgrade
  <1>1. Written' /\ Locked'
    BY DEF Written, Locked, Fixed
  <1>2. Sealed'
    BY DEF Sealed, Written, Locked, File, Fixed
  <1>3. ASSUME NEW p \in Proc PROVE Linking(p)' /\ Writing(p)' /\ Locking(p)'
    BY <1>3 DEF Linking, Writing, Locking
  <1> QED BY <1>1, <1>2, <1>3

\* A program is put where the drop-in names none.
LEMMA PutFile_Serial ==
    ASSUME TypeOK, SerialInv, NEW t \in Tool, PutFile(t)
    PROVE  SerialInv'
  <1> USE NameAssumption DEF SerialInv, TypeOK, At, Quiet, local, bound, PutFile
  <1>1. Written' /\ Locked'
    BY DEF Written, Locked, Fixed
  <1>2. Sealed'
    BY DEF Sealed, Written, Locked, File, Fixed
  <1>3. ASSUME NEW p \in Proc PROVE Linking(p)' /\ Writing(p)' /\ Locking(p)'
    BY <1>3 DEF Linking, Writing, Locking
  <1> QED BY <1>1, <1>2, <1>3

\* A step of the system keeps the invariant, when there is one command at a time.
LEMMA NextSerial ==
    ASSUME OneCommand, TypeOK, TypeOK', SerialInv, [Next]_vars
    PROVE  SerialInv'
  <1>1. ASSUME NEW p \in Proc, Step(p) PROVE SerialInv'
    BY <1>1, I_Load_Serial, I_Open_Serial, L_Stat_Serial, L_Unlink_Serial, L_Backup_Serial,
       L_Link_Serial, D_Begin_Serial, D_NoDirectory_Serial, D_Create_Serial, D_Write_Serial,
       D_Check_Serial, D_Rename_Serial, G_Cleanup_Serial, K_Lock_Serial, K_Unlock_Serial,
       K_End_Serial, U_Load_Serial, Crash_Serial DEF Step
  <1>2. ASSUME Administer PROVE SerialInv'
    BY <1>2, EditPolicy_Serial, UpdatePolicy_Serial, Upgrade_Serial, PutFile_Serial
    DEF Administer
  <1>3. ASSUME UNCHANGED vars PROVE SerialInv'
    <2> USE <1>3 DEF SerialInv, vars, files, local, bound, At
    <2>1. Written' /\ Locked' /\ Sealed'
      BY DEF Written, Locked, Sealed
    <2>2. ASSUME NEW p \in Proc PROVE Linking(p)' /\ Writing(p)' /\ Locking(p)'
      BY <2>2 DEF Linking, Writing, Locking, InodeOf
    <2> QED BY <2>1, <2>2
  <1> QED BY <1>1, <1>2, <1>3 DEF Next

\* The invariant of one command at a time, for any tools, builds, failures and crashes.
THEOREM SerialInvariance == ASSUME OneCommand PROVE Spec => []SerialInv
  <1>1. TypeOK /\ TypeOK' /\ SerialInv /\ [Next]_vars => SerialInv'
    BY NextSerial
  <1> QED BY <1>1, InitSerial, TypeCorrect, PTL DEF Spec

\* The drop-in in force is never half a file.
THEOREM NeverHalf == ASSUME OneCommand PROVE Spec => []DropInWhole
  <1>1. SerialInv => DropInWhole
    BY DEF SerialInv, Written, DropInWhole
  <1> QED BY <1>1, SerialInvariance, PTL

\* What is locked is the gatekeeper of the present build, under every name granted.
THEOREM SealedIsPresent == ASSUME OneCommand PROVE Spec => []Sealed
  <1>1. SerialInv => Sealed
    BY DEF SerialInv
  <1> QED BY <1>1, SerialInvariance, PTL

\* install that returns Ok has installed the whole policy and locked it.
THEOREM OkIsComplete == ASSUME OneCommand PROVE Spec => []InstallOkComplete
  <1>1. ASSUME SerialInv, NEW p \in Proc, At(p, "lock"), todo[p] = {}, ~err[p]
        PROVE  /\ dropin.whole /\ dropin.tools = policy.tools
               /\ \A t \in policy.tools : entry[t] = binary
               /\ (Fixed \ {"binary"}) \cup {binary} \subseteq immutable
    <2> USE <1>1 DEF SerialInv, At
    <2>1. done[p] = policy.tools /\ \A t \in done[p] : entry[t] = binary
      BY DEF Linking
    <2>2. dropin # NoFile /\ dropin.whole /\ dropin.tools = done[p]
      BY DEF Locking, Written
    <2>3. \A t \in Fixed : InodeOf(t) \in immutable
      BY DEF Locking, ManagedTargets
    <2>4. \A t \in Fixed \ {"binary"} : InodeOf(t) = t
      BY <2>2, NameAssumption DEF InodeOf, Fixed
    <2>5. InodeOf("binary") = binary
      BY NameAssumption DEF InodeOf, Fixed
    <2>6. (Fixed \ {"binary"}) \cup {binary} \subseteq immutable
      BY <2>3, <2>4, <2>5 DEF Fixed
    <2> QED BY <2>1, <2>2, <2>6
  <1>2. SerialInv => InstallOkComplete
    BY <1>1 DEF InstallOkComplete
  <1> QED BY <1>2, SerialInvariance, PTL

\* unlock that returns Ok leaves nothing locked.
THEOREM OkIsFree == ASSUME OneCommand PROVE Spec => []UnlockOkFrees
  <1>1. SerialInv => UnlockOkFrees
    BY DEF SerialInv, Locking, UnlockOkFrees, At
  <1> QED BY <1>1, SerialInvariance, PTL

-----------------------------------------------------------------------------
(* An install that starts clean, and the files of the users                *)

\* The steps of a command that leave the entry points and their backups alone.
OtherStep(p) ==
    \/ I_Load(p) \/ I_Open(p) \/ L_Stat(p)
    \/ D_Begin(p) \/ D_NoDirectory(p) \/ D_Create(p) \/ D_Write(p) \/ D_Check(p)
    \/ D_Rename(p) \/ G_Cleanup(p) \/ K_Lock(p) \/ K_Unlock(p) \/ K_End(p) \/ U_Load(p)
    \/ Crash(p)

LEMMA OtherStepEntries ==
    ASSUME NEW p \in Proc, OtherStep(p)
    PROVE  UNCHANGED <<binary, entry, bak>>
  BY DEF OtherStep, I_Load, I_Open, L_Stat, Treat, D_Begin, D_NoDirectory, D_Create, D_Write,
         Write, D_Check, D_Rename, G_Cleanup, K_Lock, K_Unlock, K_End, U_Load, Crash, files

LEMMA BackupsStep ==
    ASSUME InstallerInv, Backups, \A p \in Proc : InHand(p), Next
    PROVE  Backups'
  <1> USE NameAssumption DEF Backups, InstallerInv, TypeOK
  <1>1. ASSUME NEW p \in Proc, OtherStep(p) PROVE Backups'
    BY <1>1, OtherStepEntries
  <1>2. ASSUME NEW p \in Proc, L_Unlink(p) PROVE Backups'
    BY <1>2 DEF L_Unlink
  <1>3. ASSUME NEW p \in Proc, L_Backup(p) PROVE Backups'
    BY <1>3 DEF L_Backup, InHand, Holding, At, Foreign
  <1>4. ASSUME NEW p \in Proc, L_Link(p) PROVE Backups'
    BY <1>4 DEF L_Link
  <1>5. CASE EditPolicy \/ UpdatePolicy
    BY <1>5 DEF EditPolicy, UpdatePolicy
  <1>6. CASE Upgrade
    BY <1>6 DEF Upgrade
  <1>7. ASSUME NEW t \in Tool, PutFile(t) PROVE Backups'
    BY <1>7 DEF PutFile
  <1> QED BY <1>1, <1>2, <1>3, <1>4, <1>5, <1>6, <1>7 DEF Next, Step, OtherStep, Administer

\* The name in hand is looked at, freed and linked by one command.
LEMMA InHandStep ==
    ASSUME InstallerInv, Backups, NEW p \in Proc, InHand(p), Step(p)
    PROVE  InHand(p)'
  <1> USE NameAssumption DEF InHand, InstallerInv, TypeOK, At, Goto
  <1>1. CASE L_Stat(p)
    <2>1. PICK t \in Tool :
            /\ tool' = [tool EXCEPT ![p] = t]
            /\ \/ pc' = [pc EXCEPT ![p] = "stat"]
               \/ entry[t] \notin {binary, "dir"} /\ pc' = [pc EXCEPT ![p] = Replace(entry[t])]
      BY <1>1 DEF L_Stat, Treat, Linked, Skipped
    <2>2. entry' = entry /\ binary' = binary /\ tool'[p] = t
      BY <1>1, <2>1 DEF L_Stat, Treat, files
    <2>3. entry[t] \in Build \cup Foreign \cup {NoFile}
      BY DEF Kind
    <2> QED BY <2>1, <2>2, <2>3 DEF Replace, Foreign
  <1>2. CASE L_Unlink(p)
    BY <1>2 DEF L_Unlink, Holding, Skipped
  <1>3. CASE L_Backup(p)
    <2>1. tool[p] \in Tool /\ (entry[tool[p]] = bak[tool[p]] => entry[tool[p]] \notin Build)
      BY <1>3 DEF L_Backup, Holding, Backups
    <2>2. \/ pc' = [pc EXCEPT ![p] = "stat"]
          \/ pc' = [pc EXCEPT ![p] = "link"] /\ entry'[tool[p]] = NoFile
          \/ /\ pc' = [pc EXCEPT ![p] = "link"] /\ UNCHANGED <<entry, bak>>
             /\ SameInode(entry[tool[p]], bak[tool[p]])
      BY <1>3, <2>1 DEF L_Backup, Skipped
    <2>3. tool' = tool
      BY <1>3 DEF L_Backup
    <2> QED BY <2>1, <2>2, <2>3 DEF SameInode, Bars
  <1>4. CASE L_Link(p)
    BY <1>4 DEF L_Link, Linked, Skipped
  <1>5. CASE OtherStep(p) /\ ~L_Stat(p)
    <2>1. pc'[p] \notin {"unlink", "backup", "link"}
      BY <1>5 DEF OtherStep, I_Load, I_Open, D_Begin, D_NoDirectory, D_Create, D_Write, Write,
            D_Check, D_Rename, G_Cleanup, K_Lock, K_Unlock, K_End, U_Load, Crash, Forget
    <2> QED BY <2>1
  <1> QED BY <1>1, <1>2, <1>3, <1>4, <1>5 DEF Step, OtherStep

\* The temporary file is the command's own, or removed, or recorded as left behind.
LEMMA LeftoverStep ==
    ASSUME TypeOK, NEW p \in Proc, Leftover(p), Step(p)
    PROVE  Leftover(p)'
  <1> USE DEF Leftover, TypeOK, At, Goto
  <1>1. CASE I_Load(p) \/ I_Open(p) \/ L_Stat(p)
    BY <1>1 DEF I_Load, I_Open, L_Stat, Treat, files
  <1>2. CASE L_Unlink(p) \/ L_Backup(p) \/ L_Link(p)
    BY <1>2 DEF L_Unlink, L_Backup, L_Link
  <1>3. CASE D_Begin(p) \/ D_NoDirectory(p) \/ K_End(p) \/ U_Load(p)
    BY <1>3 DEF D_Begin, D_NoDirectory, K_End, U_Load, files, bound
  <1>4. CASE D_Create(p) \/ D_Write(p) \/ D_Check(p)
    BY <1>4 DEF D_Create, D_Write, Write, D_Check, files
  <1>5. CASE D_Rename(p)
    BY <1>5 DEF D_Rename
  <1>6. CASE G_Cleanup(p)
    BY <1>6 DEF G_Cleanup
  <1>7. CASE K_Lock(p) \/ K_Unlock(p)
    BY <1>7 DEF K_Lock, K_Unlock
  <1>8. CASE Crash(p)
    BY <1>8 DEF Crash, Closed
  <1> QED BY <1>1, <1>2, <1>3, <1>4, <1>5, <1>6, <1>7, <1>8 DEF Step

\* A call is refused to a clean command only if it fails, which ends its being clean.
LEMMA CleanStep ==
    ASSUME InstallerInv, SerialInv, Backups, NEW p \in Proc, InHand(p), Leftover(p), Clean(p),
           Step(p)
    PROVE  Clean(p)'
  <1> USE NameAssumption
      DEF Clean, InstallerInv, SerialInv, TypeOK, At, Goto, Works, Fails, Refused, Error
  <1>1. CASE I_Load(p)
    BY <1>1 DEF I_Load, files, Linking, Policy, Bars
  <1>2. CASE I_Open(p)
    BY <1>2 DEF I_Open, files, Bars
  <1>3. CASE L_Stat(p)
    BY <1>3 DEF L_Stat, Treat, First, Linked, Skipped, Drop, Replace, files, Bars
  <1>4. CASE L_Unlink(p)
    <2>1. /\ tool[p] \in Tool /\ entry[tool[p]] = "symlink" /\ pc[p] = "unlink"
          /\ clean'[p] => clean[p]
      BY <1>4 DEF L_Unlink, InHand, Holding
    <2>2. clean'[p] => /\ entry' = [entry EXCEPT ![tool[p]] = NoFile] /\ pc'[p] = "link"
                       /\ UNCHANGED <<bak, todo, err, immutable, leftover>>
      BY <1>4, <2>1 DEF L_Unlink, Foreign
    <2>3. clean'[p] => todo[p] \subseteq Tool
      BY <2>1 DEF Linking, Policy
    <2>4. clean'[p] => \A t \in todo'[p] : ~Bars(t)'
      BY <2>1, <2>2, <2>3 DEF Bars, Foreign
    <2> QED BY <2>1, <2>2, <2>4
  <1>5. CASE L_Backup(p)
    <2>1. /\ tool[p] \in Tool /\ entry[tool[p]] # NoFile /\ pc[p] = "backup"
          /\ entry[tool[p]] \in Program \cup (Build \ {binary})
          /\ clean'[p] => clean[p]
      BY <1>5 DEF L_Backup, InHand, Holding, Foreign
    <2>2. clean'[p] => ~SameInode(entry[tool[p]], bak[tool[p]])
      BY <2>1 DEF Linking, Bars, Backups, SameInode
    <2>3. clean'[p] => /\ bak' = [bak EXCEPT ![tool[p]] = entry[tool[p]]]
                       /\ entry' = [entry EXCEPT ![tool[p]] = NoFile] /\ pc'[p] = "link"
                       /\ UNCHANGED <<todo, err, immutable, leftover>>
      BY <1>5, <2>1, <2>2 DEF L_Backup, CannotRename
    <2>4. clean'[p] => todo[p] \subseteq Tool
      BY <2>1 DEF Linking, Policy
    <2>5. clean'[p] => \A t \in todo'[p] : ~Bars(t)'
      BY <2>1, <2>3, <2>4 DEF Bars, Foreign
    <2> QED BY <2>1, <2>3, <2>5
  <1>6. CASE L_Link(p)
    <2>1. /\ tool[p] \in Tool /\ pc[p] = "link"
          /\ entry[tool[p]] = NoFile \/ Bars(tool[p])
          /\ clean'[p] => clean[p]
      BY <1>6 DEF L_Link, InHand, Holding
    <2>2. clean'[p] => entry[tool[p]] = NoFile
      BY <2>1 DEF Linking
    <2>3. clean'[p] => /\ entry' = [entry EXCEPT ![tool[p]] = binary] /\ pc'[p] = "stat"
                       /\ todo' = [todo EXCEPT ![p] = @ \ {tool[p]}]
                       /\ UNCHANGED <<bak, err, immutable, leftover>>
      BY <1>6, <2>1, <2>2 DEF L_Link, CannotLink, Linked, Drop
    <2>4. clean'[p] => todo[p] \subseteq Tool
      BY <2>1 DEF Linking, Policy
    <2>5. clean'[p] => \A t \in todo'[p] : ~Bars(t)'
      BY <2>1, <2>3, <2>4 DEF Bars
    <2> QED BY <2>1, <2>3, <2>5
  <1>7. CASE D_Begin(p)
    BY <1>7 DEF D_Begin, files, bound
  <1>8. CASE D_NoDirectory(p) \/ G_Cleanup(p) \/ K_End(p) \/ Crash(p)
    <2>1. ~clean'[p]
      BY <1>8 DEF D_NoDirectory, G_Cleanup, K_End, Crash, Forget
    <2> QED BY <2>1
  <1>9. CASE D_Create(p)
    BY <1>9 DEF D_Create, Leftover
  <1>10. CASE D_Write(p)
    BY <1>10 DEF D_Write, Write
  <1>11. CASE D_Check(p)
    BY <1>11 DEF D_Check, Writing, files
  <1>12. CASE D_Rename(p)
    BY <1>12 DEF D_Rename, Writing
  <1>13. CASE K_Lock(p)
    <2>1. clean'[p] => clean[p]
      BY <1>13 DEF K_Lock
    <2>2. pc[p] = "lock" /\ pc' = pc
      BY <1>13 DEF K_Lock
    <2>3. ASSUME clean[p], NEW t \in Target, t \in todo[p]
          PROVE  InodeOf(t) \notin {NoFile, "symlink"}
      <3>1. t \in Fixed \/ (t \in Tool /\ entry[t] = binary)
        BY <2>2, <2>3 DEF Locking, Linking, ManagedTargets, Target
      <3>2. dropin # NoFile
        BY <2>2 DEF Locking
      <3>3. CASE t \in Tool
        BY <3>1, <3>3 DEF InodeOf, Foreign, Fixed
      <3>4. CASE t \notin Tool
        BY <3>1, <3>2, <3>4 DEF InodeOf, Foreign, Fixed
      <3> QED BY <3>3, <3>4
    <2>4. clean'[p] => ~err'[p]
      BY <1>13, <2>1, <2>3 DEF K_Lock, First
    <2> QED BY <2>1, <2>2, <2>4
  <1>14. CASE K_Unlock(p)
    BY <1>14 DEF K_Unlock
  <1>15. CASE U_Load(p)
    BY <1>15 DEF U_Load, bound
  <1> QED BY <1>1, <1>2, <1>3, <1>4, <1>5, <1>6, <1>7, <1>8, <1>9, <1>10, <1>11, <1>12, <1>13,
             <1>14, <1>15 DEF Step

\* Between two commands nothing of this can change.
LEMMA AdministerReinstall ==
    ASSUME TypeOK, ReinstallInv, Administer, NEW p \in Proc
    PROVE  InHand(p)' /\ Leftover(p)' /\ Clean(p)'
  <1>1. pc[p] = "idle" /\ UNCHANGED <<pc, clean, tmp, leftover>>
    BY DEF Administer, EditPolicy, UpdatePolicy, Upgrade, PutFile, Quiet, At, local, bound
  <1> QED BY <1>1 DEF ReinstallInv, InHand, Leftover, Clean, At

LEMMA InitReinstall == Init => ReinstallInv
  BY NameAssumption DEF Init, ReinstallInv, Backups, InHand, Leftover, Clean, At

LEMMA NextReinstall ==
    ASSUME OneCommand, InstallerInv, SerialInv, ReinstallInv, [Next]_vars
    PROVE  ReinstallInv'
  <1>1. CASE Next
    <2>1. Backups'
      BY <1>1, BackupsStep DEF ReinstallInv
    <2>2. ASSUME NEW p \in Proc, Step(p), NEW q \in Proc
          PROVE  InHand(q)' /\ Leftover(q)' /\ Clean(q)'
      <3>1. q = p
        BY DEF OneCommand
      <3> QED BY <2>2, <3>1, InHandStep, LeftoverStep, CleanStep DEF ReinstallInv, InstallerInv
    <2> QED BY <1>1, <2>1, <2>2, AdministerReinstall DEF Next, ReinstallInv, InstallerInv
  <1>2. CASE UNCHANGED vars
    BY <1>2 DEF vars, files, local, bound, ReinstallInv, Backups, InHand, Leftover, Clean, At, Bars
  <1> QED BY <1>1, <1>2

\* What a clean install needs stays so for any tools, builds, failures and crashes.
THEOREM ReinstallInvariance == ASSUME OneCommand PROVE Spec => []ReinstallInv
  <1>1. InstallerInv /\ SerialInv /\ ReinstallInv /\ [Next]_vars => ReinstallInv'
    BY NextReinstall
  <1> QED BY <1>1, InitReinstall, Invariance, SerialInvariance, PTL DEF Spec

\* However earlier commands ended, install succeeds on an unlocked host unless one
\* of its calls fails, something bars a name or a crash left the temporary file.
THEOREM Reinstalls == ASSUME OneCommand PROVE Spec => []ReinstallSucceeds
  <1>1. ReinstallInv => ReinstallSucceeds
    BY DEF ReinstallInv, Clean, ReinstallSucceeds, At
  <1> QED BY <1>1, ReinstallInvariance, PTL

\* A command loses a user's program only by backing up over it another program put
\* at its name, or the link to an older build.
THEOREM UserFilesKept == ASSUME OneCommand PROVE Spec => UserFileKept
  <1> DEFINE Kept ==
        \A t \in Tool, u \in Program :
            u \in {entry[t], bak[t]} /\ u \notin {entry'[t], bak'[t]} =>
                \/ Quiet
                \/ bak[t] = u /\ entry[t] \in (Program \ {u}) \cup (Build \ {binary})
  <1>1. ASSUME InstallerInv, ReinstallInv, [Next]_vars PROVE Kept
    <2> USE DEF InstallerInv, TypeOK
    <2>1. CASE UNCHANGED vars
      BY <2>1 DEF vars, files
    <2>2. CASE Administer
      BY <2>2 DEF Administer, EditPolicy, UpdatePolicy, Upgrade, PutFile
    <2>3. ASSUME NEW p \in Proc, OtherStep(p) PROVE Kept
      BY <2>3, OtherStepEntries
    <2>4. ASSUME NEW p \in Proc, L_Unlink(p) PROVE Kept
      <3>1. tool[p] \in Tool /\ entry[tool[p]] = "symlink"
        BY <1>1, <2>4 DEF L_Unlink, ReinstallInv, InHand, At, Holding
      <3>2. bak' = bak /\ entry' \in {entry, [entry EXCEPT ![tool[p]] = NoFile]}
        BY <2>4 DEF L_Unlink
      <3>3. "symlink" \notin Program
        BY NameAssumption
      <3> QED BY <1>1, <3>1, <3>2, <3>3
    <2>5. ASSUME NEW p \in Proc, L_Backup(p) PROVE Kept
      <3>1. tool[p] \in Tool /\ entry[tool[p]] \in Program \cup (Build \ {binary})
        BY <1>1, <2>5 DEF L_Backup, ReinstallInv, InHand, At, Holding
      <3>2. \/ bak' = bak /\ entry' = entry
            \/ /\ bak' = [bak EXCEPT ![tool[p]] = entry[tool[p]]]
               /\ entry' = [entry EXCEPT ![tool[p]] = NoFile]
        BY <2>5 DEF L_Backup
      <3> QED BY <1>1, <3>1, <3>2
    <2>6. ASSUME NEW p \in Proc, L_Link(p) PROVE Kept
      <3>1. tool[p] \in Tool
        BY <1>1, <2>6 DEF L_Link, At, Holding
      <3>2. bak' = bak
        BY <2>6 DEF L_Link
      <3>3. entry' = entry \/ (entry[tool[p]] = NoFile /\ entry' = [entry EXCEPT ![tool[p]] = binary])
        BY <2>6 DEF L_Link, CannotLink
      <3>4. NoFile \notin Program
        BY NameAssumption DEF Foreign
      <3> QED BY <1>1, <3>1, <3>2, <3>3, <3>4
    <2> QED BY <1>1, <2>1, <2>2, <2>3, <2>4, <2>5, <2>6 DEF Next, Step, OtherStep
  <1>2. InstallerInv /\ ReinstallInv /\ [Next]_vars => [Kept]_vars
    BY <1>1
  <1>3. [][Kept]_vars => UserFileKept
    BY DEF UserFileKept
  <1> QED BY <1>2, <1>3, Invariance, ReinstallInvariance, PTL DEF Spec
=============================================================================
