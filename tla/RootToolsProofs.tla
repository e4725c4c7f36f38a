--------------------------- MODULE RootToolsProofs ---------------------------
(***************************************************************************)
(* Theorems about the tools of the administrator, for every value of the      *)
(* constants: about the engine's install, and at the end about the tools      *)
(* side by side.                                                             *)
(***************************************************************************)
EXTENDS RootTools, Sequences, TLAPS

-----------------------------------------------------------------------------
(* Mihomo: COMPATIBLE is said only of a build that ran here, and an install that *)
(* gives up leaves the pair of files it found.                               *)

InstallModes == {"try", "binary", "metadata", "verify", "undo binary", "undo metadata"}
OtherModes == {"idle", "remove binary", "remove metadata"}
Installing == job.mode \in InstallModes

Files ==
    /\ binary \in Mihomo!Content /\ metadata \in Mihomo!Content
    /\ \/ job \in [mode: OtherModes]
       \/ job \in [mode: InstallModes, level: Mihomo!Builds,
                   before: Mihomo!Content \X Mihomo!Content]

\* The installed binary was verified, and so is whatever may replace it: the
\* build an install has accepted and the one its undoing puts back.  The
\* metadata may describe anything.
BinaryVerified == binary \in Mihomo!Builds => binary \in verified
AcceptedVerified == job.mode \in {"binary", "metadata", "verify"} => job.level \in verified
BeforeVerified == Installing => (job.before[1] \in Mihomo!Builds => job.before[1] \in verified)

\* A status got past the metadata because it names a build, and past the hash
\* because the binary was that build then.
DescribedBuild ==
    reader.mode = "described" => reader \in [mode: {"described"}, build: Mihomo!Builds]
HashedVerified == reader.mode = "hashed" => reader.build \in verified

VerifiedInv ==
    /\ Files /\ BinaryVerified /\ AcceptedVerified /\ BeforeVerified
    /\ DescribedBuild /\ HashedVerified /\ Mihomo!CompatibleWasVerified

LEMMA InitVerified == Mihomo!Init => VerifiedInv
<1> SUFFICES ASSUME Mihomo!Init PROVE VerifiedInv
    OBVIOUS
<1> USE DEF Mihomo!Init, Mihomo!AtRest
<1>1. Files BY DEF Files, OtherModes
<1>2. BinaryVerified BY DEF BinaryVerified
<1>3. AcceptedVerified /\ BeforeVerified
  BY DEF AcceptedVerified, BeforeVerified, Installing, InstallModes
<1>4. DescribedBuild /\ HashedVerified /\ Mihomo!CompatibleWasVerified
  BY DEF DescribedBuild, HashedVerified, Mihomo!CompatibleWasVerified
<1> QED BY <1>1, <1>2, <1>3, <1>4 DEF VerifiedInv

\* A step of a job leaves the reader alone and forgets nothing it verified.
LEMMA JobKeepsReader ==
    ASSUME VerifiedInv, reader' = reader, verified \subseteq verified'
    PROVE  DescribedBuild' /\ HashedVerified' /\ Mihomo!CompatibleWasVerified'
<1>1. DescribedBuild' BY DEF VerifiedInv, DescribedBuild, Mihomo!Builds
<1>2. HashedVerified' BY DEF VerifiedInv, HashedVerified
<1>3. Mihomo!CompatibleWasVerified' BY DEF VerifiedInv, Mihomo!CompatibleWasVerified
<1> QED BY <1>1, <1>2, <1>3

\* A job that is over has nothing left to put back.
LEMMA EndKeeps ==
    ASSUME VerifiedInv, job' \in [mode: OtherModes], binary' \in Mihomo!Content,
           metadata' \in Mihomo!Content,
           BinaryVerified', reader' = reader, verified \subseteq verified'
    PROVE  VerifiedInv'
<1>1. job'.mode \in OtherModes OBVIOUS
<1>2. Files' BY DEF Files, Mihomo!Content, Mihomo!Builds
<1>3. AcceptedVerified' BY <1>1 DEF AcceptedVerified, OtherModes
<1>4. BeforeVerified' BY <1>1 DEF BeforeVerified, Installing, InstallModes, OtherModes
<1> QED BY <1>2, <1>3, <1>4, JobKeepsReader DEF VerifiedInv

\* A job that goes on keeps its level and what was there before.
LEMMA MoveKeeps ==
    ASSUME VerifiedInv, NEW then \in InstallModes,
           Installing, Mihomo!Move(then), binary' \in Mihomo!Content,
           metadata' \in Mihomo!Content, BinaryVerified',
           reader' = reader, verified \subseteq verified',
           then \in {"binary", "metadata", "verify"} => job.level \in verified'
    PROVE  VerifiedInv'
<1>1. job \in [mode: InstallModes, level: Mihomo!Builds, before: Mihomo!Content \X Mihomo!Content]
  BY DEF VerifiedInv, Files, Installing, InstallModes, OtherModes
<1>2. job'.mode = then /\ job'.level = job.level /\ job'.before = job.before
      /\ job' \in [mode: InstallModes, level: Mihomo!Builds,
                   before: Mihomo!Content \X Mihomo!Content]
  BY <1>1 DEF Mihomo!Move
<1>3. AcceptedVerified' BY <1>2 DEF AcceptedVerified
<1>4. Files' BY <1>2 DEF Files, Mihomo!Content, Mihomo!Builds
<1>5. BeforeVerified' BY <1>2 DEF VerifiedInv, BeforeVerified, Installing, Mihomo!Builds
<1> QED BY <1>3, <1>4, <1>5, JobKeepsReader DEF VerifiedInv

\* The steps of an install up to the point where it gives up.
LEMMA InstallStep ==
    ASSUME VerifiedInv, NoneAssumption, Mihomo!LevelAssumption,
           Mihomo!Install \/ Mihomo!Try \/ Mihomo!ReplaceBinary \/ Mihomo!ReplaceMetadata
            \/ Mihomo!Verify
    PROVE  VerifiedInv'
<1>1. Files /\ BinaryVerified BY DEF VerifiedInv
<1>2. CASE Mihomo!Install
  <2>1. CpuLevel \in Mihomo!Builds BY DEF Mihomo!LevelAssumption, Mihomo!Builds
  <2>2. job' = [mode |-> "try", level |-> CpuLevel, before |-> <<binary, metadata>>]
        /\ binary' = binary /\ metadata' = metadata
        /\ reader' = reader /\ verified' = verified
    BY <1>2 DEF Mihomo!Install, Mihomo!files
  <2>3. Files' BY <1>1, <2>1, <2>2 DEF Files, InstallModes, Mihomo!Content, Mihomo!Builds
  <2>4. AcceptedVerified' BY <2>2 DEF AcceptedVerified
  <2>5. BeforeVerified' BY <1>1, <2>2 DEF BeforeVerified, BinaryVerified, Mihomo!Builds
  <2>6. BinaryVerified' BY <1>1, <2>2 DEF BinaryVerified, Mihomo!Builds
  <2> QED BY <2>2, <2>3, <2>4, <2>5, <2>6, JobKeepsReader DEF VerifiedInv
<1>3. CASE Mihomo!Try
  <2>1. Installing BY <1>3 DEF Mihomo!Try, Installing, InstallModes
  <2>2. job \in [mode: InstallModes, level: Mihomo!Builds,
                 before: Mihomo!Content \X Mihomo!Content]
    BY <1>1, <2>1 DEF Files, Installing, InstallModes, OtherModes
  <2>3. PICK runs \in Mihomo!Runs(job.level) :
          /\ \/ Mihomo!Accepted(runs) /\ Mihomo!Move("binary")
             \/ ~Mihomo!Accepted(runs) /\ job.level > 1 /\ job' = [job EXCEPT !.level = @ - 1]
             \/ ~Mihomo!Accepted(runs) /\ job.level = 1 /\ Mihomo!End
          /\ verified' = IF runs THEN verified \cup {job.level} ELSE verified
    BY <1>3 DEF Mihomo!Try
  <2>4. /\ binary' = binary /\ metadata' = metadata
        /\ reader' = reader /\ verified \subseteq verified'
    BY <1>3, <2>3 DEF Mihomo!Try, Mihomo!files
  <2>5. binary' \in Mihomo!Content /\ metadata' \in Mihomo!Content /\ BinaryVerified'
    BY <1>1, <2>4 DEF Files, Mihomo!Content, BinaryVerified, Mihomo!Builds
  <2>6. CASE Mihomo!Accepted(runs) /\ Mihomo!Move("binary")
    <3>1. job.level \in verified' BY <2>3, <2>6 DEF Mihomo!Accepted
    <3> QED BY <2>1, <2>4, <2>5, <2>6, <3>1, MoveKeeps DEF InstallModes
  <2>7. CASE ~Mihomo!Accepted(runs) /\ job.level > 1 /\ job' = [job EXCEPT !.level = @ - 1]
    <3>1. job.level - 1 \in Mihomo!Builds
      <4>1. job.level \in 1..MaxLevel BY <2>2 DEF Mihomo!Builds
      <4>2. job.level > 1 BY <2>7
      <4>3. MaxLevel \in Nat BY DEF Mihomo!LevelAssumption
      <4> QED BY <4>1, <4>2, <4>3 DEF Mihomo!Builds
    <3>2. /\ job' \in [mode: InstallModes, level: Mihomo!Builds,
                       before: Mihomo!Content \X Mihomo!Content]
          /\ job'.mode = "try" /\ job'.before = job.before
      BY <1>3, <2>2, <2>7, <3>1 DEF Mihomo!Try
    <3>3. Files' BY <2>5, <3>2 DEF Files, Mihomo!Content, Mihomo!Builds
    <3>4. AcceptedVerified' BY <3>2 DEF AcceptedVerified
    <3>5. BeforeVerified' BY <2>1, <2>4, <3>2 DEF VerifiedInv, BeforeVerified, Mihomo!Builds
    <3> QED BY <2>4, <2>5, <3>3, <3>4, <3>5, JobKeepsReader DEF VerifiedInv
  <2>8. CASE ~Mihomo!Accepted(runs) /\ job.level = 1 /\ Mihomo!End
    BY <2>4, <2>5, <2>8, EndKeeps DEF Mihomo!End, Mihomo!AtRest, OtherModes
  <2> QED BY <2>3, <2>6, <2>7, <2>8
<1>4. CASE Mihomo!ReplaceBinary
  <2>1. Installing BY <1>4 DEF Mihomo!ReplaceBinary, Installing, InstallModes
  <2>2. job.level \in verified BY <1>4 DEF VerifiedInv, AcceptedVerified, Mihomo!ReplaceBinary
  <2>3. job.level \in Mihomo!Content
    BY <1>1, <2>1 DEF Files, Mihomo!Content, Installing, InstallModes, OtherModes
  <2>4. /\ binary' = job.level /\ metadata' = metadata
        /\ reader' = reader /\ verified' = verified /\ Mihomo!Move("metadata")
    BY <1>4 DEF Mihomo!ReplaceBinary
  <2>5. binary' \in Mihomo!Content /\ metadata' \in Mihomo!Content /\ BinaryVerified'
    BY <1>1, <2>2, <2>3, <2>4 DEF Files, Mihomo!Content, BinaryVerified, Mihomo!Builds
  <2> QED BY <2>1, <2>2, <2>4, <2>5, MoveKeeps DEF InstallModes
<1>5. CASE Mihomo!ReplaceMetadata
  <2>1. Installing BY <1>5 DEF Mihomo!ReplaceMetadata, Installing, InstallModes
  <2>2. job.level \in verified BY <1>5 DEF VerifiedInv, AcceptedVerified, Mihomo!ReplaceMetadata
  <2>3. job.level \in Mihomo!Content
    BY <1>1, <2>1 DEF Files, Mihomo!Content, Installing, InstallModes, OtherModes
  <2>4. /\ binary' = binary /\ metadata' = job.level
        /\ reader' = reader /\ verified' = verified /\ Mihomo!Move("verify")
    BY <1>5 DEF Mihomo!ReplaceMetadata
  <2>5. binary' \in Mihomo!Content /\ metadata' \in Mihomo!Content /\ BinaryVerified'
    BY <1>1, <2>3, <2>4 DEF Files, Mihomo!Content, BinaryVerified, Mihomo!Builds
  <2> QED BY <2>1, <2>2, <2>4, <2>5, MoveKeeps DEF InstallModes
<1>6. CASE Mihomo!Verify
  <2>1. Installing BY <1>6 DEF Mihomo!Verify, Installing, InstallModes
  <2>2. /\ binary' = binary /\ metadata' = metadata
        /\ reader' = reader /\ verified' = verified
        /\ Mihomo!End \/ Mihomo!Move("undo binary")
    BY <1>6 DEF Mihomo!Verify, Mihomo!files
  <2>3. binary' \in Mihomo!Content /\ metadata' \in Mihomo!Content /\ BinaryVerified'
    BY <1>1, <2>2 DEF Files, Mihomo!Content, BinaryVerified, Mihomo!Builds
  <2>4. CASE Mihomo!End
    BY <2>2, <2>3, <2>4, EndKeeps DEF Mihomo!End, Mihomo!AtRest, OtherModes
  <2>5. CASE Mihomo!Move("undo binary")
    BY <2>1, <2>2, <2>3, <2>5, MoveKeeps DEF InstallModes
  <2> QED BY <2>2, <2>4, <2>5
<1> QED BY <1>2, <1>3, <1>4, <1>5, <1>6

\* The steps that give up: an install, its undoing, a removal.
LEMMA UndoStep ==
    ASSUME VerifiedInv, NoneAssumption, Mihomo!Fail \/ Mihomo!UndoBinary \/ Mihomo!UndoMetadata
    PROVE  VerifiedInv'
<1>1. Files /\ BinaryVerified BY DEF VerifiedInv
<1>2. CASE Mihomo!Fail
  <2>1. metadata' = metadata /\ reader' = reader /\ verified' = verified
    BY <1>2 DEF Mihomo!Fail
  <2>2. metadata' \in Mihomo!Content BY <1>1, <2>1 DEF Files, Mihomo!Content, Mihomo!Builds
  <2>3. CASE binary' = binary /\ Mihomo!End
    <3>1. binary' \in Mihomo!Content /\ BinaryVerified'
      BY <1>1, <2>1, <2>3 DEF Files, Mihomo!Content, BinaryVerified, Mihomo!Builds
    <3> QED BY <2>1, <2>2, <2>3, <3>1, EndKeeps DEF Mihomo!End, Mihomo!AtRest, OtherModes
  <2>4. CASE job.mode = "binary" /\ binary' \in {binary, job.level} /\ Mihomo!Move(Mihomo!Undo)
    <3>1. Installing BY <2>4 DEF Installing, InstallModes
    <3>2. job.level \in verified /\ job.level \in Mihomo!Content
      BY <1>1, <2>4, <3>1
         DEF VerifiedInv, AcceptedVerified, Files, Mihomo!Content, Installing, InstallModes,
             OtherModes
    <3>3. binary' \in Mihomo!Content /\ BinaryVerified'
      BY <1>1, <2>1, <2>4, <3>2 DEF Files, Mihomo!Content, BinaryVerified, Mihomo!Builds
    <3> QED BY <2>1, <2>2, <2>4, <3>1, <3>3, MoveKeeps DEF InstallModes, Mihomo!Undo
  <2>5. CASE job.mode = "metadata" /\ binary' = binary /\ Mihomo!Move(Mihomo!Undo)
    <3>1. Installing BY <2>5 DEF Installing, InstallModes
    <3>2. binary' \in Mihomo!Content /\ BinaryVerified'
      BY <1>1, <2>1, <2>5 DEF Files, Mihomo!Content, BinaryVerified, Mihomo!Builds
    <3> QED BY <2>1, <2>2, <2>5, <3>1, <3>2, MoveKeeps DEF InstallModes, Mihomo!Undo
  <2> QED BY <1>2, <2>3, <2>4, <2>5 DEF Mihomo!Fail
<1>3. CASE Mihomo!UndoBinary
  <2>1. Installing BY <1>3 DEF Mihomo!UndoBinary, Installing, InstallModes
  <2>2. /\ binary' = job.before[1] /\ metadata' = metadata
        /\ reader' = reader /\ verified' = verified /\ Mihomo!Move("undo metadata")
    BY <1>3 DEF Mihomo!UndoBinary
  <2>3. job.before[1] \in Mihomo!Content
    BY <1>1, <2>1 DEF Files, Installing, InstallModes, OtherModes
  <2>4. job.before[1] \in Mihomo!Builds => job.before[1] \in verified
    BY <2>1 DEF VerifiedInv, BeforeVerified
  <2>5. binary' \in Mihomo!Content /\ metadata' \in Mihomo!Content /\ BinaryVerified'
    BY <1>1, <2>2, <2>3, <2>4 DEF Files, Mihomo!Content, BinaryVerified, Mihomo!Builds
  <2> QED BY <2>1, <2>2, <2>5, MoveKeeps DEF InstallModes
<1>4. CASE Mihomo!UndoMetadata
  <2>1. Installing BY <1>4 DEF Mihomo!UndoMetadata, Installing, InstallModes
  <2>2. job.before[2] \in Mihomo!Content
    BY <1>1, <2>1 DEF Files, Installing, InstallModes, OtherModes
  <2>3. /\ binary' = binary /\ metadata' = job.before[2]
        /\ reader' = reader /\ verified' = verified /\ Mihomo!End
    BY <1>4 DEF Mihomo!UndoMetadata
  <2>4. binary' \in Mihomo!Content /\ metadata' \in Mihomo!Content /\ BinaryVerified'
    BY <1>1, <2>2, <2>3 DEF Files, Mihomo!Content, BinaryVerified, Mihomo!Builds
  <2> QED BY <2>3, <2>4, EndKeeps DEF Mihomo!End, Mihomo!AtRest, OtherModes
<1> QED BY <1>2, <1>3, <1>4

LEMMA RemoveStep ==
    ASSUME VerifiedInv, NoneAssumption,
           Mihomo!Remove \/ Mihomo!RemoveBinary \/ Mihomo!RemoveMetadata \/ Mihomo!Kill
    PROVE  VerifiedInv'
<1>1. Files /\ BinaryVerified BY DEF VerifiedInv
<1>2. reader' = reader /\ verified' = verified
  BY DEF Mihomo!Remove, Mihomo!RemoveBinary, Mihomo!RemoveMetadata, Mihomo!Kill
<1>3. binary' \in {binary, None} /\ metadata' \in {metadata, None}
  BY DEF Mihomo!Remove, Mihomo!RemoveBinary, Mihomo!RemoveMetadata, Mihomo!Kill, Mihomo!files
<1>4. binary' \in Mihomo!Content /\ metadata' \in Mihomo!Content
  BY <1>1, <1>3 DEF Files, Mihomo!Content, Mihomo!Builds
<1>5. BinaryVerified' BY <1>1, <1>2, <1>3 DEF BinaryVerified, Mihomo!Builds, NoneAssumption
<1>6. job' \in [mode: OtherModes]
  <2>1. CASE Mihomo!Remove BY <2>1 DEF Mihomo!Remove, OtherModes
  <2>2. CASE Mihomo!RemoveBinary
    <3>1. job \in [mode: OtherModes]
      BY <1>1, <2>2 DEF Files, Mihomo!RemoveBinary, InstallModes, OtherModes
    <3> QED BY <2>2, <3>1 DEF Mihomo!RemoveBinary, Mihomo!Move, OtherModes
  <2>3. CASE Mihomo!RemoveMetadata BY <2>3 DEF Mihomo!RemoveMetadata, Mihomo!End, Mihomo!AtRest,
                                      OtherModes
  <2>4. CASE Mihomo!Kill BY <2>4 DEF Mihomo!Kill, Mihomo!End, Mihomo!AtRest, OtherModes
  <2> QED BY <2>1, <2>2, <2>3, <2>4
<1> QED BY <1>2, <1>4, <1>5, <1>6, EndKeeps

\* The three reads of a status.
LEMMA ReaderStep ==
    ASSUME VerifiedInv, NoneAssumption, Mihomo!Ask \/ Mihomo!Hash \/ Mihomo!Answer
    PROVE  VerifiedInv'
<1>1. Files /\ BinaryVerified BY DEF VerifiedInv
<1>2. job' = job /\ binary' = binary /\ metadata' = metadata /\ verified' = verified
  BY DEF Mihomo!Ask, Mihomo!Hash, Mihomo!Answer, Mihomo!files
<1>3. Files' BY <1>1, <1>2 DEF Files, Mihomo!Content, Mihomo!Builds
<1>4. BinaryVerified' BY <1>1, <1>2 DEF BinaryVerified, Mihomo!Builds
<1>5. AcceptedVerified' BY <1>2 DEF VerifiedInv, AcceptedVerified
<1>6. BeforeVerified' BY <1>2 DEF VerifiedInv, BeforeVerified, Installing, Mihomo!Builds
<1>7. DescribedBuild' /\ HashedVerified' /\ Mihomo!CompatibleWasVerified'
  <2>1. CASE Mihomo!Ask
    <3>1. CASE Mihomo!Described(metadata, binary) = "?"
      <4>1. reader' = [mode |-> "described", build |-> metadata] BY <2>1, <3>1 DEF Mihomo!Ask
      <4>2. metadata \in Mihomo!Builds BY <1>1, <3>1 DEF Files, Mihomo!Content, Mihomo!Described
      <4>3. DescribedBuild' BY <4>1, <4>2 DEF DescribedBuild, Mihomo!Builds
      <4> QED BY <4>1, <4>3 DEF HashedVerified, Mihomo!CompatibleWasVerified
    <3>2. CASE Mihomo!Described(metadata, binary) # "?"
      <4>1. reader' = Mihomo!Say(Mihomo!Described(metadata, binary), metadata) BY <2>1,
        <3>2 DEF Mihomo!Ask
      <4>2. Mihomo!Described(metadata, binary) # "COMPATIBLE" BY DEF Mihomo!Described
      <4>3. reader'.mode = "said" /\ reader'.verdict # "COMPATIBLE" BY <4>1, <4>2 DEF Mihomo!Say
      <4> QED BY <4>3 DEF DescribedBuild, HashedVerified, Mihomo!CompatibleWasVerified
    <3> QED BY <3>1, <3>2
  <2>2. CASE Mihomo!Hash
    <3>1. reader \in [mode: {"described"}, build: Mihomo!Builds]
      BY <2>2 DEF Mihomo!Hash, VerifiedInv, DescribedBuild
    <3>2. CASE Mihomo!Hashed(reader.build, binary) = "?"
      <4>1. reader' = [reader EXCEPT !.mode = "hashed"] BY <2>2, <3>2 DEF Mihomo!Hash
      <4>2. reader'.mode = "hashed" /\ reader'.build = reader.build BY <3>1, <4>1
      <4>3. binary = reader.build BY <3>2 DEF Mihomo!Hashed
      <4>4. reader'.build \in verified' BY <1>1, <1>2, <3>1, <4>2, <4>3 DEF BinaryVerified
      <4> QED BY <4>2, <4>4 DEF DescribedBuild, HashedVerified, Mihomo!CompatibleWasVerified
    <3>3. CASE Mihomo!Hashed(reader.build, binary) # "?"
      <4>1. reader' = Mihomo!Say(Mihomo!Hashed(reader.build, binary), reader.build) BY <2>2,
        <3>3 DEF Mihomo!Hash
      <4>2. Mihomo!Hashed(reader.build, binary) # "COMPATIBLE" BY DEF Mihomo!Hashed
      <4>3. reader'.mode = "said" /\ reader'.verdict # "COMPATIBLE" BY <4>1, <4>2 DEF Mihomo!Say
      <4> QED BY <4>3 DEF DescribedBuild, HashedVerified, Mihomo!CompatibleWasVerified
    <3> QED BY <3>2, <3>3
  <2>3. CASE Mihomo!Answer
    <3>1. reader.build \in verified BY <2>3 DEF Mihomo!Answer, VerifiedInv, HashedVerified
    <3>2. reader'.mode = "said" /\ reader'.build = reader.build BY <2>3 DEF Mihomo!Answer,
      Mihomo!Say
    <3> QED BY <1>2, <3>1, <3>2 DEF DescribedBuild, HashedVerified, Mihomo!CompatibleWasVerified
  <2> QED BY <2>1, <2>2, <2>3
<1> QED BY <1>3, <1>4, <1>5, <1>6, <1>7 DEF VerifiedInv

LEMMA StepKeepsVerified ==
    ASSUME Mihomo!LevelAssumption, NoneAssumption
    PROVE  VerifiedInv /\ [Mihomo!Next]_(Mihomo!vars) => VerifiedInv'
<1> SUFFICES ASSUME VerifiedInv, [Mihomo!Next]_(Mihomo!vars) PROVE VerifiedInv'
    OBVIOUS
<1>1. CASE UNCHANGED Mihomo!vars
  <2>1. /\ job' = job /\ binary' = binary /\ metadata' = metadata
        /\ verified' = verified /\ reader' = reader
    BY <1>1 DEF Mihomo!vars
  <2>2. Files' BY <2>1 DEF VerifiedInv, Files, Mihomo!Content, Mihomo!Builds
  <2>3. BinaryVerified' BY <2>1 DEF VerifiedInv, BinaryVerified, Mihomo!Builds
  <2>4. AcceptedVerified' BY <2>1 DEF VerifiedInv, AcceptedVerified
  <2>5. BeforeVerified' BY <2>1 DEF VerifiedInv, BeforeVerified, Installing, Mihomo!Builds
  <2> QED BY <2>1, <2>2, <2>3, <2>4, <2>5, JobKeepsReader DEF VerifiedInv
<1>2. CASE Mihomo!Ask \/ Mihomo!Hash \/ Mihomo!Answer BY <1>2, ReaderStep
<1>3. CASE Mihomo!Install \/ Mihomo!Try \/ Mihomo!ReplaceBinary \/ Mihomo!ReplaceMetadata
            \/ Mihomo!Verify
  BY <1>3, InstallStep
<1>4. CASE Mihomo!Fail \/ Mihomo!UndoBinary \/ Mihomo!UndoMetadata BY <1>4, UndoStep
<1>5. CASE Mihomo!Remove \/ Mihomo!RemoveBinary \/ Mihomo!RemoveMetadata \/ Mihomo!Kill BY <1>5,
  RemoveStep
<1> QED BY <1>1, <1>2, <1>3, <1>4, <1>5 DEF Mihomo!Next

\* The types that VerifiedInv does not give.
Others ==
    /\ reader.mode \in {"idle", "described", "hashed", "said"}
    /\ faults \in 0..EngineFaults /\ verified \subseteq Mihomo!Builds /\ kept \in BOOLEAN

LEMMA StepKeepsOthers ==
    ASSUME Mihomo!FaultsAssumption, VerifiedInv, Others, [Mihomo!Next]_(Mihomo!vars)
    PROVE  Others'
<1>1. reader'.mode \in {"idle", "described", "hashed", "said"}
  <2>1. reader' = reader \/ Mihomo!Ask \/ Mihomo!Hash \/ Mihomo!Answer
    BY DEF Mihomo!Next, Mihomo!vars, Mihomo!Install, Mihomo!Try, Mihomo!ReplaceBinary,
       Mihomo!ReplaceMetadata, Mihomo!Verify, Mihomo!Fail, Mihomo!UndoBinary,
           Mihomo!UndoMetadata, Mihomo!Remove, Mihomo!RemoveBinary, Mihomo!RemoveMetadata,
           Mihomo!Kill
  <2>2. CASE reader' = reader BY <2>2 DEF Others
  <2>3. CASE Mihomo!Ask BY <2>3 DEF Mihomo!Ask, Mihomo!Say
  <2>4. CASE Mihomo!Hash
    <3>1. reader \in [mode: {"described"}, build: Mihomo!Builds]
      BY <2>4 DEF Mihomo!Hash, VerifiedInv, DescribedBuild
    <3> QED BY <2>4, <3>1 DEF Mihomo!Hash, Mihomo!Say
  <2>5. CASE Mihomo!Answer BY <2>5 DEF Mihomo!Answer, Mihomo!Say
  <2> QED BY <2>1, <2>2, <2>3, <2>4, <2>5
<1>2. faults' \in 0..EngineFaults
  <2>1. faults' = faults \/ Mihomo!Fault
    BY DEF Mihomo!Next, Mihomo!vars, Mihomo!Ask, Mihomo!Hash, Mihomo!Answer, Mihomo!Install,
       Mihomo!Try, Mihomo!ReplaceBinary, Mihomo!ReplaceMetadata, Mihomo!Verify,
           Mihomo!Fail, Mihomo!UndoBinary, Mihomo!UndoMetadata, Mihomo!Remove,
           Mihomo!RemoveBinary, Mihomo!RemoveMetadata, Mihomo!Kill
  <2> QED BY <2>1 DEF Mihomo!Fault, Others, Mihomo!FaultsAssumption
<1>3. verified' \subseteq Mihomo!Builds
  <2>1. verified' = verified \/ Mihomo!Try
    BY DEF Mihomo!Next, Mihomo!vars, Mihomo!Ask, Mihomo!Hash, Mihomo!Answer, Mihomo!Install,
       Mihomo!ReplaceBinary, Mihomo!ReplaceMetadata, Mihomo!Verify,
           Mihomo!Fail, Mihomo!UndoBinary, Mihomo!UndoMetadata, Mihomo!Remove,
           Mihomo!RemoveBinary, Mihomo!RemoveMetadata, Mihomo!Kill
  <2>2. CASE Mihomo!Try
    <3>1. job.level \in Mihomo!Builds
      BY <2>2 DEF Mihomo!Try, VerifiedInv, Files, InstallModes, OtherModes
    <3>2. verified' \subseteq verified \cup {job.level} BY <2>2 DEF Mihomo!Try
    <3> QED BY <3>1, <3>2 DEF Others
  <2>3. CASE verified' = verified BY <2>3 DEF Others, Mihomo!Builds
  <2>4. Mihomo!Builds' = Mihomo!Builds BY DEF Mihomo!Builds
  <2> QED BY <2>1, <2>2, <2>3, <2>4
<1>4. kept' \in BOOLEAN
  <2>1. CASE kept' = kept BY <2>1 DEF Others
  <2>2. CASE Mihomo!Fail
    <3>1. kept' = kept \/ kept' = FALSE BY <2>2 DEF Mihomo!Fail
    <3> QED BY <3>1 DEF Others
  <2>3. CASE Mihomo!Kill
    <3>1. kept' = (kept /\ job.mode \in {"try", "binary",
      "remove binary"}) BY <2>3 DEF Mihomo!Kill
    <3> QED BY <3>1
  <2>4. kept' = kept \/ Mihomo!Fail \/ Mihomo!Kill
    BY DEF Mihomo!Next, Mihomo!vars, Mihomo!Ask, Mihomo!Hash, Mihomo!Answer, Mihomo!Install,
       Mihomo!Try, Mihomo!ReplaceBinary, Mihomo!ReplaceMetadata, Mihomo!Verify,
           Mihomo!UndoBinary, Mihomo!UndoMetadata, Mihomo!Remove, Mihomo!RemoveBinary,
           Mihomo!RemoveMetadata
  <2> QED BY <2>1, <2>2, <2>3, <2>4
<1> QED BY <1>1, <1>2, <1>3, <1>4 DEF Others, Mihomo!Builds

LEMMA TypesFollow == VerifiedInv /\ Others => Mihomo!TypeOK
BY DEF VerifiedInv, Files, Others, InstallModes, OtherModes, Mihomo!TypeOK

\* However the reads of a status interleave with an install, its undoing, a
\* removal and kills, COMPATIBLE is said only of a build that ran here.
THEOREM CompatibleRan ==
    ASSUME Mihomo!LevelAssumption, NoneAssumption, Mihomo!FaultsAssumption
    PROVE  Mihomo!Spec => [](Mihomo!TypeOK /\ Mihomo!CompatibleWasVerified)
<1>1. Mihomo!Init => VerifiedInv BY InitVerified
<1>2. Mihomo!Init => Others BY DEF Mihomo!Init, Others, Mihomo!AtRest, Mihomo!FaultsAssumption
<1>3. VerifiedInv /\ [Mihomo!Next]_(Mihomo!vars) => VerifiedInv' BY StepKeepsVerified
<1>4. VerifiedInv /\ Others /\ [Mihomo!Next]_(Mihomo!vars) => Others' BY StepKeepsOthers
<1>5. VerifiedInv /\ Others => Mihomo!TypeOK BY TypesFollow
<1>6. VerifiedInv => Mihomo!CompatibleWasVerified BY DEF VerifiedInv
<1> QED BY <1>1, <1>2, <1>3, <1>4, <1>5, <1>6, PTL DEF Mihomo!Spec

-----------------------------------------------------------------------------
(* An install that gives up *)

\* How far an install has come with the pair of files, and how far its undoing.
PairInv ==
    /\ job.mode \in {"try", "binary"} => Mihomo!files = job.before
    /\ job.mode = "metadata" => binary = job.level
    /\ job.mode = "verify" => binary = job.level /\ metadata = job.level
    /\ job.mode = "undo metadata" => binary = job.before[1]

LEMMA StepKeepsPair ==
    ASSUME VerifiedInv, PairInv, [Mihomo!Next]_(Mihomo!vars)
    PROVE  PairInv'
<1>1. Files BY DEF VerifiedInv
<1>2. CASE job' = job /\ binary' = binary /\ metadata' = metadata
  BY <1>2 DEF PairInv, Mihomo!files
<1>3. ASSUME job'.mode \in {"idle", "undo binary", "remove binary", "remove metadata"}
      PROVE  PairInv'
  BY <1>3 DEF PairInv
<1>4. Mihomo!End => PairInv' BY <1>3 DEF Mihomo!End, Mihomo!AtRest
<1>5. Mihomo!Move("remove metadata") \/ Mihomo!Move("undo binary") => PairInv'
  <2>1. ASSUME NEW then, Mihomo!Move(then) PROVE job'.mode = then
    BY <1>1, <2>1 DEF Mihomo!Move, Files
  <2> QED BY <1>3, <2>1
<1>6. CASE Mihomo!Ask \/ Mihomo!Hash \/ Mihomo!Answer BY <1>2, <1>6 DEF Mihomo!Ask, Mihomo!Hash,
                                                         Mihomo!Answer, Mihomo!files
<1>7. CASE Mihomo!Install BY <1>7 DEF Mihomo!Install, PairInv, Mihomo!files
<1>8. CASE Mihomo!Try
  <2>1. job \in [mode: InstallModes, level: Mihomo!Builds,
                 before: Mihomo!Content \X Mihomo!Content]
    BY <1>1, <1>8 DEF Mihomo!Try, Files, InstallModes, OtherModes
  <2>2. CASE Mihomo!End BY <1>4, <2>2
  <2>3. CASE job'.mode \in {"try", "binary"} /\ job'.before = job.before
    <3>1. Mihomo!files' = Mihomo!files /\ Mihomo!files = job.before BY <1>8 DEF Mihomo!Try,
      PairInv
    <3> QED BY <2>3, <3>1 DEF PairInv
  <2>4. Mihomo!Move("binary") => job'.mode = "binary" /\ job'.before = job.before
    BY <2>1 DEF Mihomo!Move
  <2>5. job' = [job EXCEPT !.level = @ - 1] => job'.mode = "try" /\ job'.before = job.before
    BY <1>8, <2>1 DEF Mihomo!Try
  <2> QED BY <1>8, <2>2, <2>3, <2>4, <2>5 DEF Mihomo!Try
<1>9. CASE Mihomo!ReplaceBinary \/ Mihomo!ReplaceMetadata
  <2>1. job \in [mode: InstallModes, level: Mihomo!Builds,
                 before: Mihomo!Content \X Mihomo!Content]
    BY <1>1, <1>9 DEF Mihomo!ReplaceBinary, Mihomo!ReplaceMetadata, Files, InstallModes,
       OtherModes
  <2> QED BY <1>9, <2>1 DEF Mihomo!ReplaceBinary, Mihomo!ReplaceMetadata, Mihomo!Move, PairInv
<1>10. CASE Mihomo!Verify BY <1>4, <1>5, <1>10 DEF Mihomo!Verify
<1>11. CASE Mihomo!Fail BY <1>4, <1>5, <1>11 DEF Mihomo!Fail, Mihomo!Undo
<1>12. CASE Mihomo!UndoBinary
  <2>1. job \in [mode: InstallModes, level: Mihomo!Builds,
                 before: Mihomo!Content \X Mihomo!Content]
    BY <1>1, <1>12 DEF Mihomo!UndoBinary, Files, InstallModes, OtherModes
  <2> QED BY <1>12, <2>1 DEF Mihomo!UndoBinary, Mihomo!Move, PairInv
<1>13. CASE Mihomo!UndoMetadata \/ Mihomo!RemoveMetadata \/ Mihomo!Kill
  BY <1>4, <1>13 DEF Mihomo!UndoMetadata, Mihomo!RemoveMetadata, Mihomo!Kill
<1>14. CASE Mihomo!Remove BY <1>3, <1>14 DEF Mihomo!Remove
<1>15. CASE Mihomo!RemoveBinary BY <1>5, <1>15 DEF Mihomo!RemoveBinary
<1>16. CASE UNCHANGED Mihomo!vars BY <1>2, <1>16 DEF Mihomo!vars
<1> QED BY <1>6, <1>7, <1>8, <1>9, <1>10, <1>11, <1>12, <1>13, <1>14, <1>15, <1>16 DEF Mihomo!Next

\* A step that ends an install: it gave up before a file was replaced, it is
\* verified, or it was undone to its end.
LEMMA StepIsPreserving ==
    ASSUME VerifiedInv, PairInv, [Mihomo!Next]_(Mihomo!vars)
    PROVE  [Mihomo!PreservedStep]_(Mihomo!vars)
<1> SUFFICES ASSUME Mihomo!Next, job.mode \in InstallModes, job'.mode = "idle", kept'
             PROVE  \/ <<binary', metadata'>> = job.before
                    \/ binary' = job.level /\ metadata' = job.level /\ job.level \in verified
  <2>1. Files BY DEF VerifiedInv
  <2>2. job.mode \in InstallModes \cup OtherModes BY <2>1 DEF Files
  <2> QED BY <2>2 DEF Mihomo!PreservedStep, InstallModes, OtherModes
<1>1. Files BY DEF VerifiedInv
<1>2. job \in [mode: InstallModes, level: Mihomo!Builds, before: Mihomo!Content \X Mihomo!Content]
  BY <1>1 DEF Files, InstallModes, OtherModes
<1>3. job.before = <<job.before[1], job.before[2]>> BY <1>2
<1>4. ASSUME NEW then \in InstallModes, Mihomo!Move(then) PROVE FALSE
  <2>1. job'.mode = then BY <1>2, <1>4 DEF Mihomo!Move
  <2> QED BY <2>1 DEF InstallModes
<1>5. CASE Mihomo!Try
  <2>1. job.mode = "try" /\ binary' = binary /\ metadata' = metadata BY <1>5 DEF Mihomo!Try,
    Mihomo!files
  <2> QED BY <2>1 DEF PairInv, Mihomo!files
<1>6. CASE Mihomo!ReplaceBinary \/ Mihomo!ReplaceMetadata \/ Mihomo!UndoBinary
  BY <1>4, <1>6 DEF Mihomo!ReplaceBinary, Mihomo!ReplaceMetadata, Mihomo!UndoBinary, InstallModes
<1>7. CASE Mihomo!Verify
  <2>1. job.mode = "verify" /\ binary' = binary /\ metadata' = metadata
    BY <1>7 DEF Mihomo!Verify, Mihomo!files
  <2> QED BY <2>1 DEF PairInv, VerifiedInv, AcceptedVerified
<1>8. CASE Mihomo!Fail
  <2>1. job.mode = "try" /\ binary' = binary /\ metadata' = metadata
    BY <1>4, <1>8 DEF Mihomo!Fail, Mihomo!Undo, InstallModes
  <2> QED BY <2>1 DEF PairInv, Mihomo!files
<1>9. CASE Mihomo!UndoMetadata BY <1>3, <1>9 DEF Mihomo!UndoMetadata, PairInv
<1>10. CASE Mihomo!Kill
  <2>1. kept /\ job.mode \in {"try", "binary", "remove binary"} BY <1>10 DEF Mihomo!Kill
  <2>2. job.mode \in {"try", "binary"} BY <2>1 DEF InstallModes
  <2> QED BY <1>10, <2>2 DEF Mihomo!Kill, PairInv, Mihomo!files
<1>11. CASE Mihomo!Ask \/ Mihomo!Hash \/ Mihomo!Answer BY <1>11 DEF Mihomo!Ask, Mihomo!Hash,
                                                          Mihomo!Answer, InstallModes
<1>12. CASE Mihomo!Install \/ Mihomo!Remove \/ Mihomo!RemoveBinary \/ Mihomo!RemoveMetadata
  <2>1. Mihomo!Idle => job.mode = "idle" BY DEF Mihomo!Idle, Mihomo!AtRest
  <2> QED BY <1>12, <2>1 DEF Mihomo!Install, Mihomo!Remove, Mihomo!RemoveBinary,
             Mihomo!RemoveMetadata, InstallModes
<1> QED BY <1>5, <1>6, <1>7, <1>8, <1>9, <1>10, <1>11, <1>12 DEF Mihomo!Next

\* "Previous component preserved": wherever an install gives up, without a kill
\* or a failing restore, both files are as they were or are a pair it verified.
THEOREM PreviousIsPreserved ==
    ASSUME Mihomo!LevelAssumption, NoneAssumption
    PROVE  Mihomo!Spec => Mihomo!PreviousPreserved
<1>1. Mihomo!Init => VerifiedInv BY InitVerified
<1>2. Mihomo!Init => PairInv BY DEF Mihomo!Init, Mihomo!AtRest, PairInv
<1>3. VerifiedInv /\ [Mihomo!Next]_(Mihomo!vars) => VerifiedInv' BY StepKeepsVerified
<1>4. VerifiedInv /\ PairInv /\ [Mihomo!Next]_(Mihomo!vars) => PairInv' BY StepKeepsPair
<1>5. VerifiedInv /\ PairInv /\ [Mihomo!Next]_(Mihomo!vars) => [Mihomo!PreservedStep]_(Mihomo!vars)
  BY StepIsPreserving
<1> QED BY <1>1, <1>2, <1>3, <1>4, <1>5, PTL DEF Mihomo!Spec, Mihomo!PreviousPreserved

-----------------------------------------------------------------------------
(* Catalog: a record is never doubled, hidden or changed.  Alone carries the proof: *)
(* whoever registers runs alone, whatever calls were killed or failed before.       *)

RegisterSteps == {"inventory", "verify", "stage", "verify staged", "compare", "publish",
                  "verify published", "confirm", "finally"}
VerifySteps == {"inventory", "lookup", "check", "recheck", "finally"}
InspectSteps == {"inventory", "show", "finally"}
Ended == {"new", "over", "killed"}
Record == [op: Operations, at: Snapshots, digest: 0..MaxAlters]
Registering == [at: RegisterSteps, action: {"register"}, place: Snapshots, op: Operations,
                digest: 0..MaxAlters, seen: SUBSET Calls]
Verifying == [at: VerifySteps, action: {"verify"}, place: Snapshots, target: Calls,
              digest: 0..MaxAlters, seen: SUBSET Calls]
Inspecting == [at: InspectSteps, action: {"inspect"}, target: Calls, seen: SUBSET Calls]
Invocation == [at: Ended] \cup Registering \cup Verifying \cup Inspecting
Plain == [status: {"FAILED", "REGISTERED", "INSPECTED"},
          publication: {"NOT_PUBLISHED", "PUBLISHED", "UNCERTAIN"}, retained: BOOLEAN]
Trusting == [status: {"TRUSTED"}, about: Calls, digest: 0..MaxAlters]

CatalogTypes ==
    /\ records \in [Calls -> Record \cup {None}] /\ residue \subseteq Calls
    /\ bytes \in [Snapshots -> 0..MaxAlters] /\ faults \in 0..CatalogFaults
    /\ call \in [Calls -> Invocation] /\ report \in [Calls -> Plain \cup Trusting]

\* A registration is alone.
Alone ==
    \A c, d \in Catalog!Running : call[c].action = "register" => c = d

\* A registration that was admitted still is, until it publishes; the record it
\* publishes is its own, and it tells of it when it is over.
Differs(c, d) == records[d].op # call[c].op /\ records[d].at # call[c].place
StillAdmitted(c) ==
    call[c].at \in {"verify", "stage", "verify staged", "compare", "publish"} =>
        \A d \in Catalog!Registered : Differs(c, d)
OwnRecord(c) ==
    c \in Catalog!Registered =>
        \/ call[c].at \in {"over", "killed"}
        \/ call[c].action = "register" /\ call[c].at \in {"verify published", "confirm", "finally"}
Told(c) ==
    c \in Catalog!Registered /\ Catalog!At(c, "over") =>
        report[c].status = "REGISTERED" \/ report[c].retained
\* A verification is about a record, by its digest; so is what was trusted.
Anchored(c) ==
    call[c].at \in {"check", "recheck"} =>
        call[c].target \in Catalog!Registered /\ call[c].digest = Catalog!Anchor(c)
Trusted(c) ==
    report[c].status = "TRUSTED" =>
        /\ report[c].about \in Catalog!Registered
        /\ report[c].digest = records[report[c].about].digest
NothingTold(c) ==
    call[c].at \notin {"over", "killed"} => report[c] \in Plain /\ report[c].status = "FAILED"

Own(c) ==
    /\ StillAdmitted(c) /\ OwnRecord(c) /\ Told(c)
    /\ Anchored(c) /\ Trusted(c) /\ NothingTold(c)
CatalogInv ==
    CatalogTypes /\ Alone /\ Catalog!OneRecordEach /\ \A c \in Calls : Own(c)

LEMMA CatalogFollows == CatalogInv => Catalog!TypeOK /\ Catalog!CatalogSound
<1> SUFFICES ASSUME CatalogInv PROVE Catalog!TypeOK /\ Catalog!CatalogSound
    OBVIOUS
<1>1. CatalogTypes BY DEF CatalogInv
<1>2. ASSUME NEW c \in Calls PROVE call[c].at \in Catalog!Steps
  <2>1. call[c] \in Invocation BY <1>1 DEF CatalogTypes
  <2> QED BY <2>1 DEF Invocation, Registering, Verifying, Inspecting, Ended, RegisterSteps,
                      VerifySteps, InspectSteps, Catalog!Steps
<1>3. ASSUME NEW c \in Calls
      PROVE  report[c].status \in {"FAILED", "REGISTERED", "TRUSTED", "INSPECTED"}
  <2>1. report[c] \in Plain \cup Trusting BY <1>1 DEF CatalogTypes
  <2> QED BY <2>1 DEF Plain, Trusting
<1>4. Catalog!TypeOK BY <1>1, <1>2, <1>3 DEF CatalogTypes, Catalog!TypeOK, Record
<1>5. Catalog!RecordReported BY DEF CatalogInv, Own, Told, Catalog!RecordReported,
                                Catalog!Registered
<1>6. Catalog!TrustedIsRegistered BY DEF CatalogInv, Own, Trusted, Catalog!TrustedIsRegistered
<1> QED BY <1>4, <1>5, <1>6 DEF CatalogInv, Catalog!CatalogSound

LEMMA InitCatalog ==
    ASSUME Catalog!BoundsAssumption, Catalog!Init
    PROVE  CatalogInv
<1>1. \A c \in Calls : call[c] = [at |-> "new"] BY DEF Catalog!Init
<1>2. \A c \in Calls : report[c] = [status |-> "FAILED", publication |-> "NOT_PUBLISHED",
                                    retained |-> FALSE]
  BY DEF Catalog!Init
<1>3. \A c \in Calls : call[c] \in Invocation /\ call[c].at = "new" BY <1>1 DEF Invocation, Ended
<1>4. \A c \in Calls : report[c] \in Plain /\ report[c].status = "FAILED"
  <2>1. [status |-> "FAILED", publication |-> "NOT_PUBLISHED", retained |-> FALSE] \in Plain
    BY DEF Plain
  <2> QED BY <1>2, <2>1
<1>5. Catalog!Registered = {} /\ Catalog!Running = {} BY <1>3 DEF Catalog!Init,
                                                         Catalog!Registered, Catalog!Running
<1>6. CatalogTypes
  <2>1. call = [c \in Calls |-> call[c]] /\ report = [c \in Calls |-> report[c]]
    BY DEF Catalog!Init
  <2>2. call \in [Calls -> Invocation] BY <1>3, <2>1
  <2>3. report \in [Calls -> Plain \cup Trusting] BY <1>4, <2>1
  <2> QED BY <2>2, <2>3 DEF Catalog!Init, CatalogTypes, Catalog!BoundsAssumption
<1>7. Alone /\ Catalog!OneRecordEach BY <1>5 DEF Alone, Catalog!OneRecordEach
<1>8. ASSUME NEW c \in Calls PROVE Own(c)
  BY <1>3, <1>4, <1>5
     DEF Own, StillAdmitted, OwnRecord, Told, Anchored, Trusted, NothingTold
<1> QED BY <1>6, <1>7, <1>8 DEF CatalogInv

\* What a call is at a step.
LEMMA CallAt ==
    ASSUME CatalogTypes, NEW c \in Calls
    PROVE  /\ call[c] \in Invocation
           /\ c \in Catalog!Running => call[c] \in Registering \cup Verifying \cup Inspecting
           /\ c \in Catalog!Running <=> call[c].at \notin Ended
           /\ call[c].at \in RegisterSteps \ {"inventory", "finally"} =>
                  c \in Catalog!Running /\ call[c] \in Registering
           /\ call[c].at \in {"lookup", "check", "recheck"} =>
                  c \in Catalog!Running /\ call[c] \in Verifying
           /\ call[c].at = "show" => c \in Catalog!Running /\ call[c] \in Inspecting
<1>1. call[c] \in Invocation BY DEF CatalogTypes
<1>2. c \in Catalog!Running <=> call[c].at \notin Ended BY DEF Catalog!Running, Ended
<1>3. call[c] \in Registering => call[c].at \in RegisterSteps BY DEF Registering
<1>4. call[c] \in Verifying => call[c].at \in VerifySteps BY DEF Verifying
<1>5. call[c] \in Inspecting => call[c].at \in InspectSteps BY DEF Inspecting
<1>6. call[c] \in [at: Ended] => call[c].at \in Ended OBVIOUS
<1>7. /\ call[c] \in [at: Ended] \/ call[c] \in Registering \/ call[c] \in Verifying
         \/ call[c] \in Inspecting
  BY <1>1 DEF Invocation
<1> QED BY <1>1, <1>2, <1>3, <1>4, <1>5, <1>6, <1>7
        DEF RegisterSteps, VerifySteps, InspectSteps, Ended

\* A running call that goes to a step of its kind, or ends.
LEMMA GoesTo ==
    ASSUME CatalogTypes, NEW c \in Catalog!Running, NEW step, Catalog!Goes(c, step),
           \/ step \in {"over", "killed"}
           \/ call[c] \in Registering /\ step \in RegisterSteps
           \/ call[c] \in Verifying /\ step \in VerifySteps
           \/ call[c] \in Inspecting /\ step \in InspectSteps
    PROVE  /\ call' \in [Calls -> Invocation] /\ call'[c].at = step
           /\ \A d \in Calls : d # c => call'[d] = call[d]
           /\ step \notin {"over", "killed"} =>
                 call'[c] = [call[c] EXCEPT !.at = step] /\ call'[c].action = call[c].action
<1> DEFINE new == IF step \in {"over",
    "killed"} THEN [at |-> step] ELSE [call[c] EXCEPT !.at = step]
<1>1. call' = [call EXCEPT ![c] = new] BY DEF Catalog!Goes
<1>2. c \in Calls BY DEF Catalog!Running
<1>3. CASE step \in {"over", "killed"}
  <2>1. new = [at |-> step] BY <1>3
  <2>2. new \in Invocation /\ new.at = step BY <1>3, <2>1 DEF Invocation, Ended
  <2> HIDE DEF new
  <2> QED BY <1>1, <1>2, <1>3, <2>2 DEF CatalogTypes
<1>4. CASE step \notin {"over", "killed"}
  <2>1. new = [call[c] EXCEPT !.at = step] BY <1>4
  <2>2. call[c] \in Registering \cup Verifying \cup Inspecting BY CallAt, <1>2
  <2>3. new \in Invocation /\ new.at = step /\ new.action = call[c].action
    <3>1. CASE call[c] \in Registering /\ step \in RegisterSteps
      BY <2>1, <3>1 DEF Registering, Invocation
    <3>2. CASE call[c] \in Verifying /\ step \in VerifySteps
      BY <2>1, <3>2 DEF Verifying, Invocation
    <3>3. CASE call[c] \in Inspecting /\ step \in InspectSteps
      BY <2>1, <3>3 DEF Inspecting, Invocation
    <3> QED BY <1>4, <3>1, <3>2, <3>3
  <2> HIDE DEF new
  <2> QED BY <1>1, <1>2, <1>4, <2>1, <2>3 DEF CatalogTypes
<1> QED BY <1>3, <1>4

\* A step of one running call that publishes nothing.
LEMMA OneCallMoves ==
    ASSUME CatalogInv, NEW c \in Catalog!Running, CatalogTypes', records' = records,
           \A d \in Calls : d # c => call'[d] = call[d] /\ report'[d] = report[d],
           call'[c].at \in {"over", "killed"} \/ call'[c].action = call[c].action,
           call'[c].at # "new", Own(c)'
    PROVE  CatalogInv'
<1>1. Catalog!Registered' = Catalog!Registered BY DEF Catalog!Registered
<1>2. c \in Calls BY DEF Catalog!Running
<1>3. ASSUME NEW d \in Catalog!Running' PROVE d \in Catalog!Running
    /\ call'[d].action = call[d].action
  <2>1. d \in Calls /\ call'[d].at \notin {"new", "over", "killed"} BY DEF Catalog!Running
  <2>2. CASE d = c BY <2>1, <2>2
  <2>3. CASE d # c BY <2>1, <2>3 DEF Catalog!Running
  <2> QED BY <2>2, <2>3
<1>4. Alone'
  <2> SUFFICES ASSUME NEW d \in Catalog!Running', NEW e \in Catalog!Running',
      call'[d].action = "register"
               PROVE  d = e
    BY DEF Alone
  <2> QED BY <1>3 DEF CatalogInv, Alone
<1>5. Catalog!OneRecordEach' BY <1>1 DEF CatalogInv, Catalog!OneRecordEach
<1>6. ASSUME NEW d \in Calls, d # c PROVE Own(d)'
  <2>1. call'[d] = call[d] /\ report'[d] = report[d] /\ Own(d) BY <1>6 DEF CatalogInv
  <2>2. StillAdmitted(d)' BY <1>1, <2>1 DEF Own, StillAdmitted, Differs
  <2>3. OwnRecord(d)' /\ Told(d)' BY <1>1, <2>1 DEF Own, OwnRecord, Told, Catalog!At
  <2>4. Anchored(d)' /\ Trusted(d)' BY <1>1, <2>1 DEF Own, Anchored, Catalog!Anchor, Trusted
  <2>5. NothingTold(d)' BY <2>1 DEF Own, NothingTold
  <2> QED BY <2>2, <2>3, <2>4, <2>5 DEF Own
<1> QED BY <1>4, <1>5, <1>6 DEF CatalogInv

\* What holds of a running call before its step.
LEMMA RunningOwn ==
    ASSUME CatalogInv, NEW c \in Catalog!Running
    PROVE  /\ c \in Calls /\ CatalogTypes /\ Own(c)
           /\ report[c] \in Plain /\ report[c].status = "FAILED"
           /\ c \in Catalog!Registered => call[c] \in Registering
<1>1. c \in Calls /\ CatalogTypes /\ Own(c) BY DEF CatalogInv, Catalog!Running
<1>2. call[c].at \notin {"over", "killed"} BY DEF Catalog!Running
<1>3. c \in Catalog!Registered => call[c].action = "register" BY <1>1, <1>2 DEF Own, OwnRecord
<1>4. call[c] \in Registering \cup Verifying \cup Inspecting BY <1>1, CallAt
<1>5. c \in Catalog!Registered => call[c] \in Registering
  BY <1>3, <1>4 DEF Verifying, Inspecting
<1> QED BY <1>1, <1>2, <1>5 DEF Own, NothingTold

\* A call that goes on, or ends, and tells nothing.
LEMMA QuietKeeps ==
    ASSUME CatalogInv, NEW c \in Catalog!Running, NEW step, Catalog!Goes(c, step),
           \/ step \in {"over", "killed"}
           \/ call[c] \in Registering /\ step \in RegisterSteps
           \/ call[c] \in Verifying /\ step \in VerifySteps
           \/ call[c] \in Inspecting /\ step \in InspectSteps,
           UNCHANGED <<records, report>>, residue' \subseteq Calls,
           bytes' = bytes, faults' \in 0..CatalogFaults,
           step \in {"verify", "stage", "verify staged", "compare", "publish"} =>
               \A d \in Catalog!Registered : Differs(c, d),
           step \in {"check", "recheck"} =>
               call[c].target \in Catalog!Registered /\ call[c].digest = Catalog!Anchor(c),
           c \in Catalog!Registered => step \in {"killed", "verify published", "confirm",
               "finally"}
    PROVE  CatalogInv'
<1>1. c \in Calls /\ CatalogTypes /\ Own(c) BY RunningOwn
<1>2. report[c] \in Plain /\ report[c].status = "FAILED" BY RunningOwn
<1>3. /\ call' \in [Calls -> Invocation] /\ call'[c].at = step
      /\ \A d \in Calls : d # c => call'[d] = call[d]
      /\ step \notin {"over", "killed"} =>
            call'[c] = [call[c] EXCEPT !.at = step] /\ call'[c].action = call[c].action
  BY <1>1, GoesTo
<1>4. step # "new"
  BY DEF RegisterSteps, VerifySteps, InspectSteps
<1>5. CatalogTypes' BY <1>1, <1>3 DEF CatalogTypes
<1>6. Catalog!Registered' = Catalog!Registered BY DEF Catalog!Registered
<1>7. call[c] \in Registering \cup Verifying \cup Inspecting BY <1>1, CallAt
<1>8. StillAdmitted(c)'
  <2> SUFFICES ASSUME step \in {"verify", "stage", "verify staged", "compare", "publish"},
                      NEW d \in Catalog!Registered
               PROVE  records[d].op # call'[c].op /\ records[d].at # call'[c].place
    BY <1>3, <1>6 DEF StillAdmitted, Differs
  <2>1. call[c] \in Registering BY DEF VerifySteps, InspectSteps
  <2>2. call'[c].op = call[c].op /\ call'[c].place = call[c].place
    BY <1>3, <2>1 DEF Registering
  <2> QED BY <2>2 DEF Differs
<1>9. OwnRecord(c)'
  <2> SUFFICES ASSUME c \in Catalog!Registered, step # "killed" PROVE call'[c].action = "register"
    BY <1>3, <1>6 DEF OwnRecord
  <2>1. call[c].action = "register" BY RunningOwn DEF Registering
  <2> QED BY <1>3, <2>1
<1>10. Told(c)' BY <1>3, <1>6 DEF Told, Catalog!At
<1>11. Anchored(c)'
  <2> SUFFICES ASSUME step \in {"check", "recheck"}
               PROVE  call'[c].target \in Catalog!Registered
                      /\ call'[c].digest = records[call'[c].target].digest
    BY <1>3, <1>6 DEF Anchored, Catalog!Anchor
  <2>1. call[c] \in Verifying BY DEF RegisterSteps, InspectSteps
  <2>2. call'[c].target = call[c].target /\ call'[c].digest = call[c].digest
    BY <1>3, <2>1 DEF Verifying
  <2> QED BY <2>2 DEF Catalog!Anchor
<1>12. Trusted(c)' BY <1>2 DEF Trusted
<1>13. NothingTold(c)' BY <1>2 DEF NothingTold
<1>14. Own(c)' BY <1>8, <1>9, <1>10, <1>11, <1>12, <1>13 DEF Own
<1> QED BY <1>3, <1>4, <1>5, <1>14, OneCallMoves

\* A call that ends and says how.
LEMMA TellingKeeps ==
    ASSUME CatalogInv, NEW c \in Catalog!Running, Catalog!Goes(c, "over"),
           NEW said, report' = [report EXCEPT ![c] = said], said \in Plain \cup Trusting,
           UNCHANGED <<records, bytes>>, residue' \subseteq Calls, faults' \in 0..CatalogFaults,
           c \in Catalog!Registered => said.status = "REGISTERED" \/ said.retained,
           said.status = "TRUSTED" =>
               said.about \in Catalog!Registered /\ said.digest = records[said.about].digest
    PROVE  CatalogInv'
<1>1. c \in Calls /\ CatalogTypes /\ Own(c) BY RunningOwn
<1>2. /\ call' \in [Calls -> Invocation] /\ call'[c].at = "over"
      /\ \A d \in Calls : d # c => call'[d] = call[d]
  BY <1>1, GoesTo
<1>3. /\ report' \in [Calls -> Plain \cup Trusting] /\ report'[c] = said
      /\ \A d \in Calls : d # c => report'[d] = report[d]
  BY <1>1 DEF CatalogTypes
<1>4. CatalogTypes' BY <1>1, <1>2, <1>3 DEF CatalogTypes
<1>5. Catalog!Registered' = Catalog!Registered BY DEF Catalog!Registered
<1>6. Own(c)'
  BY <1>2, <1>3, <1>5
     DEF Own, StillAdmitted, OwnRecord, Told, Anchored, Trusted, NothingTold, Catalog!At
<1> QED BY <1>2, <1>3, <1>4, <1>6, OneCallMoves


\* The lock is free for the invocation that starts.
LEMMA StartKeeps ==
    ASSUME CatalogInv, NEW c \in Calls,
           NEW arguments \in Registering \cup Verifying \cup Inspecting,
           arguments.at = "inventory", Catalog!Start(c, arguments)
    PROVE  CatalogInv'
<1> DEFINE new == IF Catalog!Free(arguments.action = "register") THEN arguments ELSE [at |-> "over"]
<1>1. CatalogTypes /\ Own(c) BY DEF CatalogInv
<1>2. /\ call' = [call EXCEPT ![c] = new] /\ call[c].at = "new"
      /\ UNCHANGED <<records, residue, bytes, report, faults>>
  BY DEF Catalog!Start, Catalog!At
<1>3. new \in Invocation /\ new.at \in {"inventory", "over"}
  <2>1. CASE new = arguments BY <2>1 DEF Invocation
  <2>2. CASE new = [at |-> "over"] BY <2>2 DEF Invocation, Ended
  <2> QED BY <2>1, <2>2
<1>4. new.at = "inventory" => new = arguments /\ Catalog!Free(arguments.action = "register")
  OBVIOUS
<1>5. /\ call' \in [Calls -> Invocation] /\ call'[c] = new
      /\ \A d \in Calls : d # c => call'[d] = call[d]
  <2> HIDE DEF new
  <2> QED BY <1>1, <1>2, <1>3 DEF CatalogTypes
<1>6. CatalogTypes' BY <1>1, <1>2, <1>5 DEF CatalogTypes
<1>7. Catalog!Registered' = Catalog!Registered BY <1>2 DEF Catalog!Registered
<1>8. c \notin Catalog!Running /\ c \notin Catalog!Registered
  BY <1>1, <1>2 DEF Catalog!Running, Own, OwnRecord
<1>9. \A d \in Catalog!Running' : d # c => d \in Catalog!Running BY <1>5 DEF Catalog!Running
<1>10. c \in Catalog!Running' => new = arguments /\ Catalog!Free(arguments.action = "register")
  <2>1. c \in Catalog!Running' => new.at # "over" BY <1>5 DEF Catalog!Running
  <2> HIDE DEF new
  <2> QED BY <2>1, <1>3, <1>4
<1> HIDE DEF new
<1>11. Alone'
  <2> SUFFICES ASSUME NEW d \in Catalog!Running', NEW e \in Catalog!Running',
      call'[d].action = "register"
               PROVE  d = e
    BY DEF Alone
  <2>1. CASE d # c /\ e # c BY <1>5, <1>9, <2>1 DEF CatalogInv, Alone, Catalog!Running
  <2>2. CASE d = c /\ e # c BY <1>5, <1>9, <1>10, <2>2 DEF Catalog!Free
  <2>3. CASE d # c /\ e = c
    <3>1. call[d].action = "register" /\ d \in Catalog!Running BY <1>5, <1>9,
      <2>3 DEF Catalog!Running
    <3> QED BY <1>10, <2>3, <3>1 DEF Catalog!Free
  <2> QED BY <2>1, <2>2, <2>3
<1>12. Catalog!OneRecordEach' BY <1>2, <1>7 DEF CatalogInv, Catalog!OneRecordEach
<1>13. ASSUME NEW d \in Calls PROVE Own(d)'
  <2>1. Own(d) BY DEF CatalogInv
  <2>2. CASE d = c
    <3>1. c \notin Catalog!Registered' BY <1>7, <1>8
    <3>2. call'[c].at \in {"inventory", "over"} BY <1>3, <1>5
    <3>3. call'[c].at = "inventory" \/ call'[c].at = "over" BY <3>2
    <3>4. OwnRecord(c)' /\ Told(c)' BY <3>1 DEF OwnRecord, Told
    <3>5. StillAdmitted(c)' /\ Anchored(c)' BY <3>2 DEF StillAdmitted, Anchored
    <3>6. report'[c] = report[c] /\ report[c] \in Plain /\ report[c].status = "FAILED"
      BY <1>1, <1>2 DEF Own, NothingTold
    <3>7. Trusted(c)' /\ NothingTold(c)' BY <3>6 DEF Trusted, NothingTold
    <3> QED BY <2>2, <3>4, <3>5, <3>7 DEF Own
  <2>3. CASE d # c
    <3>1. call'[d] = call[d] /\ report'[d] = report[d] BY <1>2, <1>5, <2>3
    <3>2. StillAdmitted(d)' BY <1>2, <1>7, <2>1, <3>1 DEF Own, StillAdmitted, Differs
    <3>3. OwnRecord(d)' /\ Told(d)' BY <1>7, <2>1, <3>1 DEF Own, OwnRecord, Told, Catalog!At
    <3>4. Anchored(d)' /\ Trusted(d)'
      BY <1>2, <1>7, <2>1, <3>1 DEF Own, Anchored, Catalog!Anchor, Trusted
    <3>5. NothingTold(d)' BY <2>1, <3>1 DEF Own, NothingTold
    <3> QED BY <3>2, <3>3, <3>4, <3>5 DEF Own
  <2> QED BY <2>2, <2>3
<1> QED BY <1>6, <1>11, <1>12, <1>13 DEF CatalogInv

LEMMA StartsKeep ==
    ASSUME CatalogInv, NEW c \in Calls,
           \/ \E s \in Snapshots, op \in Operations : Catalog!StartRegister(c, s, op)
           \/ \E s \in Snapshots, target \in Calls : Catalog!StartVerify(c, s, target)
           \/ \E target \in Calls : Catalog!StartInspect(c, target)
    PROVE  CatalogInv'
<1>1. \A s \in Snapshots : bytes[s] \in 0..MaxAlters BY DEF CatalogInv, CatalogTypes
<1>2. ASSUME NEW s \in Snapshots, NEW op \in Operations, Catalog!StartRegister(c, s, op)
      PROVE  CatalogInv'
  <2> DEFINE arguments == [at |-> "inventory", action |-> "register", place |-> s, op |-> op,
                           digest |-> bytes[s], seen |-> {}]
  <2>1. arguments \in Registering BY <1>1 DEF Registering, RegisterSteps
  <2>2. arguments.at = "inventory" OBVIOUS
  <2>3. Catalog!Start(c, arguments) BY <1>2 DEF Catalog!StartRegister
  <2> HIDE DEF arguments
  <2> QED BY <2>1, <2>2, <2>3, StartKeeps
<1>3. ASSUME NEW s \in Snapshots, NEW target \in Calls, Catalog!StartVerify(c, s, target)
      PROVE  CatalogInv'
  <2> DEFINE arguments == [at |-> "inventory", action |-> "verify", place |-> s,
                           target |-> target, digest |-> bytes[s], seen |-> {}]
  <2>1. arguments \in Verifying BY <1>1 DEF Verifying, VerifySteps
  <2>2. arguments.at = "inventory" OBVIOUS
  <2>3. Catalog!Start(c, arguments) BY <1>3 DEF Catalog!StartVerify
  <2> HIDE DEF arguments
  <2> QED BY <2>1, <2>2, <2>3, StartKeeps
<1>4. ASSUME NEW target \in Calls, Catalog!StartInspect(c, target) PROVE CatalogInv'
  <2> DEFINE arguments == [at |-> "inventory", action |-> "inspect", target |-> target,
                           seen |-> {}]
  <2>1. arguments \in Inspecting BY DEF Inspecting, InspectSteps
  <2>2. arguments.at = "inventory" OBVIOUS
  <2>3. Catalog!Start(c, arguments) BY <1>4 DEF Catalog!StartInspect
  <2> HIDE DEF arguments
  <2> QED BY <2>1, <2>2, <2>3, StartKeeps
<1> QED BY <1>2, <1>3, <1>4

\* The first inventory: an admitted registration differs from every record.
LEMMA InventoryKeeps ==
    ASSUME CatalogInv, NEW c \in Calls, Catalog!Inventory(c)
    PROVE  CatalogInv'
<1>1. CatalogTypes /\ Own(c) /\ call[c].at = "inventory"
  BY DEF CatalogInv, Catalog!Inventory, Catalog!At
<1>2. c \in Catalog!Running BY <1>1 DEF Catalog!Running
<1>3. /\ report[c] \in Plain /\ report[c].status = "FAILED"
      /\ c \notin Catalog!Registered
  BY <1>1, <1>2, RunningOwn DEF Own, OwnRecord
<1>4. UNCHANGED <<records, residue, bytes, report, faults>> BY DEF Catalog!Inventory
<1>5. Catalog!Registered' = Catalog!Registered BY <1>4 DEF Catalog!Registered
<1>6. PICK step \in Catalog!Steps :
          /\ call' = [call EXCEPT ![c].at = step, ![c].seen = Catalog!Registered]
          /\ call[c].action = "register" => step \in {"verify", "finally"}
          /\ call[c].action = "register" /\ step = "verify" => Catalog!Admitted(c)
          /\ call[c].action # "register" =>
                step = IF call[c].action = "verify" THEN "lookup" ELSE "show"
  BY DEF Catalog!Inventory, Catalog!Steps
<1>7. /\ call[c] \in Registering \cup Verifying \cup Inspecting
      /\ Catalog!Registered \in SUBSET Calls
  BY <1>1, <1>2, CallAt DEF Catalog!Registered
<1> DEFINE new == [call[c] EXCEPT !.at = step, !.seen = Catalog!Registered]
<1>8. new \in Invocation /\ new.at = step /\ new.action = call[c].action
  <2>1. CASE call[c] \in Registering
    BY <1>6, <1>7, <2>1 DEF Registering, RegisterSteps, Invocation
  <2>2. CASE call[c] \in Verifying
    BY <1>6, <1>7, <2>2 DEF Verifying, VerifySteps, Invocation
  <2>3. CASE call[c] \in Inspecting
    BY <1>6, <1>7, <2>3 DEF Inspecting, InspectSteps, Invocation
  <2> QED BY <1>7, <2>1, <2>2, <2>3
<1>9. call' = [call EXCEPT ![c] = new] BY <1>1, <1>6 DEF CatalogTypes
<1>10. call[c].action = "register" => new.op = call[c].op /\ new.place = call[c].place
  BY <1>7 DEF Registering, Verifying, Inspecting
<1>11. step \in {"verify", "finally", "lookup", "show"}
  BY <1>6
<1> HIDE DEF new
<1>12. /\ call' \in [Calls -> Invocation] /\ call'[c] = new
       /\ \A d \in Calls : d # c => call'[d] = call[d]
  BY <1>1, <1>8, <1>9 DEF CatalogTypes
<1>13. CatalogTypes' BY <1>1, <1>4, <1>12 DEF CatalogTypes
<1>14. StillAdmitted(c)'
  <2> SUFFICES ASSUME call'[c].at = "verify", NEW d \in Catalog!Registered PROVE Differs(c, d)'
    BY <1>5, <1>8, <1>11, <1>12 DEF StillAdmitted
  <2>1. step = "verify" BY <1>8, <1>12
  <2>2. call[c].action = "register" /\ Catalog!Admitted(c) BY <1>6, <2>1
  <2>3. records[d].op # call[c].op /\ records[d].at # call[c].place BY <2>2 DEF Catalog!Admitted
  <2> QED BY <1>4, <1>10, <1>12, <2>2, <2>3 DEF Differs
<1>15. OwnRecord(c)' /\ Told(c)' BY <1>3, <1>5 DEF OwnRecord, Told
<1>16. Anchored(c)' BY <1>8, <1>11, <1>12 DEF Anchored
<1>17. Trusted(c)' /\ NothingTold(c)' BY <1>3, <1>4 DEF Trusted, NothingTold
<1>18. Own(c)' BY <1>14, <1>15, <1>16, <1>17 DEF Own
<1>19. call'[c].at # "new" /\ call'[c].action = call[c].action BY <1>8, <1>11, <1>12
<1> QED BY <1>2, <1>4, <1>12, <1>13, <1>18, <1>19, OneCallMoves

\* The lookup takes the digest from the record.
LEMMA LookupKeeps ==
    ASSUME CatalogInv, NEW c \in Calls, Catalog!NamesAssumption, Catalog!Lookup(c)
    PROVE  CatalogInv'
<1>1. CatalogTypes /\ Own(c) /\ call[c].at = "lookup"
  BY DEF CatalogInv, Catalog!Lookup, Catalog!At
<1>2. c \in Catalog!Running /\ call[c] \in Verifying BY <1>1, CallAt
<1>3. report[c] \in Plain /\ report[c].status = "FAILED" /\ c \notin Catalog!Registered
  BY <1>1, <1>2, RunningOwn DEF Own, OwnRecord
<1>4. UNCHANGED <<records, residue, bytes, report, faults>> BY DEF Catalog!Lookup
<1>5. Catalog!Registered' = Catalog!Registered BY <1>4 DEF Catalog!Registered
<1>6. CASE call[c].target \in Catalog!Registered /\ records[call[c].target].at = call[c].place
  <2> DEFINE anchor == records[call[c].target].digest
             new == [call[c] EXCEPT !.at = "check", !.digest = anchor]
  <2>1. anchor \in 0..MaxAlters BY <1>1, <1>6 DEF CatalogTypes, Catalog!Registered, Record
  <2>2. call' = [call EXCEPT ![c].at = "check", ![c].digest = anchor]
    BY <1>6 DEF Catalog!Lookup, Catalog!Anchor
  <2>3. call' = [call EXCEPT ![c] = new] BY <1>1, <2>2 DEF CatalogTypes
  <2>4. /\ new \in Invocation /\ new.at = "check" /\ new.action = call[c].action
        /\ new.target = call[c].target /\ new.digest = anchor
    BY <1>2, <2>1 DEF Verifying, VerifySteps, Invocation
  <2> HIDE DEF new
  <2>5. /\ call' \in [Calls -> Invocation] /\ call'[c] = new
        /\ \A d \in Calls : d # c => call'[d] = call[d]
    BY <1>1, <2>3, <2>4 DEF CatalogTypes
  <2>6. CatalogTypes' BY <1>1, <1>4, <2>5 DEF CatalogTypes
  <2>7. StillAdmitted(c)' /\ OwnRecord(c)' /\ Told(c)'
    BY <1>3, <1>5, <2>4, <2>5 DEF StillAdmitted, OwnRecord, Told
  <2>8. Anchored(c)' BY <1>4, <1>5, <1>6, <2>4, <2>5 DEF Anchored, Catalog!Anchor
  <2>9. Trusted(c)' /\ NothingTold(c)' BY <1>3, <1>4 DEF Trusted, NothingTold
  <2>10. Own(c)' BY <2>7, <2>8, <2>9 DEF Own
  <2>11. call'[c].at # "new" /\ call'[c].action = call[c].action BY <2>4, <2>5
  <2> QED BY <1>2, <1>4, <2>5, <2>6, <2>10, <2>11, OneCallMoves
<1>7. CASE ~(call[c].target \in Catalog!Registered /\ records[call[c].target].at = call[c].place)
  <2>1. Catalog!Goes(c, "finally") BY <1>7 DEF Catalog!Lookup
  <2> QED BY <1>1, <1>2, <1>3, <1>4, <2>1, QuietKeeps DEF CatalogTypes, VerifySteps
<1> QED BY <1>6, <1>7


\* The steps that change nothing a return tells: the three verifications of a
\* registration, its staging, its second inventory, the check of a verification.
LEMMA RegistrationGoesOn ==
    ASSUME CatalogInv, NEW c \in Calls,
           Catalog!VerifySnapshot(c) \/ Catalog!WriteStage(c) \/ Catalog!Compare(c)
    PROVE  CatalogInv'
<1>1. CatalogTypes /\ Own(c) /\ c \in Calls BY DEF CatalogInv
<1>2. faults' \in 0..CatalogFaults /\ UNCHANGED <<records, bytes,
    report>> /\ residue' \subseteq Calls
  BY <1>1 DEF Catalog!VerifySnapshot, Catalog!VerifyFor, Catalog!WriteStage, Catalog!Compare,
     CatalogTypes
<1>3. ASSUME NEW from \in RegisterSteps \ {"inventory", "finally"}, NEW step \in RegisterSteps,
             call[c].at = from, Catalog!Goes(c, step),
             from \in {"verify published", "confirm"} \/
                 ((\A d \in Catalog!Registered : Differs(c, d)) /\ c \notin Catalog!Registered),
             from \in {"verify published", "confirm"} => step \in {"confirm", "finally"}
      PROVE  CatalogInv'
  <2>1. c \in Catalog!Running /\ call[c] \in Registering BY <1>1, <1>3, CallAt
  <2>2. c \in Catalog!Registered => step \in {"confirm", "finally"} BY <1>3
  <2>3. step \notin {"check", "recheck"} BY DEF RegisterSteps
  <2>4. step \in {"verify", "stage", "verify staged", "compare", "publish"} =>
            \A d \in Catalog!Registered : Differs(c, d)
    BY <1>3
  <2> QED BY <1>1, <1>2, <1>3, <2>1, <2>2, <2>3, <2>4, QuietKeeps
<1>4. call[c].at \in {"verify", "stage", "verify staged", "compare", "publish"} =>
          (\A d \in Catalog!Registered : Differs(c, d)) /\ c \notin Catalog!Registered
  BY <1>1 DEF Own, StillAdmitted, OwnRecord
<1>5. CASE Catalog!VerifyFor(c, "verify", "stage")
  <2>1. call[c].at = "verify" /\ Catalog!Goes(c, IF Catalog!Matches(c) THEN "stage" ELSE "finally")
    BY <1>5 DEF Catalog!VerifyFor, Catalog!At, Catalog!Passed
  <2> QED BY <1>3, <1>4, <2>1 DEF RegisterSteps
<1>6. CASE Catalog!VerifyFor(c, "verify staged", "compare")
  <2>1. call[c].at = "verify staged" /\ Catalog!Goes(c,
      IF Catalog!Matches(c) THEN "compare" ELSE "finally")
    BY <1>6 DEF Catalog!VerifyFor, Catalog!At, Catalog!Passed
  <2> QED BY <1>3, <1>4, <2>1 DEF RegisterSteps
<1>7. CASE Catalog!VerifyFor(c, "verify published", "confirm")
  <2>1. call[c].at = "verify published" /\ (Catalog!Goes(c, "confirm") \/ Catalog!Goes(c,
      "finally"))
    BY <1>7 DEF Catalog!VerifyFor, Catalog!At, Catalog!Passed
  <2> QED BY <1>3, <2>1 DEF RegisterSteps
<1>8. CASE Catalog!WriteStage(c)
  <2>1. call[c].at = "stage" /\ Catalog!Goes(c, "verify staged") BY <1>8 DEF Catalog!WriteStage,
    Catalog!At
  <2> QED BY <1>3, <1>4, <2>1 DEF RegisterSteps
<1>9. CASE Catalog!Compare(c)
  <2>1. call[c].at = "compare" /\ (Catalog!Goes(c, "publish") \/ Catalog!Goes(c, "finally"))
    BY <1>9 DEF Catalog!Compare, Catalog!At, Catalog!Passed
  <2> QED BY <1>3, <1>4, <2>1 DEF RegisterSteps
<1> QED BY <1>5, <1>6, <1>7, <1>8, <1>9 DEF Catalog!VerifySnapshot

\* Nothing else runs while a record is published, and no record is like it.
LEMMA PublishKeeps ==
    ASSUME CatalogInv, Catalog!BoundsAssumption, Catalog!NamesAssumption, NEW c \in Calls,
           Catalog!Publish(c)
    PROVE  CatalogInv'
<1> DEFINE new == [op |-> call[c].op, at |-> call[c].place, digest |-> call[c].digest]
<1>1. CatalogTypes /\ Own(c) /\ call[c].at = "publish"
  BY DEF CatalogInv, Catalog!Publish, Catalog!At
<1>2. c \in Catalog!Running /\ call[c] \in Registering BY <1>1, CallAt DEF RegisterSteps
<1>3. /\ report[c] \in Plain /\ report[c].status = "FAILED" /\ c \notin Catalog!Registered
      /\ \A d \in Catalog!Registered : Differs(c, d)
  BY <1>1, <1>2, RunningOwn DEF Own, OwnRecord, StillAdmitted
<1>4. PICK step \in {"verify published", "finally"} :
          /\ Catalog!Goes(c, step) /\ faults' \in 0..CatalogFaults
          /\ \/ report' = report
             \/ report' = [report EXCEPT ![c].publication = "PUBLISHED"]
  <2>1. faults \in 0..CatalogFaults BY <1>1 DEF CatalogTypes
  <2>2. CASE /\ Catalog!Goes(c, "verify published") /\ faults' = faults
             /\ report' = [report EXCEPT ![c].publication = "PUBLISHED"]
    BY <2>1, <2>2
  <2>3. CASE Catalog!Goes(c, "finally") /\ Catalog!Fault /\ report' = report
    <3>1. faults' \in 0..CatalogFaults BY <2>1, <2>3 DEF Catalog!Fault, Catalog!BoundsAssumption
    <3> QED BY <2>3, <3>1
  <2> QED BY <2>2, <2>3 DEF Catalog!Publish
<1>5. residue' = residue \ {c} /\ records' = [records EXCEPT ![c] = new] /\ bytes' = bytes
  BY DEF Catalog!Publish
<1>6. new \in Record BY <1>2 DEF Registering, Record
<1>7. new # None /\ new.op = call[c].op /\ new.at = call[c].place
  BY <1>6 DEF Catalog!NamesAssumption, Record
<1> HIDE DEF new
<1>8. /\ records' \in [Calls -> Record \cup {None}] /\ records'[c] = new
      /\ \A d \in Calls : d # c => records'[d] = records[d]
  BY <1>1, <1>5, <1>6 DEF CatalogTypes
<1>9. /\ Catalog!Registered' = Catalog!Registered \cup {c}
      /\ \A d \in Catalog!Registered : d # c /\ records'[d] = records[d]
  BY <1>3, <1>7, <1>8 DEF Catalog!Registered
<1>10. /\ call' \in [Calls -> Invocation] /\ call'[c].at = step
       /\ call'[c].action = call[c].action /\ call[c].action = "register"
       /\ \A d \in Calls : d # c => call'[d] = call[d]
  <2>1. step \in RegisterSteps /\ step \notin {"over", "killed"} BY DEF RegisterSteps
  <2> QED BY <1>1, <1>2, <1>4, <2>1, GoesTo DEF Registering
<1>11. /\ report' \in [Calls -> Plain \cup Trusting]
       /\ report'[c] \in Plain /\ report'[c].status = "FAILED"
       /\ \A d \in Calls : d # c => report'[d] = report[d]
  <2>1. [report[c] EXCEPT !.publication = "PUBLISHED"] \in Plain
        /\ [report[c] EXCEPT !.publication = "PUBLISHED"].status = "FAILED"
    BY <1>3 DEF Plain
  <2>2. CASE report' = report BY <1>1, <1>3, <2>2 DEF CatalogTypes
  <2>3. CASE report' = [report EXCEPT ![c].publication = "PUBLISHED"]
    BY <1>1, <2>1, <2>3 DEF CatalogTypes
  <2> QED BY <1>4, <2>2, <2>3
<1>12. CatalogTypes' BY <1>1, <1>4, <1>5, <1>8, <1>10, <1>11 DEF CatalogTypes
<1>13. \A d \in Catalog!Running : d = c BY <1>2, <1>10 DEF CatalogInv, Alone
<1>14. \A d \in Catalog!Running' : d = c
  <2> SUFFICES ASSUME NEW d \in Calls, d \in Catalog!Running', d # c PROVE FALSE
    BY DEF Catalog!Running
  <2>1. d \in Catalog!Running BY <1>10 DEF Catalog!Running
  <2> QED BY <1>13, <2>1
<1>15. Alone' BY <1>14 DEF Alone
<1>16. Catalog!OneRecordEach'
  <2> SUFFICES ASSUME NEW d \in Catalog!Registered', NEW e \in Catalog!Registered', d # e
               PROVE  records'[d].op # records'[e].op /\ records'[d].at # records'[e].at
    BY DEF Catalog!OneRecordEach
  <2>1. CASE d # c /\ e # c BY <1>9, <2>1 DEF CatalogInv, Catalog!OneRecordEach
  <2>2. CASE d = c BY <1>3, <1>7, <1>8, <1>9, <2>2 DEF Differs
  <2>3. CASE e = c BY <1>3, <1>7, <1>8, <1>9, <2>3 DEF Differs
  <2> QED BY <2>1, <2>2, <2>3
<1>17. Own(c)'
  <2>1. StillAdmitted(c)' /\ Anchored(c)' BY <1>10 DEF StillAdmitted, Anchored
  <2>2. OwnRecord(c)' BY <1>10 DEF OwnRecord
  <2>3. Told(c)' BY <1>10 DEF Told, Catalog!At
  <2>4. Trusted(c)' /\ NothingTold(c)' BY <1>11 DEF Trusted, NothingTold
  <2> QED BY <2>1, <2>2, <2>3, <2>4 DEF Own
<1>18. ASSUME NEW d \in Calls, d # c PROVE Own(d)'
  <2>1. /\ Own(d) /\ call'[d] = call[d] /\ report'[d] = report[d]
        /\ (d \in Catalog!Registered' <=> d \in Catalog!Registered)
    BY <1>9, <1>10, <1>11, <1>18 DEF CatalogInv
  <2>2. call[d].at \in Ended BY <1>13, <1>18 DEF Catalog!Running, Ended
  <2>3. StillAdmitted(d)' /\ Anchored(d)' BY <2>1, <2>2 DEF StillAdmitted, Anchored, Ended
  <2>4. OwnRecord(d)' /\ Told(d)' BY <2>1 DEF Own, OwnRecord, Told, Catalog!At
  <2>5. Trusted(d)' BY <1>9, <2>1 DEF Own, Trusted
  <2>6. NothingTold(d)' BY <2>1 DEF Own, NothingTold
  <2> QED BY <2>3, <2>4, <2>5, <2>6 DEF Own
<1> QED BY <1>12, <1>15, <1>16, <1>17, <1>18 DEF CatalogInv

\* Every way a call returns.
LEMMA ReturnKeeps ==
    ASSUME CatalogInv, Catalog!BoundsAssumption, NEW c \in Calls,
           Catalog!Confirm(c) \/ Catalog!Finally(c) \/ Catalog!FinallyFails(c)
    PROVE  CatalogInv'
<1>1. CatalogTypes /\ Own(c) /\ UNCHANGED <<records, bytes>>
  BY DEF CatalogInv, Catalog!Confirm, Catalog!Finally, Catalog!FinallyFails
<1>2. call[c].at \in {"confirm", "finally"}
  BY DEF Catalog!Confirm, Catalog!Finally, Catalog!FinallyFails, Catalog!At
<1>3. c \in Catalog!Running BY <1>2 DEF Catalog!Running
<1>4. report[c] \in Plain /\ report[c].status = "FAILED" BY <1>3, RunningOwn
<1>5. faults' \in 0..CatalogFaults /\ residue' \subseteq Calls
  BY <1>1 DEF Catalog!Confirm, Catalog!Finally, Catalog!FinallyFails, Catalog!Fault,
     CatalogTypes, Catalog!BoundsAssumption
<1>6. CASE Catalog!Confirm(c)
  <2>1. call[c].at = "confirm" BY <1>6 DEF Catalog!Confirm, Catalog!At
  <2>2. call[c] \in Registering BY <1>1, <2>1, CallAt DEF RegisterSteps
  <2> DEFINE said == [report[c] EXCEPT !.status = "REGISTERED"]
  <2>3. CASE Catalog!Goes(c, "over") /\ report' = [report EXCEPT ![c].status = "REGISTERED"]
    <3>1. report' = [report EXCEPT ![c] = said] BY <1>1, <2>3 DEF CatalogTypes
    <3>2. said \in Plain /\ said.status = "REGISTERED" BY <1>4 DEF Plain
    <3> HIDE DEF said
    <3> QED BY <1>1, <1>3, <1>5, <2>3, <3>1, <3>2, TellingKeeps
  <2>4. CASE Catalog!Goes(c, "finally") /\ report' = report
    BY <1>1, <1>3, <1>5, <2>2, <2>4, QuietKeeps DEF RegisterSteps
  <2> QED BY <1>6, <2>3, <2>4 DEF Catalog!Confirm
<1>7. CASE Catalog!Finally(c)
  <2>1. Catalog!Goes(c, "over") BY <1>7 DEF Catalog!Finally
  <2> DEFINE said == [report[c] EXCEPT !.publication = "PUBLISHED", !.retained = TRUE]
  <2>2. CASE Catalog!Published(c)
    <3>1. report' = [report EXCEPT ![c].publication = "PUBLISHED", ![c].retained = TRUE]
      BY <1>7, <2>2 DEF Catalog!Finally
    <3>2. report' = [report EXCEPT ![c] = said] BY <1>1, <3>1 DEF CatalogTypes
    <3>3. said \in Plain /\ said.retained /\ said.status = "FAILED" BY <1>4 DEF Plain
    <3> HIDE DEF said
    <3> QED BY <1>1, <1>3, <1>5, <2>1, <3>2, <3>3, TellingKeeps
  <2>3. CASE ~Catalog!Published(c)
    <3>1. report' = report /\ c \notin Catalog!Registered BY <1>7, <2>3 DEF Catalog!Finally,
      Catalog!Published, Catalog!Registered
    <3> QED BY <1>1, <1>3, <1>5, <2>1, <3>1, QuietKeeps
  <2> QED BY <2>2, <2>3
<1>8. CASE Catalog!FinallyFails(c)
  <2>1. /\ Catalog!Goes(c, "over")
        /\ report' = [report EXCEPT
               ![c].publication = IF @ = "PUBLISHED" THEN @ ELSE "UNCERTAIN", ![c].retained = TRUE]
    BY <1>8 DEF Catalog!FinallyFails
  <2> DEFINE said == [report[c] EXCEPT !.publication = IF @ = "PUBLISHED" THEN @ ELSE "UNCERTAIN",
                                       !.retained = TRUE]
  <2>2. report' = [report EXCEPT ![c] = said] BY <1>1, <2>1 DEF CatalogTypes
  <2>3. said \in Plain /\ said.retained /\ said.status = "FAILED" BY <1>4 DEF Plain
  <2> HIDE DEF said
  <2> QED BY <1>1, <1>3, <1>5, <2>1, <2>2, <2>3, TellingKeeps
<1> QED BY <1>6, <1>7, <1>8

\* What verify trusts is checked against the record a second time; inspect only reads.
LEMMA ReadersKeep ==
    ASSUME CatalogInv, NEW c \in Calls, Catalog!Check(c) \/ Catalog!Recheck(c) \/ Catalog!Show(c)
    PROVE  CatalogInv'
<1>1. /\ CatalogTypes /\ Own(c) /\ UNCHANGED <<records, residue, bytes, faults>>
      /\ call[c].at \in {"check", "recheck", "show"}
  BY DEF CatalogInv, Catalog!Check, Catalog!Recheck, Catalog!Show, Catalog!At
<1>2. /\ c \in Catalog!Running
      /\ call[c].at \in {"check", "recheck"} => call[c] \in Verifying
      /\ call[c].at = "show" => call[c] \in Inspecting
  BY <1>1, CallAt
<1>3. /\ report[c] \in Plain /\ report[c].status = "FAILED" /\ c \notin Catalog!Registered
      /\ residue' \subseteq Calls /\ faults' \in 0..CatalogFaults
  BY <1>1, <1>2, RunningOwn DEF Own, OwnRecord, CatalogTypes
<1>4. call[c].at \in {"check", "recheck"} =>
          call[c].target \in Catalog!Registered /\ call[c].digest = Catalog!Anchor(c)
  BY <1>1 DEF Own, Anchored
<1>5. ASSUME Catalog!Goes(c, "finally"), report' = report PROVE CatalogInv'
  BY <1>1, <1>2, <1>3, <1>5, QuietKeeps DEF VerifySteps, InspectSteps
<1>6. CASE Catalog!Check(c)
  <2>1. call[c].at = "check" /\ (Catalog!Goes(c, "recheck") \/ Catalog!Goes(c,
      "finally")) /\ report' = report
    BY <1>6 DEF Catalog!Check, Catalog!Passed, Catalog!At
  <2>2. ASSUME Catalog!Goes(c, "recheck") PROVE CatalogInv'
    BY <1>1, <1>2, <1>3, <1>4, <2>1, <2>2, QuietKeeps DEF VerifySteps
  <2> QED BY <1>5, <2>1, <2>2
<1>7. CASE Catalog!Recheck(c)
  <2> DEFINE said == [status |-> "TRUSTED", about |-> call[c].target, digest |-> call[c].digest]
  <2>1. call[c].at = "recheck" BY <1>7 DEF Catalog!Recheck, Catalog!At
  <2>2. said \in Trusting BY <1>2, <2>1 DEF Verifying, Trusting
  <2>3. said.about \in Catalog!Registered /\ said.digest = records[said.about].digest
    BY <1>4, <2>1 DEF Catalog!Anchor
  <2>4. \/ Catalog!Goes(c, "over") /\ report' = [report EXCEPT ![c] = said]
        \/ Catalog!Goes(c, "finally") /\ report' = report
    BY <1>7 DEF Catalog!Recheck, Catalog!Passed
  <2> HIDE DEF said
  <2>5. ASSUME Catalog!Goes(c, "over"), report' = [report EXCEPT ![c] = said] PROVE CatalogInv'
    BY <1>1, <1>2, <1>3, <2>2, <2>3, <2>5, TellingKeeps
  <2> QED BY <1>5, <2>4, <2>5
<1>8. CASE Catalog!Show(c)
  <2> DEFINE said == [report[c] EXCEPT !.status = "INSPECTED"]
  <2>1. said \in Plain /\ said.status = "INSPECTED" BY <1>3 DEF Plain
  <2>2. \/ Catalog!Goes(c, "over") /\ report' = [report EXCEPT ![c].status = "INSPECTED"]
        \/ Catalog!Goes(c, "finally") /\ report' = report
    BY <1>8 DEF Catalog!Show, Catalog!Passed
  <2>3. ASSUME Catalog!Goes(c, "over"), report' = [report EXCEPT ![c].status = "INSPECTED"]
        PROVE  CatalogInv'
    <3>1. report' = [report EXCEPT ![c] = said] BY <1>1, <2>3 DEF CatalogTypes
    <3> HIDE DEF said
    <3> QED BY <1>1, <1>2, <1>3, <2>1, <2>3, <3>1, TellingKeeps
  <2> QED BY <1>5, <2>2, <2>3
<1> QED BY <1>6, <1>7, <1>8

\* An error or an interrupt leads to the cleanup, a kill to nothing.
LEMMA FaultsKeep ==
    ASSUME CatalogInv, Catalog!BoundsAssumption, NEW c \in Calls,
           Catalog!Fails(c) \/ Catalog!Kill(c)
    PROVE  CatalogInv'
<1>1. c \in Catalog!Running /\ CatalogTypes /\ UNCHANGED <<records, residue, bytes, report>>
  BY DEF CatalogInv, Catalog!Fails, Catalog!Kill
<1>2. residue' \subseteq Calls /\ faults' \in 0..CatalogFaults
  BY <1>1 DEF Catalog!Fails, Catalog!Kill, Catalog!Fault, CatalogTypes, Catalog!BoundsAssumption
<1>3. CASE Catalog!Goes(c, "finally")
  <2>1. call[c] \in Registering \cup Verifying \cup Inspecting BY <1>1, CallAt DEF Catalog!Running
  <2> QED BY <1>1, <1>2, <1>3, <2>1, QuietKeeps DEF RegisterSteps, VerifySteps, InspectSteps
<1>4. CASE Catalog!Goes(c, "killed") BY <1>1, <1>2, <1>4, QuietKeeps
<1> QED BY <1>3, <1>4 DEF Catalog!Fails, Catalog!Kill

LEMMA AlterKeeps ==
    ASSUME CatalogInv, Catalog!BoundsAssumption, NEW s \in Snapshots, Catalog!Alter(s)
    PROVE  CatalogInv'
<1>1. CatalogTypes'
  BY DEF CatalogInv, CatalogTypes, Catalog!Alter, Catalog!BoundsAssumption
<1>2. UNCHANGED <<records, call, report>> BY DEF Catalog!Alter
<1>3. Catalog!Registered' = Catalog!Registered /\ Catalog!Running' = Catalog!Running
  BY <1>2 DEF Catalog!Registered, Catalog!Running
<1>4. Alone' /\ Catalog!OneRecordEach' BY <1>2, <1>3 DEF CatalogInv, Alone, Catalog!OneRecordEach
<1>5. ASSUME NEW c \in Calls PROVE Own(c)'
  <2>1. Own(c) BY DEF CatalogInv
  <2>2. StillAdmitted(c)' /\ OwnRecord(c)' /\ Told(c)'
    BY <1>2, <1>3, <2>1 DEF Own, StillAdmitted, Differs, OwnRecord, Told, Catalog!At
  <2>3. Anchored(c)' /\ Trusted(c)' /\ NothingTold(c)'
    BY <1>2, <1>3, <2>1 DEF Own, Anchored, Catalog!Anchor, Trusted, NothingTold
  <2> QED BY <2>2, <2>3 DEF Own
<1> QED BY <1>1, <1>4, <1>5 DEF CatalogInv

LEMMA CatalogStutters ==
    ASSUME CatalogInv, UNCHANGED Catalog!vars
    PROVE  CatalogInv'
<1>1. UNCHANGED <<records, residue, bytes, call, report, faults>> BY DEF Catalog!vars
<1>2. CatalogTypes' BY <1>1 DEF CatalogInv, CatalogTypes
<1>3. Catalog!Registered' = Catalog!Registered /\ Catalog!Running' = Catalog!Running
  BY <1>1 DEF Catalog!Registered, Catalog!Running
<1>4. Alone' /\ Catalog!OneRecordEach' BY <1>1, <1>3 DEF CatalogInv, Alone, Catalog!OneRecordEach
<1>5. ASSUME NEW c \in Calls PROVE Own(c)'
  <2>1. Own(c) BY DEF CatalogInv
  <2>2. StillAdmitted(c)' /\ OwnRecord(c)' /\ Told(c)'
    BY <1>1, <1>3, <2>1 DEF Own, StillAdmitted, Differs, OwnRecord, Told, Catalog!At
  <2>3. Anchored(c)' /\ Trusted(c)' /\ NothingTold(c)'
    BY <1>1, <1>3, <2>1 DEF Own, Anchored, Catalog!Anchor, Trusted, NothingTold
  <2> QED BY <2>2, <2>3 DEF Own
<1> QED BY <1>2, <1>4, <1>5 DEF CatalogInv

LEMMA StepKeepsCatalog ==
    ASSUME Catalog!BoundsAssumption, Catalog!NamesAssumption, CatalogInv,
           [Catalog!Next]_(Catalog!vars)
    PROVE  CatalogInv'
<1>1. ASSUME NEW c \in Calls,
             \/ \E s \in Snapshots, op \in Operations : Catalog!StartRegister(c, s, op)
             \/ \E s \in Snapshots, target \in Calls : Catalog!StartVerify(c, s, target)
             \/ \E target \in Calls : Catalog!StartInspect(c, target)
             \/ Catalog!Inventory(c) \/ Catalog!VerifySnapshot(c) \/ Catalog!WriteStage(c)
                 \/ Catalog!Compare(c) \/ Catalog!Publish(c)
             \/ Catalog!Confirm(c) \/ Catalog!Finally(c) \/ Catalog!FinallyFails(c)
             \/ Catalog!Lookup(c) \/ Catalog!Check(c) \/ Catalog!Recheck(c) \/ Catalog!Show(c)
             \/ Catalog!Fails(c) \/ Catalog!Kill(c)
      PROVE  CatalogInv'
  <2>1. CASE \/ \E s \in Snapshots, op \in Operations : Catalog!StartRegister(c, s, op)
             \/ \E s \in Snapshots, target \in Calls : Catalog!StartVerify(c, s, target)
             \/ \E target \in Calls : Catalog!StartInspect(c, target)
    BY <2>1, StartsKeep
  <2>2. CASE Catalog!Inventory(c) BY <2>2, InventoryKeeps
  <2>3. CASE Catalog!VerifySnapshot(c) \/ Catalog!WriteStage(c) \/ Catalog!Compare(c) BY <2>3,
    RegistrationGoesOn
  <2>4. CASE Catalog!Publish(c) BY <2>4, PublishKeeps
  <2>5. CASE Catalog!Confirm(c) \/ Catalog!Finally(c) \/ Catalog!FinallyFails(c) BY <2>5,
    ReturnKeeps
  <2>6. CASE Catalog!Lookup(c) BY <2>6, LookupKeeps
  <2>7. CASE Catalog!Check(c) \/ Catalog!Recheck(c) \/ Catalog!Show(c) BY <2>7, ReadersKeep
  <2>8. CASE Catalog!Fails(c) \/ Catalog!Kill(c) BY <2>8, FaultsKeep
  <2> QED BY <1>1, <2>1, <2>2, <2>3, <2>4, <2>5, <2>6, <2>7, <2>8
<1>2. ASSUME NEW s \in Snapshots, Catalog!Alter(s) PROVE CatalogInv'
  BY <1>2, AlterKeeps
<1>3. CASE UNCHANGED Catalog!vars BY <1>3, CatalogStutters
<1> QED BY <1>1, <1>2, <1>3 DEF Catalog!Next

THEOREM CatalogIsSound ==
    ASSUME Catalog!BoundsAssumption, Catalog!NamesAssumption
    PROVE  Catalog!Spec => [](Catalog!TypeOK /\ Catalog!CatalogSound)
<1>1. Catalog!Init => CatalogInv BY InitCatalog
<1>2. CatalogInv /\ [Catalog!Next]_(Catalog!vars) => CatalogInv' BY StepKeepsCatalog
<1>3. CatalogInv => Catalog!TypeOK /\ Catalog!CatalogSound BY CatalogFollows
<1> QED BY <1>1, <1>2, <1>3, PTL DEF Catalog!Spec

-----------------------------------------------------------------------------
(* Snapshot: a second look that equals the first is a look at one moment, for the *)
(* files are only written to, and what is published is a complete staging of the   *)
(* call's own, which no clean-up removes.                                          *)

Versions == {None} \cup 0..SourceWrites
Trees == [Paths -> Versions]
Copies == [Paths -> Versions \cup {Snapshot!Tampered}]
SnapshotTools == {"create", "collect"}
SnapshotPhases == {"run", "finally", "clean", "over", "killed"}
Invoked == [tool: SnapshotTools, phase: SnapshotPhases, pc: 1..15, seen: SUBSET Paths,
            before: Trees, named: BOOLEAN, owned: BOOLEAN, published: BOOLEAN,
            asOf: Trees, verified: Copies]
Returns == [status: {"FAILED", "CREATED"},
            publication: {"NOT_PUBLISHED", "PUBLISHED", "UNCERTAIN"},
            cleanup: {"NOT_NEEDED", "NOT_ATTEMPTED", "CLEANED", "FAILED"},
            retained: BOOLEAN, residue: BOOLEAN]
Places == {"absent", "foreign", "ours"}

SnapshotTypes ==
    /\ source \in Trees /\ stored \in Copies /\ faults \in 0..SnapshotFaults
    /\ place \in [{"stage", "dest"} -> Places]
    /\ call \in Invoked /\ report \in Returns

\* The steps at which the programs publish and verify what they published.
PublishAt == IF call.tool = "create" THEN 11 ELSE 9
VerifyAt == PublishAt + 2
LastStep == IF call.tool = "create" THEN 15 ELSE 13

\* Files are only written to, never taken back.
NoYounger(v, w) == v = None \/ (w # None /\ v <= w)

\* What the inventory saw is no younger than the source when it ended, and equals it
\* once a second look found nothing changed.
AsInventoried ==
    /\ call.pc = 2 => \A p \in call.seen : NoYounger(call.before[p], source[p])
    /\ call.pc > 2 => \A p \in Paths : /\ NoYounger(call.before[p], call.asOf[p])
                                       /\ NoYounger(call.asOf[p], source[p])
    /\ call.pc = 5 => \A p \in call.seen : call.before[p] = call.asOf[p]
    /\ call.pc > 5 => call.before = call.asOf
TreeVerified ==
    /\ call.pc > VerifyAt => call.verified = call.before
    /\ report.status = "CREATED" => call.phase = "over" /\ call.verified = call.asOf

\* Only a staging of this call that has every file is published, and it is not cleaned.
StageOwned ==
    /\ call.pc <= LastStep
    /\ call.phase = "run" /\ call.pc > 3 => call.named /\ call.owned
    /\ place["dest"] = "ours" => /\ call.named /\ call.owned /\ call.pc >= PublishAt
                                 /\ call.phase # "clean"
HasCopy(p) == call.before[p] # None => stored[p] # None
TreeComplete ==
    /\ call.phase = "run" /\ call.pc = 4 => \A p \in call.seen : HasCopy(p)
    /\ (call.phase = "run" /\ call.pc > 4) \/ place["dest"] = "ours" => \A p \in Paths : HasCopy(p)
PublicationTold ==
    /\ call.phase = "run" /\ call.pc > PublishAt => report.publication = "PUBLISHED"
    /\ call.phase = "over" /\ place["dest"] = "ours" => report.publication # "NOT_PUBLISHED"

SnapshotInv ==
    /\ SnapshotTypes /\ AsInventoried /\ TreeVerified
    /\ StageOwned /\ TreeComplete /\ PublicationTold

LEMMA SnapshotFollows == SnapshotInv => Snapshot!TypeOK /\ Snapshot!SnapshotSound
<1> SUFFICES ASSUME SnapshotInv PROVE Snapshot!TypeOK /\ Snapshot!SnapshotSound
    OBVIOUS
<1>1. Snapshot!TypeOK
  BY DEF SnapshotInv, SnapshotTypes, Snapshot!TypeOK, Trees, Copies, Versions, Invoked, Returns,
     SnapshotPhases,
         Places
<1>2. Snapshot!CreatedIsTheSource BY DEF SnapshotInv, TreeVerified, Snapshot!CreatedIsTheSource
<1>3. Snapshot!PublicationReported
  BY DEF SnapshotInv, TreeComplete, HasCopy, PublicationTold, Snapshot!PublicationReported
<1> QED BY <1>1, <1>2, <1>3 DEF Snapshot!SnapshotSound

LEMMA InitSnapshot ==
    ASSUME Snapshot!BoundsAssumption, Snapshot!Init
    PROVE  SnapshotInv
<1>1. source \in Trees /\ Snapshot!Nothing \in Trees /\ Snapshot!Nothing \in Copies
    /\ stored = Snapshot!Nothing
  BY DEF Snapshot!Init, Trees, Copies, Versions, Snapshot!Nothing, Snapshot!BoundsAssumption
<1>2. PICK kind \in SnapshotTools :
          call = [tool |-> kind, phase |-> "run", pc |-> 1, seen |-> {},
              before |-> Snapshot!Nothing,
                  named |-> FALSE, owned |-> FALSE, published |-> FALSE,
                  asOf |-> Snapshot!Nothing, verified |-> Snapshot!Nothing]
  BY DEF Snapshot!Init, SnapshotTools
<1>3. call \in Invoked /\ call.pc = 1 /\ call.phase = "run" /\ call.seen = {}
  BY <1>1, <1>2 DEF Invoked, SnapshotPhases
<1>4. place["dest"] # "ours" /\ report.status = "FAILED" BY DEF Snapshot!Init
<1>5. SnapshotTypes
  <2>1. place \in [{"stage", "dest"} -> Places] BY DEF Snapshot!Init, Places
  <2>2. report \in Returns BY DEF Snapshot!Init, Returns
  <2> QED BY <1>1, <1>3, <2>1, <2>2 DEF SnapshotTypes, Snapshot!Init, Snapshot!BoundsAssumption
<1>6. PublishAt \in {9, 11} /\ LastStep \in {13, 15} BY DEF PublishAt, LastStep
<1>7. AsInventoried /\ TreeVerified /\ StageOwned /\ TreeComplete /\ PublicationTold
  BY <1>3, <1>4, <1>6 DEF AsInventoried, TreeVerified, VerifyAt, StageOwned, TreeComplete,
     PublicationTold
<1> QED BY <1>5, <1>7 DEF SnapshotInv

\* Where the programs do what.
LEMMA StepsAt ==
    ASSUME SnapshotInv, NEW step, Snapshot!At(step)
    PROVE  /\ call.phase = "run" /\ call.pc \in 1..LastStep
           /\ step = "absent" <=> call.pc = 1
           /\ step = "inventory" <=> call.pc = 2
           /\ step = "stage" <=> call.pc = 3
           /\ step = "copy" <=> call.pc = 4
           /\ step = "publish" <=> call.pc = PublishAt
           /\ step = "verify_dest" <=> call.pc = VerifyAt
           /\ step = "report" <=> call.pc = LastStep
           /\ call.pc = 5 => step = "check_source"
           /\ step = "verify_stage" => call.pc = 8
<1>1. /\ call.phase = "run" /\ call.pc \in 1..15 /\ call.pc <= LastStep
      /\ call.tool \in SnapshotTools /\ step = Snapshot!Program(call.tool)[call.pc]
  BY DEF SnapshotInv, SnapshotTypes, Invoked, StageOwned, Snapshot!At
<1>2. CASE call.tool = "create"
  <2>1. step = Snapshot!CreateProgram[call.pc] BY <1>1, <1>2 DEF Snapshot!Program
  <2>2. PublishAt = 11 /\ VerifyAt = 13 /\ LastStep = 15 BY <1>2 DEF PublishAt, VerifyAt, LastStep
  <2> QED BY <1>1, <2>1, <2>2 DEF Snapshot!CreateProgram
<1>3. CASE call.tool = "collect"
  <2>1. step = Snapshot!CollectProgram[call.pc] BY <1>1, <1>3 DEF Snapshot!Program
  <2>2. PublishAt = 9 /\ VerifyAt = 11 /\ LastStep = 13 BY <1>3 DEF PublishAt, VerifyAt, LastStep
  <2> QED BY <1>1, <2>1, <2>2 DEF Snapshot!CollectProgram
<1> QED BY <1>1, <1>2, <1>3 DEF SnapshotTools

LEMMA CallBounds ==
    ASSUME SnapshotInv
    PROVE  /\ call \in Invoked /\ call.pc \in 1..15 /\ call.pc <= LastStep
           /\ \/ call.tool = "create" /\ PublishAt = 11 /\ VerifyAt = 13 /\ LastStep = 15
              \/ call.tool = "collect" /\ PublishAt = 9 /\ VerifyAt = 11 /\ LastStep = 13
<1>1. call \in Invoked /\ call.pc <= LastStep BY DEF SnapshotInv, SnapshotTypes, StageOwned
<1>2. call.tool \in SnapshotTools /\ call.pc \in 1..15 BY <1>1 DEF Invoked
<1> QED BY <1>1, <1>2 DEF SnapshotTools, PublishAt, VerifyAt, LastStep

\* What stays when a call goes on or is raised to its end.
SameCall ==
    /\ call'.tool = call.tool /\ call'.before = call.before /\ call'.asOf = call.asOf
    /\ call'.verified = call.verified /\ call'.named = call.named /\ call'.owned = call.owned
    /\ call'.published = call.published
LEMMA CallAdvances ==
    ASSUME call \in Invoked, call.pc < 15, call' = Snapshot!Advanced
    PROVE  /\ call' \in Invoked /\ SameCall
           /\ call'.phase = call.phase /\ call'.pc = call.pc + 1 /\ call'.seen = {}
<1>1. call.pc + 1 \in 1..15 BY DEF Invoked
<1>2. call' = [call EXCEPT !.pc = call.pc + 1, !.seen = {}] BY DEF Snapshot!Advanced
<1> QED BY <1>1, <1>2 DEF Invoked, SameCall
LEMMA CallIsRaised ==
    ASSUME call \in Invoked, call' = Snapshot!Raised
    PROVE  /\ call' \in Invoked /\ SameCall
           /\ call'.phase = "finally" /\ call'.pc = call.pc /\ call'.seen = call.seen
BY DEF Snapshot!Raised, Invoked, SameCall, SnapshotPhases
LEMMA PhaseEnds ==
    ASSUME call \in Invoked, NEW ending \in SnapshotPhases, call' = [call EXCEPT !.phase = ending]
    PROVE  /\ call' \in Invoked /\ SameCall
           /\ call'.phase = ending /\ call'.pc = call.pc /\ call'.seen = call.seen
BY DEF Invoked, SameCall
LEMMA CallSeesMore ==
    ASSUME call \in Invoked, NEW p \in Paths, call' = [call EXCEPT !.seen = @ \cup {p}]
    PROVE  /\ call' \in Invoked /\ SameCall
           /\ call'.phase = call.phase /\ call'.pc = call.pc /\ call'.seen = call.seen \cup {p}
BY DEF Invoked, SameCall

\* A call that leaves its run keeps what it knows.
LEMMA RaisedKeeps ==
    ASSUME SnapshotInv, call.phase = "run", NEW ending \in {"finally", "killed"},
           call' \in Invoked, SameCall, call'.phase = ending, call'.pc = call.pc,
           call'.seen = call.seen,
           UNCHANGED <<source, place, stored, report>>, faults' \in 0..SnapshotFaults
    PROVE  SnapshotInv'
<1>1. SnapshotTypes' BY DEF SnapshotInv, SnapshotTypes
<1>2. PublishAt' = PublishAt /\ VerifyAt' = VerifyAt /\ LastStep' = LastStep
  BY DEF SameCall, PublishAt, VerifyAt, LastStep
<1>3. AsInventoried' BY DEF SnapshotInv, AsInventoried, SameCall
<1>4. report.status # "CREATED" BY DEF SnapshotInv, TreeVerified
<1>5. TreeVerified' BY <1>2, <1>4 DEF SnapshotInv, TreeVerified, SameCall
<1>6. StageOwned' BY <1>2 DEF SnapshotInv, StageOwned, SameCall
<1>7. TreeComplete' BY DEF SnapshotInv, TreeComplete, HasCopy, SameCall
<1>8. PublicationTold' BY DEF PublicationTold
<1> QED BY <1>1, <1>3, <1>5, <1>6, <1>7, <1>8 DEF SnapshotInv

\* A step that only looks.
LEMMA AdvancedKeeps ==
    ASSUME SnapshotInv, call.phase = "run", call' = Snapshot!Advanced,
           call.pc \notin {2, 3, 4, 5, PublishAt, VerifyAt, LastStep},
           UNCHANGED <<source, place, stored, report, faults>>
    PROVE  SnapshotInv'
<1>1. /\ call' \in Invoked /\ SameCall
      /\ call'.phase = "run" /\ call'.pc = call.pc + 1 /\ call'.seen = {}
  BY CallAdvances, CallBounds
<1>2. SnapshotTypes' BY <1>1 DEF SnapshotInv, SnapshotTypes
<1>3. PublishAt' = PublishAt /\ VerifyAt' = VerifyAt /\ LastStep' = LastStep
  BY <1>1 DEF SameCall, PublishAt, VerifyAt, LastStep
<1>4. AsInventoried' BY <1>1, CallBounds DEF SnapshotInv, AsInventoried, SameCall
<1>5. report.status # "CREATED" BY DEF SnapshotInv, TreeVerified
<1>6. TreeVerified' BY <1>1, <1>3, <1>5, CallBounds DEF SnapshotInv, TreeVerified, SameCall
<1>7. StageOwned' BY <1>1, <1>3, CallBounds DEF SnapshotInv, StageOwned, SameCall
<1>8. TreeComplete' BY <1>1, CallBounds DEF SnapshotInv, TreeComplete, HasCopy, SameCall
<1>9. PublicationTold' BY <1>1, <1>3, CallBounds DEF SnapshotInv, PublicationTold
<1> QED BY <1>2, <1>4, <1>6, <1>7, <1>8, <1>9 DEF SnapshotInv

LEMMA LooksKeep ==
    ASSUME SnapshotInv,
           Snapshot!CheckAbsent \/ Snapshot!Manifest \/ Snapshot!CheckPlace("stage")
               \/ Snapshot!CheckPlace("dest")
    PROVE  SnapshotInv'
<1>1. PICK step \in {"absent", "manifest", "check_stage", "check_dest"} :
          /\ Snapshot!At(step) /\ (call' = Snapshot!Advanced \/ call' = Snapshot!Raised)
          /\ UNCHANGED <<source, place, stored, report, faults>>
  BY DEF Snapshot!CheckAbsent, Snapshot!Manifest, Snapshot!CheckPlace, Snapshot!Passed
<1>2. /\ call.phase = "run"
      /\ call.pc \notin {2, 3, 4, 5, PublishAt, VerifyAt, LastStep}
  BY <1>1, StepsAt
<1>3. faults' \in 0..SnapshotFaults BY <1>1 DEF SnapshotInv, SnapshotTypes
<1>4. CASE call' = Snapshot!Advanced BY <1>1, <1>2, <1>4, AdvancedKeeps
<1>5. CASE call' = Snapshot!Raised
  <2>1. /\ call' \in Invoked /\ SameCall
        /\ call'.phase = "finally" /\ call'.pc = call.pc /\ call'.seen = call.seen
    BY <1>5, CallBounds, CallIsRaised
  <2> QED BY <1>1, <1>2, <1>3, <2>1, RaisedKeeps
<1> QED BY <1>1, <1>4, <1>5

\* The inventory: every file once, and the source when the walk ends.
LEMMA NoYoungerOrders ==
    ASSUME Snapshot!NamesAssumption, Snapshot!BoundsAssumption
    PROVE  /\ \A v \in Versions : NoYounger(v, v)
           /\ \A u, v, w \in Versions : NoYounger(u, v) /\ NoYounger(v, w) => NoYounger(u, w)
           /\ \A v, w \in Versions : NoYounger(v, w) /\ NoYounger(w, v) => v = w
<1>1. \A v \in Versions : v # None => v \in Int BY DEF Versions, Snapshot!BoundsAssumption
<1> QED BY <1>1 DEF NoYounger

LEMMA WalkKeeps ==
    ASSUME SnapshotInv, Snapshot!NamesAssumption, Snapshot!BoundsAssumption, NEW p \in Paths,
           Snapshot!Inventory(p)
    PROVE  SnapshotInv'
<1>1. /\ call.phase = "run" /\ call.pc = 2
      /\ UNCHANGED <<source, place, stored, report, faults>>
  BY StepsAt DEF Snapshot!Inventory
<1>2. call \in Invoked /\ source \in Trees BY DEF SnapshotInv, SnapshotTypes
<1>3. source[p] \in Versions BY <1>2 DEF Trees
<1> DEFINE before == [call.before EXCEPT ![p] = source[p]]
           met == call.seen \cup {p}
           walked == [call EXCEPT !.before = before, !.seen = met]
<1>4. before \in Trees /\ met \in SUBSET Paths BY <1>2, <1>3 DEF Invoked, Trees
<1>5. call' = IF met = Paths THEN [walked EXCEPT !.pc = 3, !.seen = {}, !.asOf = source]
              ELSE walked
  <2> DEFINE read == [call EXCEPT !.before[p] = source[p], !.seen = @ \cup {p}]
  <2>1. call' = IF read.seen = Paths
                THEN [read EXCEPT !.pc = @ + 1, !.seen = {}, !.asOf = source] ELSE read
    BY DEF Snapshot!Inventory
  <2>2. read = walked BY <1>2 DEF Invoked
  <2>3. read.seen = met /\ read.pc + 1 = 3 BY <1>1, <1>2 DEF Invoked
  <2> HIDE DEF read, walked, met
  <2>4. call' = IF met = Paths
                THEN [read EXCEPT !.pc = 3, !.seen = {}, !.asOf = source] ELSE read
    BY <2>1, <2>3
  <2> QED BY <2>2, <2>4
<1> HIDE DEF before, met
<1>6. /\ call' \in Invoked /\ call'.tool = call.tool /\ call'.phase = "run"
      /\ call'.before = before /\ call'.verified = call.verified
      /\ call'.named = call.named /\ call'.owned = call.owned
      /\ \/ call'.pc = 2 /\ call'.seen = met
         \/ call'.pc = 3 /\ call'.seen = {} /\ met = Paths /\ call'.asOf = source
  <2>1. CASE met = Paths
    <3>1. call' = [call EXCEPT !.before = before, !.pc = 3, !.seen = {}, !.asOf = source]
      BY <1>2, <1>5, <2>1 DEF Invoked
    <3>2. call' \in Invoked
      <4>1. 3 \in 1..15 /\ {} \in SUBSET Paths OBVIOUS
      <4> QED BY <1>2, <1>4, <3>1, <4>1 DEF Invoked
    <3> QED BY <1>1, <1>2, <2>1, <3>1, <3>2 DEF Invoked
  <2>2. CASE met # Paths
    <3>1. call' = [call EXCEPT !.before = before, !.seen = met] BY <1>5, <2>2
    <3> QED BY <1>1, <1>2, <1>4, <3>1 DEF Invoked
  <2> QED BY <2>1, <2>2
<1>7. SnapshotTypes' BY <1>1, <1>6 DEF SnapshotInv, SnapshotTypes
<1>8. PublishAt' = PublishAt /\ VerifyAt' = VerifyAt /\ LastStep' = LastStep
  BY <1>6 DEF PublishAt, VerifyAt, LastStep
<1>9. \A q \in met : NoYounger(before[q], source[q])
  <2> SUFFICES ASSUME NEW q \in met PROVE NoYounger(before[q], source[q])
      OBVIOUS
  <2>1. q \in Paths BY <1>4
  <2>2. CASE q = p BY <1>2, <1>3, <2>2, NoYoungerOrders DEF before, Invoked, Trees
  <2>3. CASE q # p
    <3>1. q \in call.seen /\ before[q] = call.before[q]
      BY <1>2, <2>1, <2>3 DEF before, met, Invoked, Trees
    <3> QED BY <1>1, <3>1 DEF SnapshotInv, AsInventoried
  <2> QED BY <2>2, <2>3
<1>10. \A q \in Paths : NoYounger(source[q], source[q]) BY <1>2, NoYoungerOrders DEF Trees
<1>11. AsInventoried' BY <1>1, <1>6, <1>9, <1>10 DEF AsInventoried
<1>12. report.status # "CREATED" BY <1>1 DEF SnapshotInv, TreeVerified
<1>13. TreeVerified' BY <1>1, <1>6, <1>8, <1>12, CallBounds DEF TreeVerified
<1>14. place["dest"] # "ours" BY <1>1, CallBounds DEF SnapshotInv, StageOwned
<1>15. StageOwned' /\ TreeComplete' /\ PublicationTold'
  BY <1>1, <1>6, <1>8, <1>14, CallBounds DEF StageOwned, TreeComplete, PublicationTold
<1> QED BY <1>7, <1>11, <1>13, <1>15 DEF SnapshotInv

\* The second look: what is as inventoried was so when the inventory ended.
LEMMA CheckSourceKeeps ==
    ASSUME SnapshotInv, Snapshot!NamesAssumption, Snapshot!BoundsAssumption, NEW p \in Paths,
           Snapshot!CheckSource(p)
    PROVE  SnapshotInv'
<1>1. /\ Snapshot!At("check_source")
      /\ UNCHANGED <<source, place, stored, report, faults>> /\ Snapshot!Walked(p,
          Snapshot!Unchanged(p))
  BY DEF Snapshot!CheckSource
<1>2. /\ call.phase = "run" /\ call.pc \notin {2, 3, 4, PublishAt, VerifyAt, LastStep}
      /\ call \in Invoked
  BY <1>1, StepsAt, CallBounds
<1>3. faults' \in 0..SnapshotFaults BY <1>1 DEF SnapshotInv, SnapshotTypes
<1>4. CASE ~Snapshot!Unchanged(p)
  <2>1. call' = Snapshot!Raised BY <1>1, <1>4 DEF Snapshot!Walked
  <2>2. /\ call' \in Invoked /\ SameCall
        /\ call'.phase = "finally" /\ call'.pc = call.pc /\ call'.seen = call.seen
    BY <1>2, <2>1, CallIsRaised
  <2> QED BY <1>1, <1>2, <1>3, <2>2, RaisedKeeps
<1>5. CASE Snapshot!Unchanged(p)
  <2>1. call.pc = 5 => call.before[p] = call.asOf[p]
    <3> SUFFICES ASSUME call.pc = 5 PROVE call.before[p] = call.asOf[p]
        OBVIOUS
    <3>1. NoYounger(call.before[p], call.asOf[p]) /\ NoYounger(call.asOf[p], source[p])
      BY DEF SnapshotInv, AsInventoried
    <3>2. source[p] = call.before[p] BY <1>5 DEF Snapshot!Unchanged
    <3>3. call.before[p] \in Versions /\ call.asOf[p] \in Versions BY <1>2 DEF Invoked, Trees
    <3> QED BY <3>1, <3>2, <3>3, NoYoungerOrders
  <2>2. call.pc = 5 => \A q \in call.seen \cup {p} : call.before[q] = call.asOf[q]
    BY <2>1 DEF SnapshotInv, AsInventoried
  <2>3. PICK last \in BOOLEAN :
            /\ call' \in Invoked /\ SameCall /\ call'.phase = "run"
            /\ IF last THEN call'.pc = call.pc + 1 /\ call'.seen = {} /\ call.seen \cup {p} = Paths
               ELSE call'.pc = call.pc /\ call'.seen = call.seen \cup {p}
    <3>1. CASE call.seen \cup {p} = Paths
      <4>1. call' = Snapshot!Advanced BY <1>1, <1>5, <3>1 DEF Snapshot!Walked
      <4>2. call.pc < 15 BY <1>2, CallBounds
      <4> QED BY <1>2, <3>1, <4>1, <4>2, CallAdvances
    <3>2. CASE call.seen \cup {p} # Paths
      <4>1. call' = [call EXCEPT !.seen = @ \cup {p}] BY <1>1, <1>5, <3>2 DEF Snapshot!Walked
      <4> QED BY <1>2, <4>1, CallSeesMore
    <3> QED BY <3>1, <3>2
  <2>4. SnapshotTypes' BY <1>1, <2>3 DEF SnapshotInv, SnapshotTypes
  <2>5. PublishAt' = PublishAt /\ VerifyAt' = VerifyAt /\ LastStep' = LastStep
    BY <2>3 DEF SameCall, PublishAt, VerifyAt, LastStep
  <2>6. call.before \in Trees /\ call.asOf \in Trees BY <1>2 DEF Invoked
  <2>7. call.pc = 5 /\ last => call.before = call.asOf BY <2>2, <2>3, <2>6 DEF Trees
  <2>8. AsInventoried'
    BY <1>1, <1>2, <2>2, <2>3, <2>7, CallBounds DEF SnapshotInv, AsInventoried, SameCall
  <2>9. report.status # "CREATED" BY <1>2 DEF SnapshotInv, TreeVerified
  <2>10. TreeVerified' BY <1>1, <1>2, <2>3, <2>5, <2>9, CallBounds DEF SnapshotInv,
                          TreeVerified, SameCall
  <2>11. StageOwned' BY <1>1, <1>2, <2>3, <2>5, CallBounds DEF SnapshotInv, StageOwned, SameCall
  <2>12. TreeComplete' BY <1>1, <1>2, <2>3, CallBounds DEF SnapshotInv, TreeComplete, HasCopy,
                          SameCall
  <2>13. PublicationTold' BY <1>1, <1>2, <2>3, <2>5, CallBounds DEF SnapshotInv, PublicationTold
  <2> QED BY <2>4, <2>8, <2>10, <2>11, <2>12, <2>13 DEF SnapshotInv
<1> QED BY <1>4, <1>5

LEMMA MakeStageKeeps ==
    ASSUME SnapshotInv, Snapshot!BoundsAssumption, Snapshot!MakeStage
    PROVE  SnapshotInv'
<1>1. call.phase = "run" /\ call.pc = 3 /\ UNCHANGED <<source, stored, report>>
  BY StepsAt DEF Snapshot!MakeStage
<1>2. call \in Invoked /\ place \in [{"stage", "dest"} -> Places] /\ faults \in 0..SnapshotFaults
  BY DEF SnapshotInv, SnapshotTypes
<1>3. place' \in [{"stage", "dest"} -> Places] /\ place'["dest"] = place["dest"]
  BY <1>2 DEF Snapshot!MakeStage, Places
<1>4. place["dest"] # "ours" BY <1>1, CallBounds DEF SnapshotInv, StageOwned
<1>5. /\ call' \in Invoked /\ faults' \in 0..SnapshotFaults
      /\ call'.tool = call.tool /\ call'.before = call.before /\ call'.asOf = call.asOf
      /\ call'.verified = call.verified
      /\ \/ call'.phase = "run" /\ call'.pc = 4 /\ call'.seen = {} /\ call'.named /\ call'.owned
         \/ call'.phase = "finally" /\ call'.pc = 3
  <2>1. CASE call' = [Snapshot!Advanced EXCEPT !.named = TRUE, !.owned = TRUE] /\ faults' = faults
    <3>1. 4 \in 1..15 /\ {} \in SUBSET Paths OBVIOUS
    <3>2. call' = [call EXCEPT !.pc = 4, !.seen = {}, !.named = TRUE, !.owned = TRUE]
      BY <1>1, <1>2, <2>1 DEF Snapshot!Advanced, Invoked
    <3> QED BY <1>1, <1>2, <2>1, <3>1, <3>2 DEF Invoked
  <2>2. CASE call' = [Snapshot!Raised EXCEPT !.named = call.tool = "collect"] /\ Snapshot!Fault
    <3> DEFINE named == call.tool = "collect"
    <3>1. named \in BOOLEAN OBVIOUS
    <3>2. call' = [call EXCEPT !.phase = "finally", !.named = named]
      BY <1>2, <2>2 DEF Snapshot!Raised, Invoked
    <3>3. faults' \in 0..SnapshotFaults BY <1>2, <2>2 DEF Snapshot!Fault,
                                           Snapshot!BoundsAssumption
    <3> HIDE DEF named
    <3> QED BY <1>1, <1>2, <3>1, <3>2, <3>3 DEF Invoked, SnapshotPhases
  <2> QED BY <2>1, <2>2 DEF Snapshot!MakeStage
<1>6. SnapshotTypes' BY <1>1, <1>3, <1>5 DEF SnapshotInv, SnapshotTypes
<1>7. PublishAt' = PublishAt /\ VerifyAt' = VerifyAt /\ LastStep' = LastStep
  BY <1>5 DEF PublishAt, VerifyAt, LastStep
<1>8. AsInventoried' BY <1>1, <1>5 DEF SnapshotInv, AsInventoried
<1>9. report.status # "CREATED" BY <1>1 DEF SnapshotInv, TreeVerified
<1>10. TreeVerified' BY <1>1, <1>5, <1>7, <1>9, CallBounds DEF TreeVerified
<1>11. StageOwned' /\ TreeComplete' /\ PublicationTold'
  BY <1>1, <1>3, <1>4, <1>5, <1>7, CallBounds DEF StageOwned, TreeComplete, PublicationTold
<1> QED BY <1>6, <1>8, <1>10, <1>11 DEF SnapshotInv

\* A file whose fingerprint is still the inventoried one is copied; the staging is
\* complete when every file was.
LEMMA CopyKeeps ==
    ASSUME SnapshotInv, NEW p \in Paths, Snapshot!Copy(p)
    PROVE  SnapshotInv'
<1> DEFINE same == call.before[p] \in {None, source[p]}
<1>1. /\ call.phase = "run" /\ call.pc = 4
      /\ UNCHANGED <<source, place, report, faults>> /\ Snapshot!Walked(p, same)
      /\ stored' = IF same THEN [stored EXCEPT ![p] = call.before[p]] ELSE stored
  BY StepsAt DEF Snapshot!Copy
<1>2. call \in Invoked /\ stored \in Copies /\ faults' \in 0..SnapshotFaults
  BY <1>1 DEF SnapshotInv, SnapshotTypes
<1> HIDE DEF same
<1>3. CASE ~same
  <2>1. call' = Snapshot!Raised /\ stored' = stored BY <1>1, <1>3 DEF Snapshot!Walked
  <2>2. /\ call' \in Invoked /\ SameCall
        /\ call'.phase = "finally" /\ call'.pc = call.pc /\ call'.seen = call.seen
    BY <1>2, <2>1, CallIsRaised
  <2> QED BY <1>1, <1>2, <2>1, <2>2, RaisedKeeps
<1>4. CASE same
  <2>1. PICK last \in BOOLEAN :
            /\ call' \in Invoked /\ SameCall /\ call'.phase = "run"
            /\ IF last THEN call'.pc = 5 /\ call'.seen = {} /\ call.seen \cup {p} = Paths
               ELSE call'.pc = 4 /\ call'.seen = call.seen \cup {p}
    <3>1. CASE call.seen \cup {p} = Paths
      <4>1. call' = Snapshot!Advanced BY <1>1, <1>4, <3>1 DEF Snapshot!Walked
      <4>2. call' \in Invoked /\ SameCall /\ call'.phase = "run" /\ call'.pc = 5 /\ call'.seen = {}
        BY <1>1, <1>2, <4>1, CallAdvances
      <4> QED BY <3>1, <4>2
    <3>2. CASE call.seen \cup {p} # Paths
      <4>1. call' = [call EXCEPT !.seen = @ \cup {p}] BY <1>1, <1>4, <3>2 DEF Snapshot!Walked
      <4> QED BY <1>1, <1>2, <4>1, CallSeesMore
    <3> QED BY <3>1, <3>2
  <2>2. call.before[p] \in Versions BY <1>2 DEF Invoked, Trees
  <2>3. /\ stored' \in Copies /\ stored'[p] = call.before[p]
        /\ \A q \in Paths : q # p => stored'[q] = stored[q]
    BY <1>1, <1>2, <1>4, <2>2 DEF Copies
  <2>4. \A q \in call.seen \cup {p} : call.before[q] # None => stored'[q] # None
    <3>1. call.seen \subseteq Paths /\ \A q \in call.seen : HasCopy(q)
      BY <1>1, <1>2 DEF SnapshotInv, TreeComplete, Invoked
    <3> QED BY <2>3, <3>1 DEF HasCopy
  <2>5. SnapshotTypes' BY <1>1, <1>2, <2>1, <2>3 DEF SnapshotInv, SnapshotTypes
  <2>6. PublishAt' = PublishAt /\ VerifyAt' = VerifyAt /\ LastStep' = LastStep
    BY <2>1 DEF SameCall, PublishAt, VerifyAt, LastStep
  <2>7. AsInventoried' BY <1>1, <2>1 DEF SnapshotInv, AsInventoried, SameCall
  <2>8. report.status # "CREATED" BY <1>1 DEF SnapshotInv, TreeVerified
  <2>9. TreeVerified' BY <1>1, <2>1, <2>6, <2>8, CallBounds DEF TreeVerified
  <2>10. place["dest"] # "ours" BY <1>1, CallBounds DEF SnapshotInv, StageOwned
  <2>11. StageOwned' BY <1>1, <2>1, <2>6, <2>10, CallBounds DEF SnapshotInv, StageOwned, SameCall
  <2>12. TreeComplete' BY <1>1, <2>1, <2>4, <2>10 DEF TreeComplete, HasCopy, SameCall
  <2>13. PublicationTold' BY <1>1, <2>1, <2>6, <2>10, CallBounds DEF PublicationTold
  <2> QED BY <2>5, <2>7, <2>9, <2>11, <2>12, <2>13 DEF SnapshotInv
<1> QED BY <1>3, <1>4

\* The verifier passes only what is stored as it was inventoried.
LEMMA VerifyKeeps ==
    ASSUME SnapshotInv, NEW name \in {"stage", "dest"}, Snapshot!Verify(name)
    PROVE  SnapshotInv'
<1>1. /\ call.phase = "run" /\ call.pc \in {8, VerifyAt}
      /\ call.pc \notin {2, 3, 4, 5, PublishAt, LastStep}
      /\ UNCHANGED <<source, place, stored, report, faults>>
  <2>1. PICK step \in {"verify_stage", "verify_dest"} : Snapshot!At(step) BY DEF Snapshot!Verify
  <2> QED BY <2>1, StepsAt DEF Snapshot!Verify
<1>2. call \in Invoked /\ stored \in Copies BY DEF SnapshotInv, SnapshotTypes
<1>3. /\ call' \in Invoked /\ call'.tool = call.tool /\ call'.before = call.before
      /\ call'.asOf = call.asOf /\ call'.named = call.named /\ call'.owned = call.owned
      /\ \/ /\ call'.phase = "run" /\ call'.pc = call.pc + 1 /\ call'.seen = {}
            /\ call'.verified = call.before
         \/ call'.phase = "finally" /\ call'.pc = call.pc /\ call'.seen = call.seen
  <2>1. CASE Snapshot!AsCopied /\ call' = [Snapshot!Advanced EXCEPT !.verified = stored]
    <3>1. call.pc + 1 \in 1..15 BY <1>1, CallBounds
    <3>2. call' = [call EXCEPT !.pc = call.pc + 1, !.seen = {}, !.verified = stored]
      BY <1>2, <2>1 DEF Snapshot!Advanced, Invoked
    <3>3. stored = call.before BY <2>1 DEF Snapshot!AsCopied
    <3> QED BY <1>1, <1>2, <3>1, <3>2, <3>3 DEF Invoked
  <2>2. CASE call' = [Snapshot!Raised EXCEPT !.verified = stored]
    <3>1. call' = [call EXCEPT !.phase = "finally", !.verified = stored]
      BY <1>2, <2>2 DEF Snapshot!Raised, Invoked
    <3> QED BY <1>2, <3>1 DEF Invoked, SnapshotPhases
  <2> QED BY <2>1, <2>2 DEF Snapshot!Verify
<1>4. SnapshotTypes' BY <1>1, <1>3 DEF SnapshotInv, SnapshotTypes
<1>5. PublishAt' = PublishAt /\ VerifyAt' = VerifyAt /\ LastStep' = LastStep
  BY <1>3 DEF PublishAt, VerifyAt, LastStep
<1>6. AsInventoried' BY <1>1, <1>3, CallBounds DEF SnapshotInv, AsInventoried
<1>7. report.status # "CREATED" BY <1>1 DEF SnapshotInv, TreeVerified
<1>8. TreeVerified' BY <1>1, <1>3, <1>5, <1>7, CallBounds DEF SnapshotInv, TreeVerified
<1>9. StageOwned' BY <1>1, <1>3, <1>5, CallBounds DEF SnapshotInv, StageOwned
<1>10. TreeComplete' BY <1>1, <1>3, CallBounds DEF SnapshotInv, TreeComplete, HasCopy
<1>11. PublicationTold' BY <1>1, <1>3, <1>5, CallBounds DEF SnapshotInv, PublicationTold
<1> QED BY <1>4, <1>6, <1>8, <1>9, <1>10, <1>11 DEF SnapshotInv

\* What is published is the staging of this call, with every file.
LEMMA PublicationKeeps ==
    ASSUME SnapshotInv, Snapshot!BoundsAssumption, Snapshot!Publish
    PROVE  SnapshotInv'
<1>1. /\ call.phase = "run" /\ call.pc = PublishAt
      /\ UNCHANGED <<source, stored>>
  BY StepsAt DEF Snapshot!Publish
<1>2. call \in Invoked /\ report \in Returns /\ faults \in 0..SnapshotFaults
  BY DEF SnapshotInv, SnapshotTypes
<1>3. report.status # "CREATED" /\ call.named /\ call.owned /\ \A p \in Paths : HasCopy(p)
  BY <1>1, CallBounds DEF SnapshotInv, TreeVerified, StageOwned, TreeComplete
<1>4. CASE call' = Snapshot!Raised /\ UNCHANGED <<place, report, faults>>
  <2>1. /\ call' \in Invoked /\ SameCall
        /\ call'.phase = "finally" /\ call'.pc = call.pc /\ call'.seen = call.seen
    BY <1>2, <1>4, CallIsRaised
  <2> QED BY <1>1, <1>2, <1>4, <2>1, RaisedKeeps
<1>5. CASE place' = [stage |-> "absent", dest |-> "ours"]
  <2>1. place' \in [{"stage", "dest"} -> Places] BY <1>5 DEF Places
  <2>2. /\ call' \in Invoked /\ call'.tool = call.tool /\ call'.before = call.before
        /\ call'.asOf = call.asOf /\ call'.verified = call.verified
        /\ call'.named = call.named /\ call'.owned = call.owned
        /\ faults' \in 0..SnapshotFaults /\ report' \in Returns /\ report'.status # "CREATED"
        /\ \/ /\ call'.phase = "run" /\ call'.pc = call.pc + 1 /\ call'.seen = {}
              /\ report'.publication = "PUBLISHED"
           \/ call'.phase = "finally" /\ call'.pc = call.pc
    <3>1. CASE /\ call' = [Snapshot!Advanced EXCEPT !.published = TRUE]
               /\ report' = [report EXCEPT !.publication = "PUBLISHED"] /\ faults' = faults
      <4>1. call.pc + 1 \in 1..15 BY <1>1, CallBounds
      <4>2. call' = [call EXCEPT !.pc = call.pc + 1, !.seen = {}, !.published = TRUE]
        BY <1>2, <3>1 DEF Snapshot!Advanced, Invoked
      <4>3. report' \in Returns /\ report'.status # "CREATED" /\ report'.publication = "PUBLISHED"
        BY <1>2, <1>3, <3>1 DEF Returns
      <4> QED BY <1>1, <1>2, <3>1, <4>1, <4>2, <4>3 DEF Invoked
    <3>2. CASE call' = Snapshot!Raised /\ Snapshot!Fault /\ report' = report
      <4>1. faults' \in 0..SnapshotFaults BY <1>2, <3>2 DEF Snapshot!Fault,
                                             Snapshot!BoundsAssumption
      <4> QED BY <1>2, <1>3, <3>2, <4>1, CallIsRaised DEF SameCall
    <3>3. CASE call' = Snapshot!Raised /\ UNCHANGED <<place, report, faults>>
      BY <1>2, <1>3, <3>3, CallIsRaised DEF SameCall
    <3> QED BY <3>1, <3>2, <3>3 DEF Snapshot!Publish
  <2>3. SnapshotTypes' BY <1>1, <2>1, <2>2 DEF SnapshotInv, SnapshotTypes
  <2>4. PublishAt' = PublishAt /\ VerifyAt' = VerifyAt /\ LastStep' = LastStep
    BY <2>2 DEF PublishAt, VerifyAt, LastStep
  <2>5. AsInventoried' BY <1>1, <2>2, CallBounds DEF SnapshotInv, AsInventoried
  <2>6. TreeVerified' BY <1>1, <2>2, <2>4, CallBounds DEF TreeVerified
  <2>7. place'["dest"] = "ours" BY <1>5
  <2>8. StageOwned' BY <1>1, <1>3, <2>2, <2>4, <2>7, CallBounds DEF StageOwned
  <2>9. TreeComplete' BY <1>1, <1>3, <2>2, CallBounds DEF TreeComplete, HasCopy
  <2>10. PublicationTold' BY <1>1, <2>2, <2>4 DEF PublicationTold
  <2> QED BY <2>3, <2>5, <2>6, <2>8, <2>9, <2>10 DEF SnapshotInv
<1> QED BY <1>4, <1>5 DEF Snapshot!Publish

\* Success is reported only at the end, of what was verified.
LEMMA ReportKeeps ==
    ASSUME SnapshotInv, Snapshot!BoundsAssumption, Snapshot!Report
    PROVE  SnapshotInv'
<1>1. /\ call.phase = "run" /\ call.pc = LastStep /\ UNCHANGED <<source, place, stored>>
      /\ call' = [call EXCEPT !.phase = "over"]
  BY StepsAt DEF Snapshot!Report
<1>2. call \in Invoked /\ report \in Returns /\ faults \in 0..SnapshotFaults
  BY DEF SnapshotInv, SnapshotTypes
<1>3. /\ call' \in Invoked /\ SameCall
      /\ call'.phase = "over" /\ call'.pc = call.pc /\ call'.seen = call.seen
  BY <1>1, <1>2, PhaseEnds DEF SnapshotPhases
<1>4. faults' \in 0..SnapshotFaults /\ report' \in Returns
    /\ report'.publication = report.publication
  <2>1. CASE report' = [report EXCEPT !.status = "CREATED"] /\ faults' = faults
    BY <1>2, <2>1 DEF Returns
  <2>2. CASE report' = [report EXCEPT !.retained = TRUE,
      !.cleanup = "NOT_ATTEMPTED"] /\ Snapshot!Fault
    <3>1. faults' \in 0..SnapshotFaults BY <1>2, <2>2 DEF Snapshot!Fault,
                                           Snapshot!BoundsAssumption
    <3> QED BY <1>2, <2>2, <3>1 DEF Returns
  <2> QED BY <2>1, <2>2 DEF Snapshot!Report
<1>5. report.publication = "PUBLISHED" /\ call.verified = call.before /\ call.before = call.asOf
  BY <1>1, CallBounds DEF SnapshotInv, PublicationTold, TreeVerified, AsInventoried
<1>6. SnapshotTypes' BY <1>1, <1>3, <1>4 DEF SnapshotInv, SnapshotTypes
<1>7. PublishAt' = PublishAt /\ VerifyAt' = VerifyAt /\ LastStep' = LastStep
  BY <1>3 DEF SameCall, PublishAt, VerifyAt, LastStep
<1>8. AsInventoried' BY <1>1, <1>3 DEF SnapshotInv, AsInventoried, SameCall
<1>9. TreeVerified' BY <1>3, <1>5 DEF TreeVerified, SameCall
<1>10. StageOwned' BY <1>1, <1>3, <1>7 DEF SnapshotInv, StageOwned, SameCall
<1>11. TreeComplete' BY <1>1, <1>3 DEF SnapshotInv, TreeComplete, HasCopy, SameCall
<1>12. PublicationTold' BY <1>3, <1>4, <1>5 DEF PublicationTold
<1> QED BY <1>6, <1>8, <1>9, <1>10, <1>11, <1>12 DEF SnapshotInv

\* A call that fails ends here: what it published is told of, the rest is cleaned.
LEMMA EndingKeeps ==
    ASSUME SnapshotInv, call.phase \in {"finally", "clean"}, NEW ending \in {"clean", "over"},
           call' = [call EXCEPT !.phase = ending], source' = source,
           place' \in [{"stage", "dest"} -> Places], place'["dest"] = place["dest"],
           stored' \in Copies, place["dest"] = "ours" => stored' = stored,
           faults' \in 0..SnapshotFaults, report' \in Returns, report'.status = report.status,
           place["dest"] = "ours" => ending = "over" /\ report'.publication # "NOT_PUBLISHED"
    PROVE  SnapshotInv'
<1>1. call \in Invoked BY DEF SnapshotInv, SnapshotTypes
<1>2. /\ call' \in Invoked /\ SameCall
      /\ call'.phase = ending /\ call'.pc = call.pc /\ call'.seen = call.seen
  BY <1>1, PhaseEnds DEF SnapshotPhases
<1>3. SnapshotTypes' BY <1>2 DEF SnapshotInv, SnapshotTypes
<1>4. PublishAt' = PublishAt /\ VerifyAt' = VerifyAt /\ LastStep' = LastStep
  BY <1>2 DEF SameCall, PublishAt, VerifyAt, LastStep
<1>5. AsInventoried' BY <1>2 DEF SnapshotInv, AsInventoried, SameCall
<1>6. report.status # "CREATED" BY DEF SnapshotInv, TreeVerified
<1>7. TreeVerified' BY <1>2, <1>4, <1>6 DEF SnapshotInv, TreeVerified, SameCall
<1>8. StageOwned' BY <1>2, <1>4 DEF SnapshotInv, StageOwned, SameCall
<1>9. TreeComplete' BY <1>2 DEF SnapshotInv, TreeComplete, HasCopy, SameCall
<1>10. PublicationTold' BY <1>2 DEF PublicationTold
<1> QED BY <1>3, <1>5, <1>7, <1>8, <1>9, <1>10 DEF SnapshotInv

LEMMA FinallyKeeps ==
    ASSUME SnapshotInv, Snapshot!BoundsAssumption, Snapshot!Finally \/ Snapshot!FinallyBlind
    PROVE  SnapshotInv'
<1>1. /\ call.phase = "finally" /\ UNCHANGED <<source, place, stored>>
      /\ place \in [{"stage", "dest"} -> Places] /\ stored \in Copies
      /\ report \in Returns /\ faults \in 0..SnapshotFaults
  BY DEF SnapshotInv, SnapshotTypes, Snapshot!Finally, Snapshot!FinallyBlind
<1>2. place["dest"] = "ours" => call.named /\ call.owned BY DEF SnapshotInv, StageOwned
<1>3. CASE Snapshot!Finally
  <2>1. CASE ~call.named
    <3>1. report' = report /\ call' = [call EXCEPT !.phase = "over"] /\ faults' = faults
      BY <1>3, <2>1 DEF Snapshot!Finally, Snapshot!Over
    <3> QED BY <1>1, <1>2, <2>1, <3>1, EndingKeeps
  <2>2. CASE call.named /\ Snapshot!Published
    <3>1. /\ report' = [report EXCEPT !.publication = "PUBLISHED", !.retained = TRUE,
                                      !.cleanup = "NOT_ATTEMPTED"]
          /\ call' = [call EXCEPT !.phase = "over"] /\ faults' = faults
      BY <1>3, <2>2 DEF Snapshot!Finally, Snapshot!Over
    <3>2. /\ report' \in Returns /\ report'.status = report.status
          /\ report'.publication = "PUBLISHED"
      BY <1>1, <3>1 DEF Returns
    <3> QED BY <1>1, <3>1, <3>2, EndingKeeps
  <2>3. CASE call.named /\ ~Snapshot!Published
    <3>1. place["dest"] # "ours" BY <1>2, <2>3 DEF Snapshot!Published
    <3>2. report' = report /\ call' = [call EXCEPT !.phase = "clean"] /\ faults' = faults
      BY <1>3, <2>3 DEF Snapshot!Finally
    <3> QED BY <1>1, <3>1, <3>2, EndingKeeps
  <2> QED BY <2>1, <2>2, <2>3
<1>4. CASE Snapshot!FinallyBlind
  <2>1. /\ report' = [report EXCEPT !.publication = "UNCERTAIN", !.retained = TRUE,
                                    !.cleanup = "NOT_ATTEMPTED", !.residue = TRUE]
        /\ call' = [call EXCEPT !.phase = "over"] /\ Snapshot!Fault
    BY <1>4 DEF Snapshot!FinallyBlind, Snapshot!Over
  <2>2. /\ report' \in Returns /\ report'.status = report.status
        /\ report'.publication = "UNCERTAIN"
    BY <1>1, <2>1 DEF Returns
  <2>3. faults' \in 0..SnapshotFaults BY <1>1, <2>1 DEF Snapshot!Fault, Snapshot!BoundsAssumption
  <2> QED BY <1>1, <2>1, <2>2, <2>3, EndingKeeps
<1> QED BY <1>3, <1>4

\* Cleaning never touches what was published.
LEMMA CleanKeeps ==
    ASSUME SnapshotInv, Snapshot!BoundsAssumption,
           Snapshot!CleanStage \/ Snapshot!CleanFails \/ \E p \in Paths : Snapshot!CleanFile(p)
    PROVE  SnapshotInv'
<1>1. /\ call.phase = "clean" /\ source' = source
      /\ place \in [{"stage", "dest"} -> Places] /\ stored \in Copies /\ call \in Invoked
      /\ report \in Returns /\ faults \in 0..SnapshotFaults /\ place["dest"] # "ours"
  BY DEF SnapshotInv, SnapshotTypes, StageOwned, Snapshot!CleanStage, Snapshot!CleanFails,
     Snapshot!CleanFile
<1>2. CASE Snapshot!CleanStage
  <2>1. /\ report' = [report EXCEPT !.cleanup = "CLEANED"]
        /\ call' = [call EXCEPT !.phase = "over"] /\ UNCHANGED <<stored, faults>>
        /\ place' = [place EXCEPT !["stage"] = "absent"]
    BY <1>2 DEF Snapshot!CleanStage, Snapshot!Over
  <2>2. report' \in Returns /\ report'.status = report.status BY <1>1, <2>1 DEF Returns
  <2>3. place' \in [{"stage", "dest"} -> Places] /\ place'["dest"] = place["dest"]
    BY <1>1, <2>1 DEF Places
  <2> QED BY <1>1, <2>1, <2>2, <2>3, EndingKeeps
<1>3. CASE Snapshot!CleanFails
  <2>1. /\ report' = [report EXCEPT !.cleanup = "FAILED", !.residue = TRUE]
        /\ call' = [call EXCEPT !.phase = "over"] /\ UNCHANGED <<place, stored>>
        /\ Snapshot!Fault \/ faults' = faults
    BY <1>3 DEF Snapshot!CleanFails, Snapshot!Over
  <2>2. report' \in Returns /\ report'.status = report.status BY <1>1, <2>1 DEF Returns
  <2>3. faults' \in 0..SnapshotFaults BY <1>1, <2>1 DEF Snapshot!Fault, Snapshot!BoundsAssumption
  <2> QED BY <1>1, <2>1, <2>2, <2>3, EndingKeeps
<1>4. ASSUME NEW p \in Paths, Snapshot!CleanFile(p) PROVE SnapshotInv'
  <2>1. stored' = [stored EXCEPT ![p] = None] /\ UNCHANGED <<place, call, report, faults>>
    BY <1>4 DEF Snapshot!CleanFile
  <2>2. stored' \in Copies BY <1>1, <2>1 DEF Copies, Versions
  <2>3. call' = [call EXCEPT !.phase = "clean"] BY <1>1, <2>1 DEF Invoked
  <2> QED BY <1>1, <2>1, <2>2, <2>3, EndingKeeps
<1> QED BY <1>2, <1>3, <1>4

\* Failures and kills at any step.
LEMMA CutOffKeeps ==
    ASSUME SnapshotInv, Snapshot!BoundsAssumption, Snapshot!Fails \/ Snapshot!Kill
    PROVE  SnapshotInv'
<1>1. /\ call \in Invoked /\ faults \in 0..SnapshotFaults /\ Snapshot!Fault
      /\ UNCHANGED <<source, place, stored, report>>
  BY DEF SnapshotInv, SnapshotTypes, Snapshot!Fails, Snapshot!Kill
<1>2. faults' \in 0..SnapshotFaults BY <1>1 DEF Snapshot!Fault, Snapshot!BoundsAssumption
<1>3. CASE Snapshot!Fails
  <2>1. call' = Snapshot!Raised /\ call.phase = "run" BY <1>3 DEF Snapshot!Fails
  <2>2. /\ call' \in Invoked /\ SameCall
        /\ call'.phase = "finally" /\ call'.pc = call.pc /\ call'.seen = call.seen
    BY <1>1, <2>1, CallIsRaised
  <2> QED BY <1>1, <1>2, <2>1, <2>2, RaisedKeeps
<1>4. CASE Snapshot!Kill
  <2>1. call' = [call EXCEPT !.phase = "killed"] /\ call.phase \in {"run", "finally", "clean"}
    BY <1>4 DEF Snapshot!Kill
  <2>2. /\ call' \in Invoked /\ SameCall
        /\ call'.phase = "killed" /\ call'.pc = call.pc /\ call'.seen = call.seen
    BY <1>1, <2>1, PhaseEnds DEF SnapshotPhases
  <2>3. SnapshotTypes' BY <1>1, <1>2, <2>2 DEF SnapshotInv, SnapshotTypes
  <2>4. PublishAt' = PublishAt /\ VerifyAt' = VerifyAt /\ LastStep' = LastStep
    BY <2>2 DEF SameCall, PublishAt, VerifyAt, LastStep
  <2>5. AsInventoried' BY <1>1, <2>2 DEF SnapshotInv, AsInventoried, SameCall
  <2>6. report.status # "CREATED" BY <2>1 DEF SnapshotInv, TreeVerified
  <2>7. TreeVerified' BY <1>1, <2>2, <2>4, <2>6 DEF SnapshotInv, TreeVerified, SameCall
  <2>8. StageOwned' BY <1>1, <2>2, <2>4 DEF SnapshotInv, StageOwned, SameCall
  <2>9. TreeComplete' BY <1>1, <2>2 DEF SnapshotInv, TreeComplete, HasCopy, SameCall
  <2>10. PublicationTold' BY <2>2 DEF PublicationTold
  <2> QED BY <2>3, <2>5, <2>7, <2>8, <2>9, <2>10 DEF SnapshotInv
<1> QED BY <1>3, <1>4

\* Whatever the others do, files of the source are only written to, and nobody but
\* this call puts its tree at the destination.
LEMMA OthersKeepSnapshot ==
    ASSUME SnapshotInv, Snapshot!NamesAssumption, Snapshot!BoundsAssumption,
           \/ Snapshot!Occupy \/ \E name \in {"stage", "dest"} : Snapshot!TakeAway(name)
           \/ \E p \in Paths : Snapshot!Write(p) \/ Snapshot!Tamper(p)
    PROVE  SnapshotInv'
<1>1. /\ UNCHANGED <<call, report>> /\ call.phase = "run"
      /\ source \in Trees /\ place \in [{"stage", "dest"} -> Places] /\ stored \in Copies
      /\ call \in Invoked /\ report \in Returns /\ faults \in 0..SnapshotFaults
  BY DEF SnapshotInv, SnapshotTypes, Snapshot!Occupy, Snapshot!TakeAway, Snapshot!Write,
     Snapshot!Tamper
<1>2. PublishAt' = PublishAt /\ VerifyAt' = VerifyAt /\ LastStep' = LastStep
  BY <1>1 DEF PublishAt, VerifyAt, LastStep
<1>3. TreeVerified' BY <1>1, <1>2 DEF SnapshotInv, TreeVerified
<1>4. ASSUME SnapshotTypes', \A q \in Paths : NoYounger(source[q], source'[q]),
             \A q \in Paths : stored[q] # None => stored'[q] # None,
             place'["dest"] = "ours" => place["dest"] = "ours"
      PROVE  SnapshotInv'
  <2>1. AsInventoried'
    <3>1. /\ call.before \in Trees /\ call.asOf \in Trees /\ call.seen \subseteq Paths
          /\ source' \in Trees
      BY <1>1, <1>4 DEF Invoked, SnapshotTypes
    <3>2. ASSUME call.pc = 2, NEW q \in call.seen PROVE NoYounger(call.before[q], source'[q])
      <4>1. NoYounger(call.before[q], source[q]) /\ NoYounger(source[q], source'[q]) /\ q \in Paths
        BY <1>4, <3>1, <3>2 DEF SnapshotInv, AsInventoried
      <4> QED BY <1>1, <3>1, <4>1, NoYoungerOrders DEF Trees
    <3>3. ASSUME call.pc > 2, NEW q \in Paths PROVE NoYounger(call.asOf[q], source'[q])
      <4>1. NoYounger(call.asOf[q], source[q]) /\ NoYounger(source[q], source'[q])
        BY <1>4, <3>3 DEF SnapshotInv, AsInventoried
      <4> QED BY <1>1, <3>1, <4>1, NoYoungerOrders DEF Trees
    <3> QED BY <1>1, <3>2, <3>3 DEF SnapshotInv, AsInventoried
  <2>2. StageOwned' BY <1>1, <1>2, <1>4 DEF SnapshotInv, StageOwned
  <2>3. TreeComplete'
    <3>1. call.seen \subseteq Paths BY <1>1 DEF Invoked
    <3> QED BY <1>1, <1>4, <3>1 DEF SnapshotInv, TreeComplete, HasCopy
  <2>4. PublicationTold' BY <1>1, <1>2 DEF SnapshotInv, PublicationTold
  <2> QED BY <1>3, <1>4, <2>1, <2>2, <2>3, <2>4 DEF SnapshotInv
<1>5. \A q \in Paths : NoYounger(source[q], source[q]) BY <1>1, NoYoungerOrders DEF Trees
<1>6. CASE Snapshot!Occupy
  <2>1. faults' \in 0..SnapshotFaults BY <1>1, <1>6 DEF Snapshot!Occupy, Snapshot!Fault,
                                         Snapshot!BoundsAssumption
  <2>2. place' \in [{"stage", "dest"} -> Places] /\ place'["dest"] # "ours"
    BY <1>1, <1>6 DEF Snapshot!Occupy, Places
  <2>3. source' = source /\ stored' = stored BY <1>6 DEF Snapshot!Occupy
  <2>4. SnapshotTypes' BY <1>1, <2>1, <2>2, <2>3 DEF SnapshotTypes
  <2> QED BY <1>4, <1>5, <2>2, <2>3, <2>4
<1>7. ASSUME NEW name \in {"stage", "dest"}, Snapshot!TakeAway(name) PROVE SnapshotInv'
  <2>1. faults' \in 0..SnapshotFaults BY <1>1, <1>7 DEF Snapshot!TakeAway, Snapshot!Fault,
                                         Snapshot!BoundsAssumption
  <2>2. /\ place' \in [{"stage", "dest"} -> Places]
        /\ place'["dest"] = "ours" => place["dest"] = "ours"
    BY <1>1, <1>7 DEF Snapshot!TakeAway, Places
  <2>3. source' = source /\ stored' = stored BY <1>7 DEF Snapshot!TakeAway
  <2>4. SnapshotTypes' BY <1>1, <2>1, <2>2, <2>3 DEF SnapshotTypes
  <2> QED BY <1>4, <1>5, <2>2, <2>3, <2>4
<1>8. ASSUME NEW p \in Paths, Snapshot!Write(p) PROVE SnapshotInv'
  <2> DEFINE new == IF source[p] = None THEN 0 ELSE source[p] + 1
  <2>1. /\ UNCHANGED <<place, stored, faults>> /\ source[p] # SourceWrites
        /\ source' = [source EXCEPT ![p] = new]
    BY <1>8 DEF Snapshot!Write
  <2>2. source[p] \in Versions BY <1>1 DEF Trees
  <2>3. new \in Versions /\ NoYounger(source[p], new)
    BY <2>1, <2>2 DEF Versions, NoYounger, Snapshot!NamesAssumption, Snapshot!BoundsAssumption
  <2> HIDE DEF new
  <2>4. source' \in Trees /\ \A q \in Paths : NoYounger(source[q], source'[q])
    BY <1>1, <1>5, <2>1, <2>3 DEF Trees
  <2>5. SnapshotTypes' BY <1>1, <2>1, <2>4 DEF SnapshotTypes
  <2> QED BY <1>4, <2>1, <2>4, <2>5
<1>9. ASSUME NEW p \in Paths, Snapshot!Tamper(p) PROVE SnapshotInv'
  <2>1. faults' \in 0..SnapshotFaults BY <1>1, <1>9 DEF Snapshot!Tamper, Snapshot!Fault,
                                         Snapshot!BoundsAssumption
  <2>2. UNCHANGED <<source, place>> /\ stored' = [stored EXCEPT ![p] = Snapshot!Tampered]
    BY <1>9 DEF Snapshot!Tamper
  <2>3. stored' \in Copies /\ \A q \in Paths : stored[q] # None => stored'[q] # None
    BY <1>1, <2>2 DEF Copies, Snapshot!NamesAssumption
  <2>4. SnapshotTypes' BY <1>1, <2>1, <2>2, <2>3 DEF SnapshotTypes
  <2> QED BY <1>4, <1>5, <2>2, <2>3, <2>4
<1> QED BY <1>6, <1>7, <1>8, <1>9

LEMMA SnapshotStutters ==
    ASSUME SnapshotInv, UNCHANGED Snapshot!vars
    PROVE  SnapshotInv'
<1>1. UNCHANGED <<source, place, stored, call, report, faults>> BY DEF Snapshot!vars
<1>2. PublishAt' = PublishAt /\ VerifyAt' = VerifyAt /\ LastStep' = LastStep
  BY <1>1 DEF PublishAt, VerifyAt, LastStep
<1> QED BY <1>1, <1>2 DEF SnapshotInv, SnapshotTypes, AsInventoried, TreeVerified, StageOwned,
           TreeComplete,
                          HasCopy, PublicationTold

LEMMA StepKeepsSnapshot ==
    ASSUME Snapshot!NamesAssumption, Snapshot!BoundsAssumption, SnapshotInv,
           [Snapshot!Next]_(Snapshot!vars)
    PROVE  SnapshotInv'
<1>1. CASE Snapshot!CheckAbsent \/ Snapshot!Manifest \/ Snapshot!CheckPlace("stage")
    \/ Snapshot!CheckPlace("dest")
  BY <1>1, LooksKeep
<1>2. CASE Snapshot!MakeStage BY <1>2, MakeStageKeeps
<1>3. CASE Snapshot!Publish BY <1>3, PublicationKeeps
<1>4. CASE Snapshot!Report BY <1>4, ReportKeeps
<1>5. ASSUME NEW p \in Paths,
    Snapshot!Inventory(p) \/ Snapshot!Copy(p) \/ Snapshot!CheckSource(p) PROVE SnapshotInv'
  BY <1>5, WalkKeeps, CopyKeeps, CheckSourceKeeps
<1>6. ASSUME NEW name \in {"stage", "dest"}, Snapshot!Verify(name) PROVE SnapshotInv'
  BY <1>6, VerifyKeeps
<1>7. CASE Snapshot!Finally \/ Snapshot!FinallyBlind BY <1>7, FinallyKeeps
<1>8. CASE Snapshot!CleanStage \/ Snapshot!CleanFails \/ \E p \in Paths : Snapshot!CleanFile(p)
  BY <1>8, CleanKeeps
<1>9. CASE Snapshot!Fails \/ Snapshot!Kill BY <1>9, CutOffKeeps
<1>10. CASE \/ Snapshot!Occupy \/ \E name \in {"stage", "dest"} : Snapshot!TakeAway(name)
            \/ \E p \in Paths : Snapshot!Write(p) \/ Snapshot!Tamper(p)
  BY <1>10, OthersKeepSnapshot
<1>11. CASE UNCHANGED Snapshot!vars BY <1>11, SnapshotStutters
<1> QED BY <1>1, <1>2, <1>3, <1>4, <1>5, <1>6, <1>7, <1>8, <1>9, <1>10, <1>11 DEF Snapshot!Next

THEOREM SnapshotIsSound ==
    ASSUME Snapshot!NamesAssumption, Snapshot!BoundsAssumption
    PROVE  Snapshot!Spec => [](Snapshot!TypeOK /\ Snapshot!SnapshotSound)
<1>1. Snapshot!Init => SnapshotInv BY InitSnapshot
<1>2. SnapshotInv /\ [Snapshot!Next]_(Snapshot!vars) => SnapshotInv' BY StepKeepsSnapshot
<1>3. SnapshotInv => Snapshot!TypeOK /\ Snapshot!SnapshotSound BY SnapshotFollows
<1> QED BY <1>1, <1>2, <1>3, PTL DEF Snapshot!Spec

-----------------------------------------------------------------------------
(* Sidecar: what the program went past is done, and only an ordinary failure is *)
(* looked at again.                                                             *)

SeenLegacy == {None} \cup 0..BackupWrites
Retries == {"retry_space", "retry_confirm", "retry_probe"}
SidecarPhases == {"run", "except", "finally", "over", "killed"} \cup Retries
RefusedCodes == UNION Sidecar!Refusals
InterruptCodes == {Sidecar!Interrupted[t] : t \in Sidecar!Tools}
Codes == Sidecar!GlobalCodes \cup Sidecar!Ordinary \cup RefusedCodes \cup InterruptCodes
             \cup {Sidecar!Guard}
HookReport == [upgrade: {"BLOCKED", "PERMITTED", "PERMITTED_WITH_FAILURE"},
           sidecar: {"NOT_RUN", "FAILED", "TRUSTED"}, catalog: {"NOT_RUN", "FAILED", "TRUSTED"}]

SidecarTypes ==
    /\ mode \in {"OPTIONAL", "STRICT"} /\ legacy \in 0..BackupWrites
    /\ active \in BOOLEAN /\ space \in BOOLEAN /\ inherited \in BOOLEAN
    /\ at \in 1..15 /\ phase \in SidecarPhases /\ codes \subseteq Codes
        /\ faults \in 0..SidecarFaults
    /\ seen \in [before: SeenLegacy, copied: SeenLegacy] /\ report \in HookReport
    /\ history \in [interrupted: BOOLEAN, unreadable: BOOLEAN, confirmed: SeenLegacy]

\* A run has no code, and what it went past is done.
WentPast ==
    /\ phase = "run" => codes = {} /\ ~history.unreadable /\ report.upgrade = "BLOCKED"
    /\ at > 4 => seen.before # None
    /\ at > 5 => seen.copied = seen.before
    /\ report.sidecar = "TRUSTED" => at > 12
    /\ phase = "run" /\ at > 12 => report.sidecar = "TRUSTED" /\ report.catalog = "TRUSTED"
    /\ phase = "run" /\ at > 13 => seen.before = history.confirmed

\* Only an ordinary failure is looked at again, in OPTIONAL, and confirmed before the
\* last look at the machine.
LookedAtAgain ==
    /\ history.unreadable => "READ_FAILED" \in codes
    /\ phase \in Retries => /\ mode = "OPTIONAL" /\ ~history.unreadable
                            /\ report.upgrade = "BLOCKED"
    /\ phase = "retry_probe" => seen.before \in {None, history.confirmed}

PermitEarned ==
    report.upgrade # "BLOCKED" =>
        /\ phase \in {"finally", "over", "killed"}
        /\ seen.before \in {None, history.confirmed}
        /\ mode = "STRICT" => report.sidecar = "TRUSTED" /\ report.catalog = "TRUSTED"
        /\ ~history.unreadable

SidecarInv == SidecarTypes /\ WentPast /\ LookedAtAgain /\ PermitEarned

LEMMA SidecarFollows == SidecarInv => Sidecar!TypeOK /\ Sidecar!PermittedIsWhatWasCaptured
<1> SUFFICES ASSUME SidecarInv PROVE Sidecar!TypeOK /\ Sidecar!PermittedIsWhatWasCaptured
    OBVIOUS
<1>1. SidecarTypes BY DEF SidecarInv
<1>2. DOMAIN Sidecar!Program = 1..15 BY DEF Sidecar!Program
<1>3. phase \in {"run", "except", "retry_space", "retry_confirm", "retry_probe", "finally",
                 "over", "killed"}
  BY <1>1 DEF SidecarTypes, SidecarPhases, Retries
<1>4. /\ report.upgrade \in {"BLOCKED", "PERMITTED", "PERMITTED_WITH_FAILURE"}
      /\ report.sidecar \in {"NOT_RUN", "FAILED", "TRUSTED"}
  BY <1>1 DEF SidecarTypes, HookReport
<1>5. Sidecar!TypeOK
  BY <1>1, <1>2, <1>3, <1>4, Zenon
     DEF SidecarTypes, Sidecar!TypeOK, Codes, RefusedCodes, InterruptCodes
<1>6. report.sidecar = "TRUSTED" => seen.before # None /\ seen.copied = seen.before
  BY <1>1 DEF SidecarInv, WentPast, SidecarTypes
<1>7. Sidecar!PermittedIsWhatWasCaptured
  BY <1>6 DEF SidecarInv, PermitEarned, Sidecar!Permitted, Sidecar!PermittedIsWhatWasCaptured
<1> QED BY <1>5, <1>7

LEMMA InitSidecar ==
    ASSUME Sidecar!BoundsAssumption, Sidecar!Init
    PROVE  SidecarInv
<1>1. seen \in [before: SeenLegacy, copied: SeenLegacy] BY DEF Sidecar!Init, SeenLegacy
<1>2. report \in HookReport /\ report.upgrade = "BLOCKED" /\ report.sidecar = "NOT_RUN"
  BY DEF Sidecar!Init, HookReport
<1>3. /\ history \in [interrupted: BOOLEAN, unreadable: BOOLEAN, confirmed: SeenLegacy]
      /\ ~history.unreadable
  BY DEF Sidecar!Init, SeenLegacy
<1>4. at = 1 /\ phase = "run" /\ codes = {} BY DEF Sidecar!Init
<1>5. SidecarTypes
  BY <1>1, <1>2, <1>3, <1>4 DEF Sidecar!Init, SidecarTypes, SidecarPhases,
     Sidecar!BoundsAssumption
<1>6. WentPast /\ LookedAtAgain /\ PermitEarned
  BY <1>2, <1>3, <1>4 DEF WentPast, LookedAtAgain, Retries, PermitEarned
<1> QED BY <1>5, <1>6 DEF SidecarInv

LEMMA ProgramAt ==
    ASSUME SidecarTypes, NEW step, Sidecar!At(step)
    PROVE  /\ phase = "run" /\ at \in 1..15
           /\ step = "inventory" <=> at = 4
           /\ step = "copy" <=> at = 5
           /\ step = "catalog_verify" <=> at = 12
           /\ step = "confirm" <=> at = 13
           /\ step = "permit" <=> at = 15
           /\ step \in Sidecar!Tools <=> at \in 8..12
<1>1. phase = "run" /\ at \in 1..15 /\ step = Sidecar!Program[at] BY DEF SidecarTypes,
  Sidecar!At, Sidecar!Running
<1> QED BY <1>1 DEF Sidecar!Program, Sidecar!Tools

LEMMA CodesAre ==
    /\ Sidecar!GlobalCodes \subseteq Codes /\ Sidecar!Guard \in Codes
        /\ Sidecar!Ordinary \subseteq Codes
    /\ \A new \in Sidecar!Refusals : new \subseteq Codes
    /\ \A t \in Sidecar!Tools : Sidecar!Interrupted[t] \in Codes
<1>1. /\ Sidecar!GlobalCodes \subseteq Codes /\ Sidecar!Ordinary \subseteq Codes
    /\ RefusedCodes \subseteq Codes
      /\ InterruptCodes \subseteq Codes /\ {Sidecar!Guard} \subseteq Codes
  BY DEF Codes
<1>2. \A new \in Sidecar!Refusals : new \subseteq Codes BY <1>1, Zenon DEF RefusedCodes
<1>3. \A t \in Sidecar!Tools : Sidecar!Interrupted[t] \in Codes BY <1>1, Zenon DEF InterruptCodes
<1>4. Sidecar!Guard \in Codes BY <1>1, Zenon
<1> QED BY <1>1, <1>2, <1>3, <1>4, Zenon

\* A run that fails: whatever it was told is one of its codes.
LEMMA RunFails ==
    ASSUME SidecarInv, phase = "run", phase' = "except", at' = at,
           UNCHANGED <<mode, legacy, active, space, inherited>>,
           seen' = seen \/ (at = 5 /\ seen' \in [before: SeenLegacy, copied: SeenLegacy]
                                   /\ seen'.before = seen.before),
           codes' \subseteq Codes, faults' \in 0..SidecarFaults,
           history' \in [interrupted: BOOLEAN, unreadable: BOOLEAN, confirmed: SeenLegacy],
           history'.unreadable => "READ_FAILED" \in codes',
           report' \in HookReport, report'.upgrade = "BLOCKED",
           report'.sidecar = "TRUSTED" => report.sidecar = "TRUSTED"
    PROVE  SidecarInv'
<1>1. SidecarTypes' BY DEF SidecarInv, SidecarTypes, SidecarPhases
<1>2. at \in 1..15 BY DEF SidecarInv, SidecarTypes
<1>3. WentPast' BY <1>2 DEF SidecarInv, WentPast
<1>4. LookedAtAgain' /\ PermitEarned' BY DEF LookedAtAgain, Retries, PermitEarned
<1> QED BY <1>1, <1>3, <1>4 DEF SidecarInv

\* A run that goes on.
LEMMA RunContinues ==
    ASSUME SidecarInv, phase = "run", phase' = "run", at < 15, at' = at + 1, codes' = codes,
           UNCHANGED <<mode, legacy, active, space, inherited, faults>>,
           seen' \in [before: SeenLegacy, copied: SeenLegacy],
           at = 4 => seen'.before # None, at # 4 => seen'.before = seen.before,
           at = 5 => seen'.copied = seen.before, at # 5 => seen'.copied = seen.copied,
           history' \in [interrupted: BOOLEAN, unreadable: BOOLEAN, confirmed: SeenLegacy],
           history'.unreadable = history.unreadable,
           at = 13 => seen.before = history'.confirmed,
           at # 13 => history'.confirmed = history.confirmed,
           report' \in HookReport, report'.upgrade = "BLOCKED",
           at < 12 => report'.sidecar = report.sidecar \/ report'.sidecar # "TRUSTED",
           at = 12 => report'.sidecar = "TRUSTED" /\ report'.catalog = "TRUSTED",
           at > 12 => report' = report
    PROVE  SidecarInv'
<1>1. at \in 1..15 /\ at' \in 1..15 BY DEF SidecarInv, SidecarTypes
<1>2. SidecarTypes' BY <1>1 DEF SidecarInv, SidecarTypes, SidecarPhases
<1>3. WentPast' BY <1>1 DEF SidecarInv, WentPast
<1>4. LookedAtAgain' /\ PermitEarned' BY DEF SidecarInv, WentPast, LookedAtAgain, Retries,
                                         PermitEarned
<1> QED BY <1>2, <1>3, <1>4 DEF SidecarInv

\* The checks that look at the machine only.
LEMMA ChecksKeep ==
    ASSUME SidecarInv, Sidecar!CheckGuard \/ Sidecar!Probe \/ Sidecar!Headroom \/ Sidecar!Recheck
    PROVE  SidecarInv'
<1>1. /\ SidecarTypes /\ WentPast
      /\ UNCHANGED <<mode, legacy, active, space, inherited, seen, report, history, faults>>
  BY DEF SidecarInv, Sidecar!CheckGuard, Sidecar!Probe, Sidecar!Headroom, Sidecar!Recheck,
     Sidecar!outside
<1>2. PICK step \in {"guard", "probe", "headroom", "recheck"} : Sidecar!At(step)
  BY DEF Sidecar!CheckGuard, Sidecar!Probe, Sidecar!Headroom, Sidecar!Recheck
<1>3. phase = "run" /\ at \in 1..15 /\ at \notin {4, 5, 12, 13, 15}
  BY <1>1, <1>2, ProgramAt
<1>4. PICK reason \in Codes : Sidecar!Continue \/ Sidecar!Raise({reason})
  <2>1. {"QUIET_GATE_REFUSED", "HEADROOM_INSUFFICIENT", "BACKUP_CHANGED",
      Sidecar!Guard} \subseteq Codes
    BY CodesAre DEF Sidecar!GlobalCodes
  <2>2. \E reason \in {"QUIET_GATE_REFUSED", "HEADROOM_INSUFFICIENT", "BACKUP_CHANGED",
      Sidecar!Guard} :
            Sidecar!Continue \/ Sidecar!Raise({reason})
    BY DEF Sidecar!CheckGuard, Sidecar!Probe, Sidecar!Headroom, Sidecar!Recheck, Sidecar!Require
  <2> QED BY <2>1, <2>2
<1>5. /\ faults' \in 0..SidecarFaults /\ report' \in HookReport /\ report'.upgrade = "BLOCKED"
      /\ seen' \in [before: SeenLegacy, copied: SeenLegacy]
      /\ history' \in [interrupted: BOOLEAN, unreadable: BOOLEAN, confirmed: SeenLegacy]
      /\ ~history.unreadable /\ codes = {}
  BY <1>1, <1>3 DEF SidecarTypes, WentPast
<1>6. CASE Sidecar!Continue
  <2>1. at' = at + 1 /\ phase' = "run" /\ codes' = codes /\ at < 15
    BY <1>3, <1>6 DEF Sidecar!Continue
  <2> QED BY <1>1, <1>3, <1>5, <2>1, RunContinues DEF WentPast
<1>7. CASE Sidecar!Raise({reason})
  <2>1. codes' \subseteq Codes /\ phase' = "except" /\ at' = at BY <1>4, <1>5,
    <1>7 DEF Sidecar!Raise, Sidecar!Ends
  <2> QED BY <1>1, <1>3, <1>5, <2>1, RunFails
<1> QED BY <1>4, <1>6, <1>7

\* The legacy backup is inventoried, then copied as it was inventoried.
LEMMA LegacyKeeps ==
    ASSUME SidecarInv, Sidecar!BoundsAssumption, Sidecar!NamesAssumption,
           Sidecar!Inventory \/ Sidecar!Copy
    PROVE  SidecarInv'
<1>1. /\ SidecarTypes /\ WentPast
      /\ UNCHANGED <<mode, legacy, active, space, inherited, report, history>>
  BY DEF SidecarInv, Sidecar!Inventory, Sidecar!Copy, Sidecar!outside
<1>2. phase = "run" /\ (Sidecar!Inventory => at = 4) /\ (Sidecar!Copy => at = 5)
  BY <1>1, ProgramAt DEF Sidecar!Inventory, Sidecar!Copy
<1>3. /\ report' \in HookReport /\ report'.upgrade = "BLOCKED" /\ legacy \in SeenLegacy
    /\ legacy # None
      /\ history' \in [interrupted: BOOLEAN, unreadable: BOOLEAN, confirmed: SeenLegacy]
      /\ ~history.unreadable /\ codes = {} /\ faults \in 0..SidecarFaults
      /\ seen \in [before: SeenLegacy, copied: SeenLegacy]
  BY <1>1, <1>2 DEF SidecarTypes, WentPast, SeenLegacy, Sidecar!NamesAssumption
<1>4. "TIME_LIMIT" \in Codes /\ "BACKUP_CHANGED" \in Codes
  BY CodesAre DEF Sidecar!GlobalCodes, Sidecar!Ordinary
<1>5. CASE Sidecar!Inventory
  <2>1. CASE Sidecar!Continue /\ seen' = [seen EXCEPT !.before = legacy] /\ faults' = faults
    <3>1. /\ seen' \in [before: SeenLegacy, copied: SeenLegacy] /\ seen'.before = legacy
          /\ seen'.copied = seen.copied
      BY <1>3, <2>1
    <3>2. at' = at + 1 /\ phase' = "run" /\ codes' = codes BY <1>2, <2>1 DEF Sidecar!Continue
    <3> QED BY <1>1, <1>2, <1>3, <1>5, <2>1, <3>1, <3>2, RunContinues
  <2>2. CASE Sidecar!Raise({"TIME_LIMIT"}) /\ Sidecar!Fault /\ seen' = seen
    <3>1. codes' \subseteq Codes /\ phase' = "except" /\ at' = at
      BY <1>3, <1>4, <2>2 DEF Sidecar!Raise, Sidecar!Ends
    <3>2. faults' \in 0..SidecarFaults BY <1>3, <2>2 DEF Sidecar!Fault, Sidecar!BoundsAssumption
    <3> QED BY <1>1, <1>2, <1>3, <2>2, <3>1, <3>2, RunFails
  <2> QED BY <1>5, <2>1, <2>2 DEF Sidecar!Inventory
<1>6. CASE Sidecar!Copy
  <2>1. /\ seen' = [seen EXCEPT !.copied = legacy] /\ faults' = faults
        /\ IF legacy = seen.before THEN Sidecar!Continue ELSE Sidecar!Raise({"BACKUP_CHANGED"})
    BY <1>6 DEF Sidecar!Copy, Sidecar!Require
  <2>2. /\ seen' \in [before: SeenLegacy, copied: SeenLegacy] /\ seen'.before = seen.before
        /\ seen'.copied = legacy
    BY <1>3, <2>1
  <2>3. CASE legacy = seen.before
    <3>1. at' = at + 1 /\ phase' = "run" /\ codes' = codes BY <1>2, <2>1,
      <2>3 DEF Sidecar!Continue
    <3> QED BY <1>1, <1>2, <1>3, <1>6, <2>1, <2>2, <2>3, <3>1, RunContinues
  <2>4. CASE legacy # seen.before
    <3>1. codes' \subseteq Codes /\ phase' = "except" /\ at' = at
      BY <1>3, <1>4, <2>1, <2>4 DEF Sidecar!Raise, Sidecar!Ends
    <3> QED BY <1>1, <1>2, <1>3, <1>6, <2>1, <2>2, <3>1, RunFails
  <2> QED BY <2>3, <2>4
<1> QED BY <1>5, <1>6

\* A tool ends: the run goes on only when it succeeded, and a read that failed stays
\* among the codes.
LEMMA HookToolKeeps ==
    ASSUME SidecarInv, NEW t \in Sidecar!Tools, NEW new \in SUBSET Codes, NEW success \in BOOLEAN,
           Sidecar!Tool(t, new, success), success => new = {} /\ faults' = faults,
           faults' \in 0..SidecarFaults,
           history' \in [interrupted: BOOLEAN, unreadable: BOOLEAN, confirmed: SeenLegacy],
           history'.confirmed = history.confirmed,
           history'.unreadable => "READ_FAILED" \in new
    PROVE  SidecarInv'
<1>1. /\ SidecarTypes /\ WentPast
      /\ UNCHANGED <<mode, legacy, active, space, inherited, seen>>
  BY DEF SidecarInv, Sidecar!Tool, Sidecar!outside
<1>2. phase = "run" /\ at \in 8..12 /\ (t = "catalog_verify" <=> at = 12)
  BY <1>1, ProgramAt DEF Sidecar!Tool
<1>3. seen' \in [before: SeenLegacy, copied: SeenLegacy] /\ codes = {} /\ ~history.unreadable
  BY <1>1, <1>2 DEF SidecarTypes, WentPast
<1>4. /\ report' \in HookReport /\ report'.upgrade = "BLOCKED"
      /\ report'.sidecar = "TRUSTED" => success /\ space /\ at = 12
      /\ success /\ space /\ at = 12 => report'.sidecar = "TRUSTED" /\ report'.catalog = "TRUSTED"
  <2>1. report.catalog \in {"NOT_RUN", "FAILED", "TRUSTED"} BY <1>1 DEF SidecarTypes, HookReport
  <2> QED BY <1>2, <2>1 DEF Sidecar!Tool, HookReport
<1>5. CASE success /\ space
  <2>1. codes' = codes /\ at' = at + 1 /\ phase' = "run" BY <1>2, <1>3, <1>5 DEF Sidecar!Tool
  <2>2. faults' = faults /\ history'.unreadable = history.unreadable
    <3>1. faults' = faults /\ ~history'.unreadable BY <1>5
    <3>2. history'.unreadable \in BOOLEAN /\ history.unreadable \in BOOLEAN
      BY <1>1 DEF SidecarTypes
    <3> QED BY <1>3, <3>1, <3>2
  <2>3. at \in 1..15 /\ at < 15 /\ at # 4 /\ at # 5 /\ at # 13 /\ at <= 12 BY <1>2
  <2>4. at < 12 => report'.sidecar # "TRUSTED" BY <1>4
  <2>5. at = 12 => report'.sidecar = "TRUSTED" /\ report'.catalog = "TRUSTED" BY <1>4, <1>5
  <2> QED BY <1>1, <1>2, <1>3, <1>4, <2>1, <2>2, <2>3, <2>4, <2>5, RunContinues
<1>6. CASE ~(success /\ space)
  <2>1. {"HEADROOM_INSUFFICIENT", "SIDECAR_STAGE_FAILED"} \subseteq Codes
    BY CodesAre DEF Sidecar!GlobalCodes, Sidecar!Ordinary
  <2>2. phase' = "except" /\ at' = at /\ codes' \subseteq Codes /\ new \subseteq codes'
    BY <1>3, <1>6, <2>1 DEF Sidecar!Tool, Sidecar!Ends
  <2> QED BY <1>1, <1>2, <1>4, <1>6, <2>2, RunFails
<1> QED BY <1>5, <1>6

LEMMA HookToolsKeep ==
    ASSUME SidecarInv, Sidecar!BoundsAssumption, NEW t \in Sidecar!Tools,
           Sidecar!ToolSucceeds(t) \/ Sidecar!ToolFails(t) \/ Sidecar!ToolInterrupted(t)
    PROVE  SidecarInv'
<1>1. /\ SidecarTypes /\ WentPast /\ phase = "run"
      /\ history \in [interrupted: BOOLEAN, unreadable: BOOLEAN, confirmed: SeenLegacy]
      /\ ~history.unreadable /\ faults \in 0..SidecarFaults /\ codes = {}
      /\ report \in HookReport /\ report.upgrade = "BLOCKED"
  <2>1. Sidecar!At(t) BY DEF Sidecar!ToolSucceeds, Sidecar!ToolFails, Sidecar!ToolInterrupted,
                         Sidecar!Tool
  <2> QED BY <2>1, ProgramAt DEF SidecarInv, SidecarTypes, WentPast
<1>2. Sidecar!Fault => faults' \in 0..SidecarFaults BY <1>1 DEF Sidecar!Fault,
                                                       Sidecar!BoundsAssumption
<1>3. CASE Sidecar!ToolSucceeds(t)
  <2>1. Sidecar!Tool(t, {},
    TRUE) /\ history' = history /\ faults' = faults BY <1>3 DEF Sidecar!ToolSucceeds
  <2> QED BY <1>1, <2>1, HookToolKeeps
<1>4. CASE Sidecar!ToolFails(t)
  <2>1. PICK new \in Sidecar!Refusals :
            /\ Sidecar!Tool(t, new, FALSE) /\ Sidecar!Fault
            /\ history' = [history EXCEPT !.unreadable = @ \/ "READ_FAILED" \in new]
    BY <1>4 DEF Sidecar!ToolFails
  <2> DEFINE unreadable == history.unreadable \/ "READ_FAILED" \in new
  <2>2. history' = [history EXCEPT !.unreadable = unreadable] BY <2>1
  <2>3. unreadable \in BOOLEAN /\ (unreadable => "READ_FAILED" \in new) BY <1>1
  <2> HIDE DEF unreadable
  <2>4. /\ history' \in [interrupted: BOOLEAN, unreadable: BOOLEAN, confirmed: SeenLegacy]
        /\ history'.confirmed = history.confirmed
        /\ history'.unreadable => "READ_FAILED" \in new
    BY <1>1, <2>2, <2>3
  <2>5. new \in SUBSET Codes BY CodesAre
  <2> QED BY <1>2, <2>1, <2>4, <2>5, HookToolKeeps
<1>5. CASE Sidecar!ToolInterrupted(t)
  <2>1. Sidecar!Fault /\ history' = [history EXCEPT !.interrupted = TRUE]
    BY <1>5 DEF Sidecar!ToolInterrupted
  <2>2. /\ history' \in [interrupted: BOOLEAN, unreadable: BOOLEAN, confirmed: SeenLegacy]
        /\ history'.confirmed = history.confirmed /\ ~history'.unreadable
    BY <1>1, <2>1
  <2>3. Sidecar!Interrupted[t] \in Codes BY CodesAre
  <2>4. CASE Sidecar!Tool(t, {Sidecar!Interrupted[t]}, FALSE) BY <1>2, <2>1, <2>2, <2>3, <2>4,
    HookToolKeeps
  <2>5. CASE /\ Sidecar!Raise({Sidecar!Interrupted[t]})
             /\ UNCHANGED <<mode, legacy, active, space, inherited, seen, report>>
    <3>1. codes' \subseteq Codes /\ phase' = "except" /\ at' = at
      BY <1>1, <2>3, <2>5 DEF Sidecar!Raise, Sidecar!Ends
    <3> QED BY <1>1, <1>2, <2>1, <2>2, <2>5, <3>1, RunFails
  <2> QED BY <1>5, <2>4, <2>5 DEF Sidecar!ToolInterrupted, Sidecar!outside
<1> QED BY <1>3, <1>4, <1>5

LEMMA StepFailsKeeps ==
    ASSUME SidecarInv, Sidecar!BoundsAssumption, NEW reason \in {"INTEGRATION_INTERRUPTED",
           "DISK_FULL"},
           Sidecar!StepFails(reason)
    PROVE  SidecarInv'
<1>1. /\ SidecarTypes /\ WentPast /\ phase = "run" /\ Sidecar!Fault /\ Sidecar!Raise({reason})
      /\ UNCHANGED <<mode, legacy, active, space, inherited, seen, report>>
  BY DEF SidecarInv, Sidecar!StepFails, Sidecar!Running, Sidecar!outside
<1>2. /\ history \in [interrupted: BOOLEAN, unreadable: BOOLEAN, confirmed: SeenLegacy]
      /\ ~history.unreadable /\ faults \in 0..SidecarFaults /\ codes = {}
      /\ report \in HookReport /\ report.upgrade = "BLOCKED"
  BY <1>1 DEF SidecarTypes, WentPast
<1> DEFINE interrupted == history.interrupted \/ reason = "INTEGRATION_INTERRUPTED"
<1>3. history' = [history EXCEPT !.interrupted = interrupted] BY DEF Sidecar!StepFails
<1>4. interrupted \in BOOLEAN BY <1>2
<1> HIDE DEF interrupted
<1>5. /\ history' \in [interrupted: BOOLEAN, unreadable: BOOLEAN, confirmed: SeenLegacy]
      /\ ~history'.unreadable
  BY <1>2, <1>3, <1>4
<1>6. reason \in Codes
  <2>1. Sidecar!Interrupted["verifier"] = "INTEGRATION_INTERRUPTED" /\ "verifier" \in Sidecar!Tools
    BY DEF Sidecar!Interrupted, Sidecar!Tools
  <2> QED BY <2>1, CodesAre DEF Sidecar!GlobalCodes
<1>7. codes' \subseteq Codes /\ phase' = "except" /\ at' = at BY <1>1, <1>2,
  <1>6 DEF Sidecar!Raise, Sidecar!Ends
<1>8. faults' \in 0..SidecarFaults BY <1>1, <1>2 DEF Sidecar!Fault, Sidecar!BoundsAssumption
<1> QED BY <1>1, <1>2, <1>5, <1>7, <1>8, RunFails

\* The legacy backup is compared once more before the last look at the machine.
LEMMA ConfirmKeeps ==
    ASSUME SidecarInv, Sidecar!Confirm
    PROVE  SidecarInv'
<1>1. /\ SidecarTypes /\ WentPast /\ phase = "run" /\ at = 13
      /\ UNCHANGED <<mode, legacy, active, space, inherited, seen, report, faults>>
      /\ history' = [history EXCEPT !.confirmed = legacy]
      /\ IF Sidecar!Confirmed THEN Sidecar!Continue ELSE Sidecar!Raise({"BACKUP_CHANGED"})
  BY ProgramAt DEF SidecarInv, Sidecar!Confirm, Sidecar!Require, Sidecar!outside
<1>2. /\ history \in [interrupted: BOOLEAN, unreadable: BOOLEAN, confirmed: SeenLegacy]
      /\ ~history.unreadable /\ faults \in 0..SidecarFaults /\ codes = {} /\ legacy \in SeenLegacy
      /\ report \in HookReport /\ report.upgrade = "BLOCKED" /\ seen.before # None
      /\ seen \in [before: SeenLegacy, copied: SeenLegacy]
  BY <1>1 DEF SidecarTypes, WentPast, SeenLegacy
<1>3. /\ history' \in [interrupted: BOOLEAN, unreadable: BOOLEAN, confirmed: SeenLegacy]
      /\ ~history'.unreadable /\ history'.confirmed = legacy
      /\ history'.unreadable = history.unreadable
  BY <1>1, <1>2
<1>4. CASE Sidecar!Confirmed
  <2>1. seen.before = legacy BY <1>2, <1>4 DEF Sidecar!Confirmed
  <2>2. at' = at + 1 /\ phase' = "run" /\ codes' = codes BY <1>1, <1>4 DEF Sidecar!Continue
  <2> QED BY <1>1, <1>2, <1>3, <2>1, <2>2, RunContinues
<1>5. CASE ~Sidecar!Confirmed
  <2>1. "BACKUP_CHANGED" \in Codes BY CodesAre DEF Sidecar!GlobalCodes
  <2>2. codes' \subseteq Codes /\ phase' = "except" /\ at' = at
    BY <1>1, <1>2, <1>5, <2>1 DEF Sidecar!Raise, Sidecar!Ends
  <2> QED BY <1>1, <1>2, <1>3, <2>2, RunFails
<1> QED BY <1>4, <1>5

LEMMA PermitKeeps ==
    ASSUME SidecarInv, Sidecar!Permit
    PROVE  SidecarInv'
<1>1. /\ SidecarTypes /\ WentPast /\ phase = "run" /\ at = 15 /\ at' = 15 /\ phase' = "finally"
      /\ UNCHANGED <<mode, legacy, active, space, inherited, seen, codes, history, faults>>
      /\ report' = [report EXCEPT !.upgrade = "PERMITTED"]
  BY ProgramAt DEF SidecarInv, Sidecar!Permit, Sidecar!Ends, Sidecar!outside
<1>2. /\ report' \in HookReport /\ report'.sidecar = "TRUSTED" /\ report'.catalog = "TRUSTED"
      /\ ~history.unreadable /\ seen.before = history.confirmed
  BY <1>1 DEF SidecarTypes, WentPast, HookReport
<1>3. SidecarTypes' BY <1>1, <1>2 DEF SidecarTypes, SidecarPhases
<1>4. WentPast' BY <1>1 DEF WentPast
<1>5. LookedAtAgain' /\ PermitEarned' BY <1>1, <1>2 DEF LookedAtAgain, Retries, PermitEarned
<1> QED BY <1>3, <1>4, <1>5 DEF SidecarInv

\* After a failure: only what is ordinary is looked at again.
LEMMA AfterwardsKeeps ==
    ASSUME SidecarInv,
           Sidecar!Except \/ Sidecar!RetrySpace \/ Sidecar!RetryConfirm
            \/ Sidecar!RetryProbe \/ Sidecar!Finally
    PROVE  SidecarInv'
<1>1. /\ SidecarTypes /\ WentPast /\ LookedAtAgain /\ PermitEarned
      /\ at' = at /\ at \in 1..15 /\ UNCHANGED <<mode, legacy, active, space, inherited, seen,
          faults>>
  BY DEF SidecarInv, SidecarTypes, Sidecar!Except, Sidecar!RetrySpace, Sidecar!RetryConfirm,
     Sidecar!RetryProbe, Sidecar!Finally, Sidecar!Retry,
         Sidecar!Ends, Sidecar!outside
<1>2. {"HEADROOM_INSUFFICIENT", "BACKUP_CHANGED", "QUIET_GATE_REFUSED",
    Sidecar!Guard} \subseteq Codes
  BY CodesAre DEF Sidecar!GlobalCodes
<1>3. codes \subseteq Codes /\ report \in HookReport
      /\ history \in [interrupted: BOOLEAN, unreadable: BOOLEAN, confirmed: SeenLegacy]
  BY <1>1 DEF SidecarTypes
<1>4. CASE Sidecar!Except
  <2>1. /\ phase = "except" /\ UNCHANGED <<codes, report, history>>
        /\ \/ phase' = "retry_space" /\ mode = "OPTIONAL" /\ ~Sidecar!Fatal
           \/ phase' = "finally"
    BY <1>4 DEF Sidecar!Except, Sidecar!Ends
  <2>2. SidecarTypes' BY <1>1, <2>1 DEF SidecarTypes, SidecarPhases, Retries
  <2>3. WentPast' BY <1>1, <2>1 DEF WentPast
  <2>4. report.upgrade = "BLOCKED" BY <1>1, <2>1 DEF PermitEarned
  <2>5. ~Sidecar!Fatal => ~history.unreadable BY <1>1 DEF LookedAtAgain, Sidecar!Fatal,
                                                 Sidecar!GlobalCodes
  <2>6. LookedAtAgain' /\ PermitEarned'
    BY <1>1, <2>1, <2>4, <2>5 DEF LookedAtAgain, Retries, PermitEarned
  <2> QED BY <2>2, <2>3, <2>6 DEF SidecarInv
<1>5. CASE Sidecar!RetrySpace
  <2>1. /\ phase = "retry_space" /\ phase' \in {"retry_confirm", "finally"}
        /\ codes \subseteq codes' /\ codes' \subseteq Codes /\ UNCHANGED <<report, history>>
    BY <1>2, <1>3, <1>5 DEF Sidecar!RetrySpace, Sidecar!Retry, Sidecar!Ends
  <2>2. SidecarTypes' BY <1>1, <2>1 DEF SidecarTypes, SidecarPhases, Retries
  <2>3. WentPast' BY <1>1, <2>1 DEF WentPast
  <2>4. LookedAtAgain' /\ PermitEarned' BY <1>1, <2>1 DEF LookedAtAgain, Retries, PermitEarned
  <2> QED BY <2>2, <2>3, <2>4 DEF SidecarInv
<1>6. CASE Sidecar!RetryConfirm
  <2>1. /\ phase = "retry_confirm" /\ phase' \in {"retry_probe", "finally"}
        /\ phase' = "retry_probe" => Sidecar!Confirmed
        /\ codes \subseteq codes' /\ codes' \subseteq Codes
        /\ report' = report /\ history' = [history EXCEPT !.confirmed = legacy]
    BY <1>2, <1>3, <1>6 DEF Sidecar!RetryConfirm, Sidecar!Retry, Sidecar!Ends
  <2>2. legacy \in SeenLegacy BY <1>1 DEF SidecarTypes, SeenLegacy
  <2>3. /\ history' \in [interrupted: BOOLEAN, unreadable: BOOLEAN, confirmed: SeenLegacy]
        /\ history'.unreadable = history.unreadable /\ history'.confirmed = legacy
    BY <1>3, <2>1, <2>2
  <2>4. SidecarTypes' BY <1>1, <2>1, <2>3 DEF SidecarTypes, SidecarPhases, Retries
  <2>5. WentPast' BY <1>1, <2>1, <2>3 DEF WentPast
  <2>6. LookedAtAgain' /\ PermitEarned'
    BY <1>1, <2>1, <2>3 DEF LookedAtAgain, Retries, PermitEarned, Sidecar!Confirmed
  <2> QED BY <2>4, <2>5, <2>6 DEF SidecarInv
<1>7. CASE Sidecar!RetryProbe
  <2>1. /\ phase = "retry_probe" /\ phase' = "finally"
        /\ codes \subseteq codes' /\ codes' \subseteq Codes /\ history' = history
        /\ \/ report' = [report EXCEPT !.upgrade = "PERMITTED_WITH_FAILURE"]
           \/ report' = report
    BY <1>2, <1>3, <1>7 DEF Sidecar!RetryProbe, Sidecar!Retry, Sidecar!Ends
  <2>2. /\ report' \in HookReport /\ report'.sidecar = report.sidecar
        /\ report'.catalog = report.catalog
    BY <1>3, <2>1 DEF HookReport
  <2>3. SidecarTypes' BY <1>1, <2>1, <2>2 DEF SidecarTypes, SidecarPhases
  <2>4. WentPast' BY <1>1, <2>1, <2>2 DEF WentPast
  <2>5. LookedAtAgain' /\ PermitEarned'
    BY <1>1, <2>1, <2>2 DEF LookedAtAgain, Retries, PermitEarned
  <2> QED BY <2>3, <2>4, <2>5 DEF SidecarInv
<1>8. CASE Sidecar!Finally
  <2>1. /\ phase = "finally" /\ phase' = "over" /\ codes \subseteq codes' /\ codes' \subseteq Codes
        /\ history' = history
        /\ report' = report \/ report' = [report EXCEPT !.upgrade = "BLOCKED"]
    BY <1>2, <1>3, <1>8 DEF Sidecar!Finally, Sidecar!Ends
  <2>2. /\ report' \in HookReport /\ report'.sidecar = report.sidecar
        /\ report'.catalog = report.catalog
        /\ report'.upgrade # "BLOCKED" => report.upgrade # "BLOCKED"
    BY <1>3, <2>1 DEF HookReport
  <2>3. SidecarTypes' BY <1>1, <2>1, <2>2 DEF SidecarTypes, SidecarPhases
  <2>4. WentPast' BY <1>1, <2>1, <2>2 DEF WentPast
  <2>5. LookedAtAgain' /\ PermitEarned'
    BY <1>1, <2>1, <2>2 DEF LookedAtAgain, Retries, PermitEarned
  <2> QED BY <2>3, <2>4, <2>5 DEF SidecarInv
<1> QED BY <1>4, <1>5, <1>6, <1>7, <1>8

LEMMA OutsideKeeps ==
    ASSUME SidecarInv, Sidecar!BoundsAssumption,
           Sidecar!WriteLegacy \/ Sidecar!WriterStarts \/ Sidecar!DiskFills
               \/ Sidecar!GuardLost \/ Sidecar!Kill
    PROVE  SidecarInv'
<1>1. /\ UNCHANGED <<mode, at, seen, codes, report, history>>
      /\ phase \notin {"over", "killed"} /\ (phase' = phase \/ phase' = "killed")
  BY DEF Sidecar!WriteLegacy, Sidecar!WriterStarts, Sidecar!DiskFills, Sidecar!GuardLost,
     Sidecar!Kill, Sidecar!Outside, Sidecar!Ends, Sidecar!outside
<1>2. SidecarTypes /\ WentPast /\ LookedAtAgain /\ PermitEarned BY DEF SidecarInv
<1>3. /\ legacy' \in 0..BackupWrites /\ active' \in BOOLEAN /\ space' \in BOOLEAN
      /\ inherited' \in BOOLEAN /\ faults' \in 0..SidecarFaults
  <2>1. CASE Sidecar!WriteLegacy BY <1>2, <2>1 DEF Sidecar!WriteLegacy, Sidecar!Outside,
                                    SidecarTypes, Sidecar!BoundsAssumption
  <2>2. Sidecar!Fault => faults' \in 0..SidecarFaults BY <1>2 DEF SidecarTypes,
                                                         Sidecar!BoundsAssumption, Sidecar!Fault
  <2>3. CASE Sidecar!WriterStarts BY <1>2, <2>2, <2>3 DEF Sidecar!WriterStarts, Sidecar!Outside,
                                     SidecarTypes
  <2>4. CASE Sidecar!DiskFills BY <1>2, <2>2, <2>4 DEF Sidecar!DiskFills, Sidecar!Outside,
                                  SidecarTypes
  <2>5. CASE Sidecar!GuardLost BY <1>2, <2>2, <2>5 DEF Sidecar!GuardLost, Sidecar!Outside,
                                  SidecarTypes
  <2>6. CASE Sidecar!Kill BY <1>2, <2>2, <2>6 DEF Sidecar!Kill, Sidecar!outside, SidecarTypes
  <2> QED BY <2>1, <2>3, <2>4, <2>5, <2>6
<1>4. SidecarTypes' BY <1>1, <1>2, <1>3 DEF SidecarTypes, SidecarPhases
<1>5. WentPast' /\ LookedAtAgain' /\ PermitEarned'
  BY <1>1, <1>2 DEF WentPast, LookedAtAgain, Retries, PermitEarned
<1> QED BY <1>4, <1>5 DEF SidecarInv

LEMMA StepKeepsSidecar ==
    ASSUME Sidecar!BoundsAssumption, Sidecar!NamesAssumption, SidecarInv,
           [Sidecar!Next]_(Sidecar!vars)
    PROVE  SidecarInv'
<1>1. CASE Sidecar!CheckGuard \/ Sidecar!Probe \/ Sidecar!Headroom \/ Sidecar!Recheck BY <1>1,
  ChecksKeep
<1>2. CASE Sidecar!Inventory \/ Sidecar!Copy BY <1>2, LegacyKeeps
<1>3. ASSUME NEW t \in Sidecar!Tools,
    Sidecar!ToolSucceeds(t) \/ Sidecar!ToolFails(t) \/ Sidecar!ToolInterrupted(t)
      PROVE  SidecarInv'
  BY <1>3, HookToolsKeep
<1>4. ASSUME NEW reason \in {"INTEGRATION_INTERRUPTED", "DISK_FULL"}, Sidecar!StepFails(reason)
      PROVE  SidecarInv'
  BY <1>4, StepFailsKeeps
<1>5. CASE Sidecar!Confirm BY <1>5, ConfirmKeeps
<1>6. CASE Sidecar!Permit BY <1>6, PermitKeeps
<1>7. CASE Sidecar!Except \/ Sidecar!RetrySpace \/ Sidecar!RetryConfirm \/ Sidecar!RetryProbe
    \/ Sidecar!Finally
  BY <1>7, AfterwardsKeeps
<1>8. CASE Sidecar!WriteLegacy \/ Sidecar!WriterStarts \/ Sidecar!DiskFills
    \/ Sidecar!GuardLost \/ Sidecar!Kill
  BY <1>8, OutsideKeeps
<1>9. CASE UNCHANGED Sidecar!vars
  BY <1>9 DEF Sidecar!vars, Sidecar!outside, SidecarInv, SidecarTypes, WentPast, LookedAtAgain,
     PermitEarned
<1> QED BY <1>1, <1>2, <1>3, <1>4, <1>5, <1>6, <1>7, <1>8, <1>9 DEF Sidecar!Next

THEOREM PermittedIsCaptured ==
    ASSUME Sidecar!BoundsAssumption, Sidecar!NamesAssumption
    PROVE  Sidecar!Spec => [](Sidecar!TypeOK /\ Sidecar!PermittedIsWhatWasCaptured)
<1>1. Sidecar!Init => SidecarInv BY InitSidecar
<1>2. SidecarInv /\ [Sidecar!Next]_(Sidecar!vars) => SidecarInv' BY StepKeepsSidecar
<1>3. SidecarInv => Sidecar!TypeOK /\ Sidecar!PermittedIsWhatWasCaptured BY SidecarFollows
<1> QED BY <1>1, <1>2, <1>3, PTL DEF Sidecar!Spec

-----------------------------------------------------------------------------
(* Https: what is replaced was noted and looked at first, and unless transactions *)
(* were torn or undone out of order the newest backup tells what was there.        *)

Newest == Len(backups)
Contents(f) ==
    CASE f = "env" -> Https!Env
      [] f = "unit" -> {"any", "local"}
      [] f = "nginx" -> Https!Nginx \cup {None}
      [] f = "hook" -> Hosts \cup {None}
      [] f = "metadata" -> Https!Metadata \cup {None}
Backup == [saved: Https!Disk, written: Https!Journal]
ProgramSteps ==
    (UNION {{Https!Write(f, c) : c \in Contents(f)} : f \in Https!Files \ {"metadata"}})
    \cup {Https!Write("metadata", None), Https!Restart, Https!Activate}
    \cup {[step |-> "describe", host |-> h] : h \in Hosts}
Runs(n) ==
    {Https!AtRest} \cup [mode: {"start"}, todo: Seq(ProgramSteps)]
    \cup [mode: {"do"}, folder: {n}, todo: Seq(ProgramSteps), intent: BOOLEAN]
    \cup [mode: {"failed"}, folder: {n}]
    \cup [mode: {"undo"}, folder: 1..n, left: SUBSET Https!Files, whole: BOOLEAN]

\* A description refers to a backup there is.
Refers(d) == d.metadata # None => d.metadata.prior \in 1..Newest
HttpsTypes ==
    /\ disk \in Https!Disk /\ app \in Https!Env \X {"any", "local"}
       /\ web \in Https!Nginx \cup {None}
    /\ backups \in Seq(Backup) /\ Newest <= MaxBackups
    /\ run \in Runs(Newest) /\ (run.mode = "start" => Newest < MaxBackups)
    /\ (run.mode \in {"do", "failed"} => Newest >= 1)
    /\ edits \in 0..MaxEdits /\ faults \in 0..HttpsFaults
    /\ foreign \subseteq Https!Files /\ torn \subseteq 1..Newest \cup {Https!Crossed}
    /\ Refers(disk) /\ \A b \in 1..Newest : Refers(backups[b].saved)

\* Between an intent and the replacement nothing else changes the file.
Intents ==
    Https!Doing /\ run.intent =>
        /\ run.todo # <<>> /\ Head(run.todo).step \in {"write", "describe"}
        /\ Https!Content \in backups[run.folder].written[Https!Target]
        /\ disk[Https!Target] \in Https!Known(run.folder, Https!Target)
\* What is still to be put back is as it was looked at.
Undoings ==
    Https!Undoing =>
        /\ run.left \subseteq Https!Selected(run.folder)
        /\ \A f \in run.left : disk[f] \in Https!Known(run.folder, f)

UndoableInv == HttpsTypes /\ Https!LatestCanBeUndone /\ Intents /\ Undoings

LEMMA StepIs ==
    ASSUME NEW s \in ProgramSteps
    PROVE  /\ s.step \in {"write", "describe", "app", "nginx"}
           /\ s.step = "write" =>
                /\ s = Https!Write(s.file, s.content) /\ s.file \in Https!Files
                /\ s.content \in Contents(s.file)
                /\ s.file = "metadata" => s.content = None
           /\ s.step = "describe" => s.host \in Hosts
<1>1. CASE s \in UNION {{Https!Write(f, c) : c \in Contents(f)} : f \in Https!Files \ {"metadata"}}
  <2>1. PICK f \in Https!Files \ {"metadata"} : s \in {Https!Write(f, c) : c \in Contents(f)}
    BY <1>1
  <2>2. PICK c \in Contents(f) : s = Https!Write(f, c) BY <2>1
  <2> QED BY <2>1, <2>2 DEF Https!Write
<1>2. CASE s \in {Https!Write("metadata", None), Https!Restart, Https!Activate}
  BY <1>2 DEF Https!Write, Https!Restart, Https!Activate, Https!Files, Contents
<1>3. CASE s \in {[step |-> "describe", host |-> h] : h \in Hosts} BY <1>3
<1> QED BY <1>1, <1>2, <1>3 DEF ProgramSteps

LEMMA RunIs ==
    ASSUME HttpsTypes
    PROVE  /\ run.mode \in {"idle", "start", "do", "failed", "undo"}
           /\ Newest \in Nat /\ (Https!Idle <=> run.mode = "idle")
           /\ run.mode = "start" => run.todo \in Seq(ProgramSteps)
           /\ Https!Doing =>
                /\ run \in [mode: {"do"}, folder: {Newest}, todo: Seq(ProgramSteps),
                            intent: BOOLEAN]
                /\ run.folder = Newest /\ run.folder \in 1..Newest
                /\ run.todo \in Seq(ProgramSteps) /\ run.intent \in BOOLEAN
           /\ run.mode = "failed" => run.folder = Newest /\ run.folder \in 1..Newest
           /\ Https!Undoing =>
                /\ run \in [mode: {"undo"}, folder: 1..Newest, left: SUBSET Https!Files,
                            whole: BOOLEAN]
                /\ run.folder \in 1..Newest /\ run.left \subseteq Https!Files
                /\ run.whole \in BOOLEAN
<1>1. Newest \in Nat BY DEF HttpsTypes, Newest
<1>2. run.mode \in {"do", "failed"} => Newest >= 1 BY DEF HttpsTypes
<1>3. CASE run = Https!AtRest
  BY <1>1, <1>3 DEF Https!AtRest, Https!Idle, Https!Doing, Https!Undoing
<1>4. CASE run \in [mode: {"start"}, todo: Seq(ProgramSteps)]
  BY <1>1, <1>4 DEF Https!AtRest, Https!Idle, Https!Doing, Https!Undoing
<1>5. CASE run \in [mode: {"do"}, folder: {Newest}, todo: Seq(ProgramSteps), intent: BOOLEAN]
  BY <1>1, <1>2, <1>5 DEF Https!AtRest, Https!Idle, Https!Doing, Https!Undoing
<1>6. CASE run \in [mode: {"failed"}, folder: {Newest}]
  BY <1>1, <1>2, <1>6 DEF Https!AtRest, Https!Idle, Https!Doing, Https!Undoing
<1>7. CASE run \in [mode: {"undo"}, folder: 1..Newest, left: SUBSET Https!Files, whole: BOOLEAN]
  BY <1>1, <1>7 DEF Https!AtRest, Https!Idle, Https!Doing, Https!Undoing
<1>8. run \in Runs(Newest) BY DEF HttpsTypes
<1> QED BY <1>3, <1>4, <1>5, <1>6, <1>7, <1>8 DEF Runs

\* Files by name.
LEMMA FileHas == ASSUME NEW d \in Https!Disk, NEW f \in Https!Files PROVE d[f] \in Contents(f)
BY DEF Contents, Https!Files, Https!Disk

LEMMA FilePut ==
    ASSUME NEW d \in Https!Disk, NEW f \in Https!Files, NEW c \in Contents(f)
    PROVE  /\ [d EXCEPT ![f] = c] \in Https!Disk
           /\ \A g \in Https!Files : [d EXCEPT ![f] = c][g] = IF g = f THEN c ELSE d[g]
<1>1. [d EXCEPT ![f] = c] \in Https!Disk
  <2>1. CASE f = "env" BY <2>1 DEF Contents, Https!Disk
  <2>2. CASE f = "unit" BY <2>2 DEF Contents, Https!Disk
  <2>3. CASE f = "nginx" BY <2>3 DEF Contents, Https!Disk
  <2>4. CASE f = "hook" BY <2>4 DEF Contents, Https!Disk
  <2>5. CASE f = "metadata" BY <2>5 DEF Contents, Https!Disk
  <2> QED BY <2>1, <2>2, <2>3, <2>4, <2>5 DEF Https!Files
<1>2. DOMAIN d = Https!Files BY DEF Https!Disk, Https!Files
<1> QED BY <1>1, <1>2

LEMMA JournalNotes ==
    ASSUME NEW b \in 1..Newest, NEW f \in Https!Files, NEW c \in Contents(f),
           backups \in Seq(Backup)
    PROVE  /\ Https!Noted(b, f, c) \in Seq(Backup) /\ Len(Https!Noted(b, f, c)) = Newest
           /\ \A a \in 1..Newest : Https!Noted(b, f, c)[a].saved = backups[a].saved
           /\ \A a \in 1..Newest, g \in Https!Files :
                a # b \/ g # f => Https!Noted(b, f, c)[a].written[g] = backups[a].written[g]
           /\ Https!Noted(b, f, c)[b].written[f] = backups[b].written[f] \cup {c}
<1> DEFINE old == backups[b]
           noted == [old.written EXCEPT ![f] = @ \cup {c}]
           new == [old EXCEPT !.written = noted]
<1>1. old \in Backup BY DEF Newest
<1>2. old.written \in Https!Journal BY <1>1 DEF Backup
<1>3. noted \in Https!Journal
  <2>1. CASE f = "env" BY <1>2, <2>1 DEF Contents, Https!Journal
  <2>2. CASE f = "unit" BY <1>2, <2>2 DEF Contents, Https!Journal
  <2>3. CASE f = "nginx" BY <1>2, <2>3 DEF Contents, Https!Journal
  <2>4. CASE f = "hook" BY <1>2, <2>4 DEF Contents, Https!Journal
  <2>5. CASE f = "metadata" BY <1>2, <2>5 DEF Contents, Https!Journal
  <2> QED BY <2>1, <2>2, <2>3, <2>4, <2>5 DEF Https!Files
<1>4. DOMAIN old.written = Https!Files BY <1>2 DEF Https!Journal, Https!Files
<1>5. \A g \in Https!Files : noted[g] = IF g = f THEN old.written[g] \cup {c} ELSE old.written[g]
  BY <1>4
<1>6. Https!Noted(b, f, c) = [backups EXCEPT ![b] = new] BY DEF Https!Noted
<1> HIDE DEF noted
<1>7. new \in Backup /\ new.saved = old.saved /\ new.written = noted BY <1>1, <1>3 DEF Backup
<1> HIDE DEF new
<1>8. [backups EXCEPT ![b] = new] \in Seq(Backup) BY <1>7 DEF Newest
<1>9. /\ Len([backups EXCEPT ![b] = new]) = Newest
      /\ \A a \in 1..Newest : [backups EXCEPT ![b] = new][a] = IF a = b THEN new ELSE backups[a]
  BY DEF Newest
<1>10. Https!Noted(b, f, c) \in Seq(Backup) /\ Len(Https!Noted(b, f, c)) = Newest
  BY <1>6, <1>8, <1>9
<1>11. \A a \in 1..Newest : Https!Noted(b, f, c)[a] = IF a = b THEN new ELSE backups[a]
  BY <1>6, <1>9
<1>12. \A a \in 1..Newest : Https!Noted(b, f, c)[a].saved = backups[a].saved BY <1>7, <1>11
<1>13. Https!Noted(b, f, c)[b].written = noted BY <1>7, <1>11
<1>14. \A a \in 1..Newest : a # b => Https!Noted(b, f, c)[a].written = backups[a].written BY <1>11
<1>15. \A a \in 1..Newest, g \in Https!Files :
         a # b \/ g # f => Https!Noted(b, f, c)[a].written[g] = backups[a].written[g]
  BY <1>5, <1>13, <1>14
<1>16. Https!Noted(b, f, c)[b].written[f] = backups[b].written[f] \cup {c} BY <1>5, <1>13
<1> QED BY ONLY <1>10, <1>12, <1>15, <1>16

LEMMA InitUndoable == ASSUME Https!BoundsAssumption, Https!Init PROVE UndoableInv
<1>1. disk \in Https!Disk BY DEF Https!Init, Https!Disk, Https!Env, Https!BoundsAssumption
<1>2. app \in Https!Env \X {"any", "local"} BY <1>1 DEF Https!Init, Https!Disk
<1>3. Newest = 0 /\ backups \in Seq(Backup) BY DEF Https!Init, Newest
<1>4. run.mode = "idle" BY DEF Https!Init, Https!AtRest
<1>5. HttpsTypes
  BY <1>1, <1>2, <1>3, <1>4 DEF Https!Init, HttpsTypes, Runs, Refers, Https!BoundsAssumption
<1> QED BY <1>3, <1>4, <1>5
        DEF Https!Init, UndoableInv, Https!LatestCanBeUndone, Intents, Undoings, Https!Doing,
            Https!Undoing

LEMMA StepsAre ==
    ASSUME Https!BoundsAssumption
    PROVE  /\ \A f \in Https!Files \ {"metadata"} :
                \A c \in Contents(f) : Https!Write(f, c) \in ProgramSteps
           /\ Https!Write("metadata", None) \in ProgramSteps
           /\ Https!Restart \in ProgramSteps /\ Https!Activate \in ProgramSteps
           /\ \A h \in Hosts : [step |-> "describe", host |-> h] \in ProgramSteps
           /\ \A h \in Hosts, b \in BOOLEAN : Https!NginxConfig(h, b) \in Https!Nginx
           /\ \A d \in Https!Env, s \in Hosts \cup {None} : Https!EditEnv(d, s) \in Https!Env
           /\ \A s \in Hosts \cup {None} : Https!ServiceUnit(s) \in {"any", "local"}
<1>1. \A f \in Https!Files \ {"metadata"} : \A c \in Contents(f) :
          Https!Write(f, c)
            \in UNION {{Https!Write(g, e) : e \in Contents(g)} : g \in Https!Files \ {"metadata"}}
  OBVIOUS
<1>2. \A h \in Hosts, b \in BOOLEAN : Https!NginxConfig(h, b) \in Https!Nginx
  BY DEF Https!NginxConfig, Https!Nginx, Https!BoundsAssumption
<1>3. \A d \in Https!Env, s \in Hosts \cup {None} : Https!EditEnv(d, s) \in Https!Env
  BY DEF Https!EditEnv, Https!Env
<1> QED BY <1>1, <1>2, <1>3 DEF ProgramSteps, Https!ServiceUnit

LEMMA ProgramsAre ==
    ASSUME Https!BoundsAssumption, NEW text \in Https!Env
    PROVE  /\ \A h \in Hosts : Https!SetupProgram(h, text) \in Seq(ProgramSteps)
           /\ \A s \in Hosts \cup {None} : Https!DisableProgram(text, s) \in Seq(ProgramSteps)
           /\ Https!DetachProgram \in Seq(ProgramSteps)
<1>1. /\ Https!Restart \in ProgramSteps /\ Https!Activate \in ProgramSteps
      /\ Https!Write("nginx", None) \in ProgramSteps /\ Https!Write("hook", None) \in ProgramSteps
      /\ Https!Write("metadata", None) \in ProgramSteps
  BY StepsAre DEF Contents, Https!Files
<1>2. ASSUME NEW s \in Hosts \cup {None}
      PROVE  /\ Https!Write("env", Https!EditEnv(text, s)) \in ProgramSteps
             /\ Https!Write("unit", Https!ServiceUnit(s)) \in ProgramSteps
             /\ Https!Write("hook", s) \in ProgramSteps
  BY StepsAre DEF Contents, Https!Files
<1>3. ASSUME NEW h \in Hosts, NEW b \in BOOLEAN
      PROVE  Https!Write("nginx", Https!NginxConfig(h, b)) \in ProgramSteps
  BY StepsAre DEF Contents, Https!Files
<1>4. ASSUME NEW h \in Hosts PROVE Https!SetupProgram(h, text) \in Seq(ProgramSteps)
  <2>1. /\ Https!Write("nginx", Https!NginxConfig(h, FALSE)) \in ProgramSteps
        /\ Https!Write("nginx", Https!NginxConfig(h, TRUE)) \in ProgramSteps
        /\ Https!Write("hook", h) \in ProgramSteps
           /\ Https!Write("env", Https!EditEnv(text, h)) \in ProgramSteps
        /\ Https!Write("unit", Https!ServiceUnit(h)) \in ProgramSteps
        /\ [step |-> "describe", host |-> h] \in ProgramSteps
    BY <1>2, <1>3, StepsAre
  <2> DEFINE s1 == Https!Write("nginx", Https!NginxConfig(h, FALSE))
             s3 == Https!Write("nginx", Https!NginxConfig(h, TRUE))
             s4 == Https!Write("hook", h)
             s5 == Https!Write("env", Https!EditEnv(text, h))
             s6 == Https!Write("unit", Https!ServiceUnit(h))
             s9 == [step |-> "describe", host |-> h]
  <2>2. Https!SetupProgram(h, text)
            = <<s1, Https!Activate, s3, s4, s5, s6, Https!Restart, Https!Activate, s9>>
    BY DEF Https!SetupProgram
  <2>3. {s1, s3, s4, s5, s6, s9} \subseteq ProgramSteps BY <2>1
  <2> HIDE DEF s1, s3, s4, s5, s6, s9
  <2>4. <<s1, Https!Activate, s3, s4, s5, s6, Https!Restart, Https!Activate, s9>>
            \in Seq(ProgramSteps)
    BY <1>1, <2>3
  <2> QED BY <2>2, <2>4
<1>5. ASSUME NEW s \in Hosts \cup {None} PROVE Https!DisableProgram(text, s) \in Seq(ProgramSteps)
  BY <1>1, <1>2 DEF Https!DisableProgram
<1>6. Https!DetachProgram \in Seq(ProgramSteps) BY <1>1 DEF Https!DetachProgram
<1> QED BY <1>4, <1>5, <1>6

LEMMA StartKeepsUndoable ==
    ASSUME UndoableInv, NEW program \in Seq(ProgramSteps), Https!Start(program)
    PROVE  UndoableInv'
<1>1. /\ HttpsTypes /\ Https!LatestCanBeUndone
      /\ run' = [mode |-> "start", todo |-> program] /\ run.mode = "idle"
      /\ UNCHANGED <<disk, app, web, backups, edits, faults, foreign, torn>>
  BY DEF UndoableInv, Https!Start, Https!Idle, Https!AtRest, Https!services, Https!history
<1>2. Newest < MaxBackups /\ Newest' = Newest BY <1>1 DEF Https!Start, Newest
<1>3. run' \in Runs(Newest') BY <1>1, <1>2 DEF Runs
<1>4. HttpsTypes' BY <1>1, <1>2, <1>3 DEF HttpsTypes, Refers
<1> QED BY <1>1, <1>2, <1>4
        DEF UndoableInv, Https!LatestCanBeUndone, Https!Known, Intents, Undoings, Https!Doing,
            Https!Undoing

LEMMA StartsKeepUndoable ==
    ASSUME Https!BoundsAssumption, UndoableInv, (\E h \in Hosts : Https!Setup(h))
           \/ Https!Disable \/ Https!Detach
    PROVE  UndoableInv'
<1>1. HttpsTypes /\ disk.env \in Https!Env BY DEF UndoableInv, HttpsTypes, Https!Disk
<1>2. CASE \E h \in Hosts : Https!Setup(h)
  BY <1>1, <1>2, ProgramsAre, StartKeepsUndoable DEF Https!Setup
<1>3. CASE Https!Disable
  <2>1. disk.metadata.prior \in 1..Newest BY <1>1, <1>3 DEF Https!Disable, HttpsTypes, Refers
  <2>2. backups[disk.metadata.prior] \in Backup BY <1>1, <2>1 DEF HttpsTypes, Newest
  <2>3. backups[disk.metadata.prior].saved.env.settings \in Hosts \cup {None}
    BY <2>2 DEF Backup, Https!Disk, Https!Env
  <2> QED BY <1>1, <1>3, <2>3, ProgramsAre, StartKeepsUndoable DEF Https!Disable
<1>4. CASE Https!Detach BY <1>1, <1>4, ProgramsAre, StartKeepsUndoable DEF Https!Detach
<1> QED BY <1>2, <1>3, <1>4

LEMMA SnapshotKeepsUndoable ==
    ASSUME Https!BoundsAssumption, UndoableInv, Https!Snapshot
    PROVE  UndoableInv'
<1>1. /\ HttpsTypes /\ run.mode = "start" /\ backups' = Append(backups, Https!NewBackup)
      /\ foreign' = {} /\ UNCHANGED <<disk, app, web, edits, faults, torn>>
  BY DEF UndoableInv, Https!Snapshot, Https!services
<1>2. run.todo \in Seq(ProgramSteps) /\ Newest < MaxBackups /\ Newest \in Nat
  BY <1>1, RunIs DEF HttpsTypes
<1>3. Https!NewBackup \in Backup /\ Https!NewBackup.saved = disk
  BY <1>1 DEF Https!NewBackup, Backup, HttpsTypes, Https!Journal
<1>4. /\ backups' \in Seq(Backup) /\ Newest' = Newest + 1
      /\ \A b \in 1..Newest : backups'[b] = backups[b]
      /\ backups'[Newest + 1] = Https!NewBackup
  BY <1>1, <1>3 DEF HttpsTypes, Newest
<1>5. \/ run' = Https!AtRest
      \/ run' = [mode |-> "do", folder |-> Newest + 1, todo |-> run.todo, intent |-> FALSE]
  BY DEF Https!Snapshot, Newest
<1>6. run' \in Runs(Newest') /\ run'.mode # "start" /\ run'.mode # "undo"
  <2>1. CASE run' = Https!AtRest BY <2>1 DEF Runs, Https!AtRest
  <2>2. CASE run' = [mode |-> "do", folder |-> Newest + 1, todo |-> run.todo, intent |-> FALSE]
    <3>1. run' \in [mode: {"do"}, folder: {Newest'}, todo: Seq(ProgramSteps), intent: BOOLEAN]
      BY <1>2, <1>4, <2>2
    <3> QED BY <2>2, <3>1 DEF Runs
  <2> QED BY <1>5, <2>1, <2>2
<1>7. \A b \in 1..Newest' : Refers(backups[b].saved)'
  <2>1. ASSUME NEW b \in 1..Newest 
        PROVE  LET d == backups'[b].saved
               IN  d.metadata # None => d.metadata.prior \in 1..Newest'
    <3>1. backups'[b] = backups[b] /\ Newest' = Newest + 1 BY <1>4, <2>1
    <3>2. Refers(backups[b].saved) BY <1>1, <2>1 DEF HttpsTypes
    <3> QED BY <1>2, <3>1, <3>2 DEF Refers
  <2>2. Refers(disk)' BY <1>1, <1>2, <1>4 DEF HttpsTypes, Refers
  <2>3. backups'[Newest + 1].saved = disk' BY <1>1, <1>3, <1>4
  <2>4. 1..Newest' = 1..Newest \cup {Newest + 1} BY <1>2, <1>4
  <2> QED BY <2>1, <2>2, <2>3, <2>4 DEF Refers
<1>8. Refers(disk)' BY <1>1, <1>2, <1>4 DEF HttpsTypes, Refers
<1>9. Newest' <= MaxBackups /\ Newest' >= 1 /\ torn' \subseteq 1..Newest' \cup {Https!Crossed}
  BY <1>1, <1>2, <1>4 DEF HttpsTypes, Https!BoundsAssumption
<1>10. HttpsTypes' BY <1>1, <1>4, <1>6, <1>7, <1>8, <1>9 DEF HttpsTypes
<1>11. Https!LatestCanBeUndone'
  BY <1>1, <1>2, <1>3, <1>4 DEF Https!LatestCanBeUndone, Https!Known, Newest
<1>12. ~(Https!Doing /\ run.intent)' /\ ~Https!Undoing'
  BY <1>5 DEF Https!AtRest, Https!Doing, Https!Undoing
<1> QED BY <1>10, <1>11, <1>12 DEF UndoableInv, Intents, Undoings

\* What a step of a program puts where.
LEMMA ContentIs ==
    ASSUME HttpsTypes, Https!Writing
    PROVE  /\ Https!Target \in Https!Files /\ Https!Content \in Contents(Https!Target)
           /\ Https!Target = "metadata" => Https!Content = None
              \/ Https!Content.prior \in 1..Newest
<1>1. /\ run.todo \in Seq(ProgramSteps) /\ run.folder = Newest /\ Newest \in Nat
      /\ Newest >= 1 /\ run.todo # <<>>
  BY RunIs DEF Https!Writing
<1>2. Head(run.todo) \in ProgramSteps BY <1>1
<1>3. CASE Head(run.todo).step = "write"
  <2>1. Https!Target = Head(run.todo).file /\ Https!Content = Head(run.todo).content
    BY <1>3 DEF Https!Target, Https!Content
  <2> QED BY <1>2, <1>3, <2>1, StepIs
<1>4. CASE Head(run.todo).step = "describe"
  <2>1. /\ Https!Target = "metadata"
        /\ Https!Content = [host |-> Head(run.todo).host, nginx |-> disk.nginx,
                       prior |-> run.folder]
    BY <1>4 DEF Https!Target, Https!Content
  <2>2. Head(run.todo).host \in Hosts BY <1>2, <1>4, StepIs
  <2>3. disk.nginx \in Https!Nginx \cup {None} /\ run.folder \in 1..MaxBackups
    BY <1>1 DEF HttpsTypes, Https!Disk
  <2> QED BY <1>1, <2>1, <2>2, <2>3 DEF Contents, Https!Metadata, Https!Files
<1> QED BY <1>3, <1>4 DEF Https!Writing

LEMMA NoteKeepsUndoable ==
    ASSUME UndoableInv, Https!Note
    PROVE  UndoableInv'
<1>1. /\ HttpsTypes /\ Https!LatestCanBeUndone /\ Https!Writing /\ Https!Doing
      /\ backups' = Https!Noted(run.folder, Https!Target, Https!Content)
         /\ run' = [run EXCEPT !.intent = TRUE]
      /\ disk[Https!Target] \in Https!Known(run.folder, Https!Target)
      /\ UNCHANGED <<disk, app, web, edits, faults, foreign, torn>>
  BY DEF UndoableInv, Https!Note, Https!Writing, Https!Unchanged, Https!services, Https!history
<1>2. /\ run \in [mode: {"do"}, folder: {Newest}, todo: Seq(ProgramSteps), intent: BOOLEAN]
      /\ run.folder = Newest /\ run.folder \in 1..Newest
  BY <1>1, RunIs
<1>3. Https!Target \in Https!Files /\ Https!Content \in Contents(Https!Target) BY <1>1, ContentIs
<1>4. /\ backups' \in Seq(Backup) /\ Newest' = Newest
      /\ \A b \in 1..Newest : backups'[b].saved = backups[b].saved
      /\ \A b \in 1..Newest, f \in Https!Files :
           b # run.folder \/ f # Https!Target => backups'[b].written[f] = backups[b].written[f]
      /\ backups'[run.folder].written[Https!Target]
            = backups[run.folder].written[Https!Target] \cup {Https!Content}
  <2>1. backups \in Seq(Backup) BY <1>1 DEF HttpsTypes
  <2>2. Newest' = Len(backups') BY DEF Newest
  <2>3. PICK b \in 1..Newest : b = run.folder BY <1>2
  <2>4. PICK f \in Https!Files : f = Https!Target BY <1>3
  <2>5. PICK c \in Contents(f) : c = Https!Content BY <1>3, <2>4
  <2>6. Https!Noted(b, f, c) \in Seq(Backup) BY <2>1, JournalNotes
  <2>7. Len(Https!Noted(b, f, c)) = Newest BY <2>1, JournalNotes
  <2>8. \A a \in 1..Newest : Https!Noted(b, f, c)[a].saved = backups[a].saved
    BY <2>1, JournalNotes
  <2>9. \A a \in 1..Newest, g \in Https!Files :
           a # b \/ g # f => Https!Noted(b, f, c)[a].written[g] = backups[a].written[g]
    BY <2>1, JournalNotes
  <2>10. Https!Noted(b, f, c)[b].written[f] = backups[b].written[f] \cup {c} BY <2>1, JournalNotes
  <2> QED BY <1>1, <2>2, <2>3, <2>4, <2>5, <2>6, <2>7, <2>8, <2>9, <2>10
<1>5. /\ run' \in [mode: {"do"}, folder: {Newest}, todo: Seq(ProgramSteps), intent: BOOLEAN]
      /\ run'.mode = "do" /\ run'.folder = run.folder /\ run'.todo = run.todo
  BY <1>1, <1>2
<1>6. run' \in Runs(Newest') BY <1>4, <1>5 DEF Runs
<1>7. HttpsTypes'
  <2>1. Refers(disk)' /\ \A b \in 1..Newest' : Refers(backups[b].saved)'
    BY <1>1, <1>4 DEF HttpsTypes, Refers
  <2>2. Newest' >= 1 /\ Newest' <= MaxBackups /\ torn' \subseteq 1..Newest' \cup {Https!Crossed}
    BY <1>1, <1>2, <1>4 DEF HttpsTypes
  <2> QED BY <1>1, <1>4, <1>5, <1>6, <2>1, <2>2 DEF HttpsTypes
<1>8. \A b \in 1..Newest, f \in Https!Files : Https!Known(b, f) \subseteq Https!Known(b, f)'
  BY <1>4 DEF Https!Known
<1>9. Https!LatestCanBeUndone' BY <1>1, <1>2, <1>4, <1>8 DEF Https!LatestCanBeUndone, Newest
<1>10. Https!Target' = Https!Target /\ Https!Content' = Https!Content
  BY <1>1, <1>5 DEF Https!Target, Https!Content
<1>11. Intents'
  <2>1. run'.todo # <<>> /\ Head(run'.todo).step \in {"write", "describe"}
    BY <1>1, <1>5 DEF Https!Writing
  <2>2. Https!Content \in backups'[run.folder].written[Https!Target] BY <1>2, <1>3, <1>4
  <2>3. disk[Https!Target] \in {backups'[run.folder].saved[Https!Target]}
                         \cup backups'[run.folder].written[Https!Target]
    BY <1>1, <1>2, <1>3, <1>4 DEF Https!Known
  <2> QED BY <1>1, <1>5, <1>10, <2>1, <2>2, <2>3 DEF Intents, Https!Known
<1>12. ~Https!Undoing' BY <1>5 DEF Https!Undoing
<1> QED BY <1>7, <1>9, <1>11, <1>12 DEF UndoableInv, Undoings

\* The file is replaced by what was noted, whether the step then goes on or fails.
LEMMA PutContent ==
    ASSUME UndoableInv, Https!Writing, run.intent,
           disk' = [disk EXCEPT ![Https!Target] = Https!Content],
           UNCHANGED <<backups, foreign>>
    PROVE  /\ disk' \in Https!Disk /\ Refers(disk)' /\ Https!LatestCanBeUndone'
           /\ \A f \in Https!Files : disk'[f] # disk[f] =>
                \E b \in DOMAIN backups : disk[f] \in Https!Known(b, f)
<1>1. /\ HttpsTypes /\ Https!LatestCanBeUndone /\ Intents /\ Https!Doing
  BY DEF UndoableInv, Https!Writing
<1>2. run.folder = Newest /\ run.folder \in 1..Newest BY <1>1, RunIs
<1>3. /\ Https!Target \in Https!Files /\ Https!Content \in Contents(Https!Target)
      /\ Https!Target = "metadata" => Https!Content = None \/ Https!Content.prior \in 1..Newest
  BY <1>1, ContentIs
<1>4. PICK f \in Https!Files : f = Https!Target BY <1>3
<1>5. PICK c \in Contents(f) : c = Https!Content BY <1>3, <1>4
<1>6. /\ disk' \in Https!Disk
      /\ \A g \in Https!Files : disk'[g] = IF g = f THEN c ELSE disk[g]
  <2>1. PICK d \in Https!Disk : d = disk BY <1>1 DEF HttpsTypes
  <2>2. /\ [d EXCEPT ![f] = c] \in Https!Disk
        /\ \A g \in Https!Files : [d EXCEPT ![f] = c][g] = IF g = f THEN c ELSE d[g]
    BY FilePut
  <2> QED BY <1>4, <1>5, <2>1, <2>2
<1>7. Refers(disk)'
  <2>1. disk'.metadata = disk.metadata \/ disk'.metadata = None
        \/ disk'.metadata.prior \in 1..Newest
    BY <1>3, <1>4, <1>5, <1>6 DEF Https!Files
  <2> QED BY <1>1, <2>1 DEF HttpsTypes, Refers, Newest
<1>8. c \in backups[run.folder].written[f] /\ disk[f] \in Https!Known(run.folder, f)
  BY <1>1, <1>4, <1>5 DEF Intents
<1>9. Https!LatestCanBeUndone'
  BY <1>1, <1>2, <1>6, <1>8 DEF Https!LatestCanBeUndone, Https!Known, Newest
<1>10. DOMAIN backups = 1..Newest BY <1>1 DEF HttpsTypes, Newest
<1> QED BY <1>2, <1>6, <1>7, <1>8, <1>9, <1>10

LEMMA PublishKeepsUndoable ==
    ASSUME UndoableInv, Https!Publish
    PROVE  UndoableInv'
<1>1. /\ HttpsTypes /\ Https!Writing /\ Https!Doing /\ run.intent
      /\ disk' = [disk EXCEPT ![Https!Target] = Https!Content] /\ Https!Proceed(Tail(run.todo))
      /\ UNCHANGED <<app, web, backups, edits, faults, foreign, torn>>
  BY DEF UndoableInv, Https!Publish, Https!Writing, Https!services, Https!history
<1>2. disk' \in Https!Disk /\ Refers(disk)' /\ Https!LatestCanBeUndone' BY <1>1, PutContent
<1>3. /\ run \in [mode: {"do"}, folder: {Newest}, todo: Seq(ProgramSteps), intent: BOOLEAN]
      /\ Tail(run.todo) \in Seq(ProgramSteps)
  BY <1>1, RunIs DEF Https!Writing
<1>4. /\ run' \in [mode: {"do"}, folder: {Newest}, todo: Seq(ProgramSteps), intent: BOOLEAN]
      /\ run'.mode = "do" /\ ~run'.intent
  BY <1>1, <1>3 DEF Https!Proceed
<1>5. Newest' = Newest BY <1>1 DEF Newest
<1>6. run' \in Runs(Newest') BY <1>4, <1>5 DEF Runs
<1>7. HttpsTypes' BY <1>1, <1>2, <1>4, <1>5, <1>6 DEF HttpsTypes, Refers, Https!Doing
<1> QED BY <1>2, <1>4, <1>7 DEF UndoableInv, Intents, Undoings, Https!Doing, Https!Undoing

LEMMA FailKeepsUndoable ==
    ASSUME Https!BoundsAssumption, UndoableInv, Https!Fail
    PROVE  UndoableInv'
<1>1. /\ HttpsTypes /\ Https!LatestCanBeUndone /\ Https!Doing /\ Https!Fault
      /\ disk' = disk
         \/ (Https!Writing /\ run.intent /\ disk' = [disk EXCEPT ![Https!Target] = Https!Content])
      /\ run' = [mode |-> "failed", folder |-> run.folder]
      /\ UNCHANGED <<app, web, backups, edits, foreign, torn>>
  BY DEF UndoableInv, Https!Fail, Https!services
<1>2. disk' \in Https!Disk /\ Refers(disk)' /\ Https!LatestCanBeUndone'
  <2>1. CASE disk' = disk
    BY <1>1, <2>1 DEF HttpsTypes, Refers, Https!LatestCanBeUndone, Https!Known, Newest
  <2> QED BY <1>1, <2>1, PutContent
<1>3. run.folder = Newest /\ Newest' = Newest BY <1>1, RunIs DEF Newest
<1>4. run' \in Runs(Newest') BY <1>1, <1>3 DEF Runs
<1>5. faults' \in 0..HttpsFaults BY <1>1 DEF Https!Fault, HttpsTypes, Https!BoundsAssumption
<1>6. HttpsTypes' BY <1>1, <1>2, <1>3, <1>4, <1>5 DEF HttpsTypes, Refers, Https!Doing
<1> QED BY <1>1, <1>2, <1>6 DEF UndoableInv, Intents, Undoings, Https!Doing, Https!Undoing

LEMMA ServeKeepsUndoable ==
    ASSUME UndoableInv, Https!Serve \/ Https!Commit
    PROVE  UndoableInv'
<1>1. /\ HttpsTypes /\ Https!LatestCanBeUndone /\ Https!Doing
      /\ app' \in {app, <<disk.env, disk.unit>>} /\ web' \in {web, disk.nginx}
      /\ UNCHANGED <<disk, backups, edits, faults, foreign, torn>>
  BY DEF UndoableInv, Https!Serve, Https!Commit, Https!services, Https!history
<1>2. /\ run \in [mode: {"do"}, folder: {Newest}, todo: Seq(ProgramSteps), intent: BOOLEAN]
      /\ Newest' = Newest
  BY <1>1, RunIs DEF Newest
<1>3. /\ run' \in Runs(Newest') /\ run'.mode # "start" /\ ~(run'.mode = "do" /\ run'.intent)
      /\ run'.mode # "undo"
  <2>1. CASE Https!Serve
    <3>1. run' = [run EXCEPT !.todo = Tail(run.todo), !.intent = FALSE] /\ run.todo # <<>>
      BY <2>1 DEF Https!Serve, Https!Proceed
    <3>2. run' \in [mode: {"do"}, folder: {Newest}, todo: Seq(ProgramSteps), intent: {FALSE}]
      <4>1. Tail(run.todo) \in Seq(ProgramSteps) BY <1>2, <3>1
      <4> QED BY <1>2, <3>1, <4>1
    <3>3. run' \in [mode: {"do"}, folder: {Newest}, todo: Seq(ProgramSteps), intent: BOOLEAN]
      BY <3>2
    <3> QED BY <1>2, <3>2, <3>3 DEF Runs
  <2>2. CASE Https!Commit BY <2>2 DEF Https!Commit, Runs, Https!AtRest
  <2> QED BY <2>1, <2>2
<1>4. app' \in Https!Env \X {"any", "local"} /\ web' \in Https!Nginx \cup {None}
  BY <1>1 DEF HttpsTypes, Https!Disk
<1>5. HttpsTypes' BY <1>1, <1>2, <1>3, <1>4 DEF HttpsTypes, Refers, Https!Doing
<1> QED BY <1>1, <1>2, <1>3, <1>5
        DEF UndoableInv, Https!LatestCanBeUndone, Https!Known, Intents, Undoings, Https!Doing,
            Https!Undoing

\* Who begins to undo has looked at every file it will touch.
LEMMA UndoKeepsUndoable ==
    ASSUME UndoableInv, Https!Recover \/ \E b \in 1..MaxBackups : Https!Rollback(b)
    PROVE  UndoableInv'
<1>1. /\ HttpsTypes /\ Https!LatestCanBeUndone
      /\ UNCHANGED <<disk, app, web, backups, edits, faults, foreign>>
  BY DEF UndoableInv, Https!Recover, Https!Rollback, Https!services
<1>2. /\ Newest' = Newest /\ Newest \in Nat /\ DOMAIN backups = 1..Newest
      /\ run.mode = "failed" => run.folder \in 1..Newest
  BY <1>1, RunIs DEF HttpsTypes, Newest
<1>3. torn' \subseteq 1..Newest \cup {Https!Crossed}
  BY <1>1, <1>2 DEF Https!Recover, Https!Rollback, HttpsTypes
<1>4. CASE \E b \in 1..Newest : Https!Undo(b)
  <2>1. PICK b \in 1..Newest : Https!Undo(b) BY <1>4
  <2>2. Https!Selected(b) \subseteq Https!Files BY DEF Https!Selected
  <2>3. run' = [mode |-> "undo", folder |-> b, left |-> Https!Selected(b), whole |-> TRUE]
    BY <2>1 DEF Https!Undo
  <2>4. run' \in Runs(Newest') BY <1>2, <2>2, <2>3 DEF Runs
  <2>5. HttpsTypes' BY <1>1, <1>2, <1>3, <2>3, <2>4 DEF HttpsTypes, Refers
  <2>6. Undoings'
    BY <1>1, <2>1, <2>3 DEF Https!Undo, Https!Undoable, Https!Unchanged, Undoings, Https!Known,
       Https!Selected
  <2> QED BY <1>1, <1>2, <2>3, <2>5, <2>6 DEF UndoableInv, Https!LatestCanBeUndone, Https!Known,
             Intents, Https!Doing
<1>5. CASE run' = Https!AtRest
  <2>1. run' \in Runs(Newest') BY <1>5 DEF Runs
  <2>2. HttpsTypes' BY <1>1, <1>2, <1>3, <1>5, <2>1 DEF HttpsTypes, Refers, Https!AtRest
  <2> QED BY <1>1, <1>2, <1>5, <2>2
          DEF UndoableInv, Https!LatestCanBeUndone, Https!Known, Intents, Undoings, Https!Doing,
              Https!Undoing, Https!AtRest
<1> QED BY <1>2, <1>4, <1>5 DEF Https!Recover, Https!Rollback

\* A file that is put back was looked at, and nobody wrote to it since.
LEMMA PutBackKeepsUndoable ==
    ASSUME Https!BoundsAssumption, UndoableInv, NEW f \in Https!Files, Https!PutBack(f)
    PROVE  /\ UndoableInv'
           /\ \A g \in Https!Files : disk'[g] # disk[g] =>
                \E b \in DOMAIN backups : disk[g] \in Https!Known(b, g)
<1>1. /\ HttpsTypes /\ Https!LatestCanBeUndone /\ Undoings /\ Https!Undoing /\ f \in run.left
      /\ UNCHANGED <<app, web, backups, edits, torn>>
  BY DEF UndoableInv, Https!PutBack, Https!services
<1>2. /\ run \in [mode: {"undo"}, folder: 1..Newest, left: SUBSET Https!Files, whole: BOOLEAN]
      /\ run.folder \in 1..Newest /\ Newest' = Newest /\ DOMAIN backups = 1..Newest
      /\ run.left \subseteq Https!Files /\ Newest \in Nat
  BY <1>1, RunIs DEF HttpsTypes, Newest
<1>3. backups[run.folder].saved \in Https!Disk /\ Refers(backups[run.folder].saved)
  <2>1. backups[run.folder] \in Backup BY <1>1, <1>2 DEF HttpsTypes
  <2> QED BY <1>1, <1>2, <2>1 DEF Backup, HttpsTypes
<1>4. /\ run' \in [mode: {"undo"}, folder: 1..Newest, left: SUBSET Https!Files, whole: BOOLEAN]
      /\ run'.folder = run.folder /\ run'.left = run.left \ {f} /\ run'.mode = "undo"
  BY <1>2 DEF Https!PutBack
<1>5. \/ /\ \A g \in Https!Files :
              disk'[g] = IF g = f THEN backups[run.folder].saved[f] ELSE disk[g]
         /\ disk' \in Https!Disk /\ Refers(disk)'
         /\ foreign' = IF run.folder = Newest THEN foreign ELSE foreign \cup {f}
         /\ faults' = faults
      \/ disk' = disk /\ foreign' = foreign /\ Https!Fault
  <2>1. CASE /\ disk' = [disk EXCEPT ![f] = backups[run.folder].saved[f]]
             /\ foreign' = IF run.folder = Len(backups) THEN foreign ELSE foreign \cup {f}
             /\ faults' = faults
    <3>1. PICK c \in Contents(f) : c = backups[run.folder].saved[f]
      <4>1. PICK d \in Https!Disk : d = backups[run.folder].saved BY <1>3
      <4> QED BY <4>1, FileHas
    <3>2. /\ disk' \in Https!Disk
          /\ \A g \in Https!Files : disk'[g] = IF g = f THEN c ELSE disk[g]
      <4>1. PICK d \in Https!Disk : d = disk BY <1>1 DEF HttpsTypes
      <4>2. /\ [d EXCEPT ![f] = c] \in Https!Disk
            /\ \A g \in Https!Files : [d EXCEPT ![f] = c][g] = IF g = f THEN c ELSE d[g]
        BY FilePut
      <4> QED BY <2>1, <3>1, <4>1, <4>2
    <3>3. Refers(disk)'
      <4>1. disk'.metadata \in {disk.metadata, backups[run.folder].saved.metadata}
        BY <3>1, <3>2 DEF Https!Files
      <4> QED BY <1>1, <1>2, <1>3, <4>1 DEF HttpsTypes, Refers
    <3> QED BY <2>1, <3>1, <3>2, <3>3 DEF Newest
  <2> QED BY <2>1 DEF Https!PutBack
<1>6. \A g \in Https!Files : disk'[g] # disk[g] =>
          g = f /\ disk[g] \in Https!Known(run.folder, g)
  BY <1>1, <1>5 DEF Undoings
<1>7. HttpsTypes'
  <2>1. disk' \in Https!Disk /\ Refers(disk)' /\ foreign' \subseteq Https!Files
        /\ faults' \in 0..HttpsFaults
    BY <1>1, <1>2, <1>5 DEF HttpsTypes, Https!Fault, Https!BoundsAssumption, Refers
  <2>2. run' \in Runs(Newest') BY <1>2, <1>4 DEF Runs
  <2> QED BY <1>1, <1>2, <1>4, <2>1, <2>2 DEF HttpsTypes, Refers
<1>8. Https!LatestCanBeUndone'
  BY <1>1, <1>2, <1>5 DEF Https!LatestCanBeUndone, Https!Known, Newest
<1>9. Undoings' /\ ~Https!Doing'
  BY <1>1, <1>2, <1>4, <1>5 DEF Undoings, Https!Undoing, Https!Doing, Https!Known, Https!Selected
<1> QED BY <1>2, <1>6, <1>7, <1>8, <1>9 DEF UndoableInv, Intents

LEMMA EndKeepsUndoable ==
    ASSUME Https!BoundsAssumption, UndoableInv, Https!Finish \/ Https!Kill
    PROVE  UndoableInv'
<1>1. /\ HttpsTypes /\ Https!LatestCanBeUndone /\ run' = Https!AtRest
      /\ app' \in {app, <<disk.env, disk.unit>>} /\ web' \in {web, disk.nginx}
      /\ (faults' = faults \/ Https!Fault) /\ UNCHANGED <<disk, backups, edits, foreign>>
  BY DEF UndoableInv, Https!Finish, Https!Kill, Https!services
<1>2. Newest' = Newest /\ run' \in Runs(Newest') /\ run'.mode = "idle"
  BY <1>1 DEF Newest, Runs, Https!AtRest
<1>3. torn' \subseteq 1..Newest \cup {Https!Crossed}
  BY <1>1, RunIs DEF Https!Finish, Https!Kill, HttpsTypes, Https!Undoing, Https!Doing, Https!Idle
<1>4. faults' \in 0..HttpsFaults BY <1>1 DEF Https!Fault, HttpsTypes, Https!BoundsAssumption
<1>5. app' \in Https!Env \X {"any", "local"} /\ web' \in Https!Nginx \cup {None}
  BY <1>1 DEF HttpsTypes, Https!Disk
<1>6. HttpsTypes' BY <1>1, <1>2, <1>3, <1>4, <1>5 DEF HttpsTypes, Refers
<1> QED BY <1>1, <1>2, <1>6
        DEF UndoableInv, Https!LatestCanBeUndone, Https!Known, Intents, Undoings, Https!Doing,
            Https!Undoing

\* An administrator's edit changes a setting of his own and leaves nginx there.
LEMMA EditIs ==
    ASSUME Https!BoundsAssumption, Https!NamesAssumption, HttpsTypes, NEW f \in {"env", "nginx"},
           Https!Edit(f)
    PROVE  /\ disk' \in Https!Disk /\ edits' \in 0..MaxEdits /\ foreign' = foreign \cup {f}
           /\ UNCHANGED <<backups, run, faults, torn>>
           /\ run.mode \in {"idle", "start"} \/ (Https!Doing /\ ~run.intent)
           /\ disk'.unit = disk.unit /\ disk'.hook = disk.hook /\ disk'.metadata = disk.metadata
           /\ disk'.env.settings = disk.env.settings
           /\ disk'.nginx = None <=> disk.nginx = None
           /\ f # "env" => disk'.env = disk.env
           /\ f # "nginx" => disk'.nginx = disk.nginx
           /\ IF f = "env" THEN app' = <<disk'.env, disk'.unit>> /\ web' = web
              ELSE app' = app /\ web' = disk'.nginx
<1>1. /\ edits' = edits + 1 /\ foreign' = foreign \cup {f}
      /\ UNCHANGED <<backups, run, faults, torn>>
      /\ run.mode \in {"idle", "start"} \/ (Https!Doing /\ ~run.intent)
  BY DEF Https!Edit
<1>2. edits' \in 0..MaxEdits BY <1>1 DEF Https!Edit, HttpsTypes, Https!BoundsAssumption
<1>3. disk \in Https!Disk BY DEF HttpsTypes
<1> DEFINE env == [disk.env EXCEPT !.other = edits']
           nginx == [disk.nginx EXCEPT !.edit = edits']
<1>4. CASE f = "env"
  <2>1. disk' = [disk EXCEPT !.env = env] /\ app' = <<disk'.env, disk.unit>> /\ web' = web
    BY <1>4 DEF Https!Edit
  <2>2. env \in Https!Env /\ env.settings = disk.env.settings
    BY <1>2, <1>3 DEF Https!Disk, Https!Env
  <2> HIDE DEF env
  <2>3. /\ disk' \in Https!Disk /\ disk'.env = env /\ disk'.unit = disk.unit
        /\ disk'.nginx = disk.nginx /\ disk'.hook = disk.hook /\ disk'.metadata = disk.metadata
    BY <1>3, <2>1, <2>2 DEF Https!Disk
  <2> QED BY <1>1, <1>2, <1>4, <2>1, <2>2, <2>3
<1>5. CASE f = "nginx"
  <2>1. /\ disk' = [disk EXCEPT !.nginx = nginx] /\ web' = disk'.nginx /\ app' = app
        /\ disk.nginx # None
    BY <1>5 DEF Https!Edit
  <2>2. nginx \in Https!Nginx BY <1>2, <1>3, <2>1 DEF Https!Disk, Https!Nginx
  <2>3. nginx # None BY <2>2 DEF Https!NamesAssumption
  <2> HIDE DEF nginx
  <2>4. /\ disk' \in Https!Disk /\ disk'.nginx = nginx /\ disk'.unit = disk.unit
        /\ disk'.env = disk.env /\ disk'.hook = disk.hook /\ disk'.metadata = disk.metadata
    BY <1>3, <2>1, <2>2 DEF Https!Disk
  <2> QED BY <1>1, <1>2, <1>5, <2>1, <2>3, <2>4
<1> QED BY <1>4, <1>5

LEMMA EditKeepsUndoable ==
    ASSUME Https!BoundsAssumption, Https!NamesAssumption, UndoableInv,
           \E f \in {"env", "nginx"} : Https!Edit(f)
    PROVE  UndoableInv'
<1>1. PICK f \in {"env", "nginx"} : Https!Edit(f) OBVIOUS
<1>2. HttpsTypes /\ Https!LatestCanBeUndone BY DEF UndoableInv
<1>3. /\ disk' \in Https!Disk /\ edits' \in 0..MaxEdits /\ foreign' = foreign \cup {f}
      /\ UNCHANGED <<backups, run, faults, torn>>
      /\ run.mode \in {"idle", "start"} \/ (Https!Doing /\ ~run.intent)
      /\ disk'.metadata = disk.metadata
      /\ app' \in {app, <<disk'.env, disk'.unit>>} /\ web' \in {web, disk'.nginx}
      /\ \A g \in Https!Files \ {f} : disk'[g] = disk[g]
  BY <1>1, <1>2, EditIs DEF Https!Files
<1>4. app' \in Https!Env \X {"any", "local"} /\ web' \in Https!Nginx \cup {None}
  BY <1>2, <1>3 DEF HttpsTypes, Https!Disk
<1>5. foreign' \subseteq Https!Files BY <1>2, <1>3 DEF HttpsTypes, Https!Files
<1>6. HttpsTypes' BY <1>2, <1>3, <1>4, <1>5 DEF HttpsTypes, Refers, Newest
<1>7. Https!LatestCanBeUndone' BY <1>2, <1>3 DEF Https!LatestCanBeUndone, Https!Known
<1> QED BY <1>3, <1>6, <1>7 DEF UndoableInv, Intents, Undoings, Https!Doing, Https!Undoing

LEMMA UndoableStutters == ASSUME UndoableInv, UNCHANGED Https!vars PROVE UndoableInv'
<1>1. UNCHANGED <<disk, app, web, backups, run, edits, faults, foreign, torn>>
  BY DEF Https!vars, Https!services, Https!history
<1>2. HttpsTypes' BY <1>1 DEF UndoableInv, HttpsTypes, Refers, Newest
<1> QED BY <1>1, <1>2
        DEF UndoableInv, Https!LatestCanBeUndone, Https!Known, Intents, Undoings, Https!Doing,
            Https!Undoing, Https!Content,
            Https!Target, Https!Selected

LEMMA StepKeepsUndoable ==
    ASSUME Https!BoundsAssumption, Https!NamesAssumption, UndoableInv, [Https!Next]_(Https!vars)
    PROVE  UndoableInv'
<1>1. CASE (\E h \in Hosts : Https!Setup(h)) \/ Https!Disable \/ Https!Detach
  BY <1>1, StartsKeepUndoable
<1>2. CASE Https!Snapshot BY <1>2, SnapshotKeepsUndoable
<1>3. CASE Https!Note BY <1>3, NoteKeepsUndoable
<1>4. CASE Https!Publish BY <1>4, PublishKeepsUndoable
<1>5. CASE Https!Serve \/ Https!Commit BY <1>5, ServeKeepsUndoable
<1>6. CASE Https!Fail BY <1>6, FailKeepsUndoable
<1>7. CASE Https!Recover \/ \E b \in 1..MaxBackups : Https!Rollback(b) BY <1>7, UndoKeepsUndoable
<1>8. ASSUME NEW f \in Https!Files, Https!PutBack(f) PROVE UndoableInv'
  BY <1>8, PutBackKeepsUndoable
<1>9. CASE Https!Finish \/ Https!Kill BY <1>9, EndKeepsUndoable
<1>10. CASE \E f \in {"env", "nginx"} : Https!Edit(f) BY <1>10, EditKeepsUndoable
<1>11. CASE UNCHANGED Https!vars BY <1>11, UndoableStutters
<1> QED BY <1>1, <1>2, <1>3, <1>4, <1>5, <1>6, <1>7, <1>8, <1>9, <1>10, <1>11 DEF Https!Next

LEMMA UndoableFollows == UndoableInv => Https!TypeOK /\ Https!LatestCanBeUndone
<1> SUFFICES ASSUME UndoableInv PROVE Https!TypeOK
    BY DEF UndoableInv
<1>1. HttpsTypes BY DEF UndoableInv
<1>2. run.mode \in {"idle", "start", "do", "failed", "undo"} BY <1>1, RunIs
<1>3. DOMAIN backups = 1..Newest /\ Len(backups) = Newest BY <1>1 DEF HttpsTypes, Newest
<1>4. \A b \in 1..Newest : backups[b].saved \in Https!Disk /\ backups[b].written \in Https!Journal
  <2>1. \A b \in 1..Newest : backups[b] \in Backup BY <1>1 DEF HttpsTypes, Newest
  <2> QED BY <2>1 DEF Backup
<1> QED BY <1>1, <1>2, <1>3, <1>4 DEF HttpsTypes, Https!TypeOK

-----------------------------------------------------------------------------

Writes(s, files) == s.step = "write" /\ s.file \in files
SomeStep(todo, step) == \E j \in 1..Len(todo) : todo[j].step = step
\* Every service is restarted after the last write of its files.
RestartsFollow(todo) ==
    \A i \in 1..Len(todo) :
        /\ Writes(todo[i], {"env", "unit"}) =>
             \E j \in 1..Len(todo) : j > i /\ todo[j].step = "app"
        /\ Writes(todo[i], {"nginx"}) => \E j \in 1..Len(todo) : j > i /\ todo[j].step = "nginx"

AppServed == app = <<disk.env, disk.unit>>
WebServed == web = disk.nginx

\* The settings are the administrator's where nothing is integrated, and were when
\* what is integrated was set up.
Settled(d, bs) ==
    /\ d.metadata # None => bs[d.metadata.prior].saved.env.settings = None
    /\ d.nginx = None /\ d.hook = None /\ d.metadata = None =>
           d.env.settings = None /\ d.unit = "any"
\* What is left of a setup ends with the description.
Setting(todo, d) ==
    todo # <<>> /\ todo[Len(todo)].step = "describe" /\ d.env.settings = None
\* What is left of the others takes the description away last, if at all, when the
\* settings are the administrator's again.
Removing(todo, d, bs) ==
    /\ Settled(d, bs) /\ (todo # <<>> => d.metadata # None)
    /\ \A i \in 1..Len(todo) :
        /\ todo[i].step # "describe"
        /\ Writes(todo[i], {"env"}) => todo[i].content.settings = None
        /\ Writes(todo[i], {"unit"}) => todo[i].content = "any"
        /\ Writes(todo[i], {"metadata"}) =>
            /\ i = Len(todo) /\ todo[i].content = None
            /\ \/ d.env.settings = None
               \/ \E j \in 1..Len(todo) : j < i /\ Writes(todo[j], {"env"})
            /\ \/ d.unit = "any"
               \/ \E j \in 1..Len(todo) : j < i /\ Writes(todo[j], {"unit"})

SameButEdits(d, e, f) ==
    CASE f = "env" -> d.env.settings = e.env.settings
      [] f = "nginx" -> (d.nginx = None <=> e.nginx = None)
      [] f \in {"unit", "hook", "metadata"} -> d[f] = e[f]

\* Unless an older one was torn: what the newest transaction did not touch is as it
\* found it, but for edits, and is served.
NewestKnows ==
    Newest >= 1 /\ torn \subseteq {Newest} =>
        /\ Settled(backups[Newest].saved, backups)
        /\ \A f \in Https!Files \ Https!Selected(Newest) :
               SameButEdits(disk, backups[Newest].saved, f)
        /\ {"env", "unit"} \cap Https!Selected(Newest) = {} => AppServed
        /\ "nginx" \notin Https!Selected(Newest) => WebServed
UndoneInOrder ==
    Https!Undoing =>
        IF run.folder # Newest THEN Https!Crossed \in torn
        ELSE run.whole =>
                \A f \in Https!Selected(Newest) \ run.left : disk[f] = backups[Newest].saved[f]
Restarts == run.mode \in {"start", "do"} => RestartsFollow(run.todo)
Quiet ==
    torn = {} /\ run.mode \in {"idle", "start"} =>
        Settled(disk, backups) /\ AppServed /\ WebServed
Programs ==
    torn = {} =>
        /\ run.mode = "start" => Setting(run.todo, disk) \/ Removing(run.todo, disk, backups)
        /\ Https!Doing =>
            /\ AppServed \/ SomeStep(run.todo, "app")
            /\ WebServed \/ SomeStep(run.todo, "nginx")
            /\ \/ Setting(run.todo, backups[run.folder].saved)
               \/ Removing(run.todo, disk, backups)

SettledInv == UndoableInv /\ NewestKnows /\ UndoneInOrder /\ Restarts /\ Quiet /\ Programs

LEMMA SettledFollows == SettledInv => Https!ServedAsOnDisk /\ Https!SettingsComeBack
<1> SUFFICES ASSUME SettledInv PROVE Https!ServedAsOnDisk /\ Https!SettingsComeBack
    OBVIOUS
<1>1. Https!Idle => run.mode = "idle" BY DEF Https!Idle, Https!AtRest
<1>2. disk["nginx"] = disk.nginx /\ disk["hook"] = disk.hook /\ disk["metadata"] = disk.metadata
  OBVIOUS
<1> QED BY <1>1, <1>2
        DEF SettledInv, Quiet, Settled, AppServed, WebServed, Https!ServedAsOnDisk,
            Https!SettingsComeBack

LEMMA TailIs ==
    ASSUME NEW todo \in Seq(ProgramSteps), todo # <<>>
    PROVE  /\ Tail(todo) \in Seq(ProgramSteps) /\ Len(todo) \in Nat /\ Len(todo) >= 1
           /\ Len(Tail(todo)) = Len(todo) - 1 /\ Head(todo) = todo[1]
           /\ \A i \in 1..Len(Tail(todo)) : Tail(todo)[i] = todo[i + 1]
OBVIOUS

LEMMA RestartsGoOn ==
    ASSUME NEW todo \in Seq(ProgramSteps), todo # <<>>, RestartsFollow(todo)
    PROVE  /\ RestartsFollow(Tail(todo))
           /\ Writes(todo[1], {"env", "unit"}) => SomeStep(Tail(todo), "app")
           /\ Writes(todo[1], {"nginx"}) => SomeStep(Tail(todo), "nginx")
           /\ \A step \in {"app", "nginx"} :
                SomeStep(todo, step) /\ todo[1].step # step => SomeStep(Tail(todo), step)
<1> DEFINE rest == Tail(todo)
<1>1. /\ rest \in Seq(ProgramSteps) /\ Len(todo) \in Nat /\ Len(todo) >= 1
      /\ Len(rest) = Len(todo) - 1 /\ \A i \in 1..Len(rest) : rest[i] = todo[i + 1]
  BY TailIs
<1> HIDE DEF rest
<1>2. ASSUME NEW step, NEW i \in 1..Len(todo), NEW j \in 1..Len(todo), j > i,
             todo[j].step = step
      PROVE  /\ j - 1 \in 1..Len(rest) /\ rest[j - 1].step = step
             /\ j - 1 > i - 1
  BY <1>1, <1>2
<1>3. ASSUME NEW i \in 1..Len(rest) PROVE i + 1 \in 1..Len(todo) /\ rest[i] = todo[i + 1]
  BY <1>1
<1>4. RestartsFollow(rest)
  <2>1. ASSUME NEW i \in 1..Len(rest), Writes(rest[i], {"env", "unit"})
        PROVE  \E j \in 1..Len(rest) : j > i /\ rest[j].step = "app"
    <3>1. PICK j \in 1..Len(todo) : j > i + 1 /\ todo[j].step = "app"
      BY <1>3, <2>1 DEF RestartsFollow
    <3>2. j - 1 \in 1..Len(rest) /\ rest[j - 1].step = "app" /\ j - 1 > i
      BY <1>1, <1>2, <1>3, <3>1
    <3> QED BY <3>2
  <2>2. ASSUME NEW i \in 1..Len(rest), Writes(rest[i], {"nginx"})
        PROVE  \E j \in 1..Len(rest) : j > i /\ rest[j].step = "nginx"
    <3>1. PICK j \in 1..Len(todo) : j > i + 1 /\ todo[j].step = "nginx"
      BY <1>3, <2>2 DEF RestartsFollow
    <3>2. j - 1 \in 1..Len(rest) /\ rest[j - 1].step = "nginx" /\ j - 1 > i
      BY <1>1, <1>2, <1>3, <3>1
    <3> QED BY <3>2
  <2> QED BY <2>1, <2>2 DEF RestartsFollow
<1>5. ASSUME NEW step, NEW j \in 1..Len(todo), j > 1, todo[j].step = step
      PROVE  SomeStep(rest, step)
  <2>1. j - 1 \in 1..Len(rest) /\ rest[j - 1] = todo[j] BY <1>1, <1>5
  <2> QED BY <1>5, <2>1 DEF SomeStep
<1>6. 1 \in 1..Len(todo) BY <1>1
<1>7. Writes(todo[1], {"env", "unit"}) => SomeStep(rest, "app") BY <1>5, <1>6 DEF RestartsFollow
<1>8. Writes(todo[1], {"nginx"}) => SomeStep(rest, "nginx") BY <1>5, <1>6 DEF RestartsFollow
<1>9. ASSUME NEW step \in {"app", "nginx"}, SomeStep(todo, step), todo[1].step # step
      PROVE  SomeStep(rest, step)
  <2>1. PICK j \in 1..Len(todo) : todo[j].step = step BY <1>9 DEF SomeStep
  <2>2. j # 1 BY <1>9, <2>1
  <2> QED BY <1>1, <1>5, <2>1, <2>2
<1> QED BY <1>4, <1>7, <1>8, <1>9 DEF rest

LEMMA SettingGoesOn ==
    ASSUME NEW todo \in Seq(ProgramSteps), NEW d, Setting(todo, d),
           todo[1].step # "describe" \/ Len(todo) # 1
    PROVE  Setting(Tail(todo), d)
<1> DEFINE rest == Tail(todo)
<1>1. /\ rest \in Seq(ProgramSteps) /\ Len(todo) \in Nat /\ Len(todo) >= 1
      /\ Len(rest) = Len(todo) - 1 /\ \A i \in 1..Len(rest) : rest[i] = todo[i + 1]
  BY TailIs DEF Setting
<1> HIDE DEF rest
<1>2. Len(todo) > 1 BY <1>1 DEF Setting
<1>3. rest[Len(rest)] = todo[Len(todo)] BY <1>1, <1>2
<1>4. rest # <<>> BY <1>1, <1>2
<1>5. Setting(rest, d) BY <1>3, <1>4 DEF Setting
<1> QED BY <1>5 DEF rest

\* A step that writes nothing, and one that writes.
LEMMA RemovingServes ==
    ASSUME NEW todo \in Seq(ProgramSteps), NEW d, NEW bs, Removing(todo, d, bs), todo # <<>>,
           todo[1].step # "write"
    PROVE  Removing(Tail(todo), d, bs)
<1> DEFINE rest == Tail(todo)
<1>1. /\ Len(todo) \in Nat /\ Len(todo) >= 1 /\ Len(rest) = Len(todo) - 1
      /\ \A i \in 1..Len(rest) : i + 1 \in 1..Len(todo) /\ rest[i] = todo[i + 1]
  BY TailIs
<1> HIDE DEF rest
<1>2. ASSUME NEW i \in 1..Len(rest), NEW file,
             \E j \in 1..Len(todo) : j < i + 1 /\ Writes(todo[j], {file})
      PROVE  \E j \in 1..Len(rest) : j < i /\ Writes(rest[j], {file})
  <2>1. PICK j \in 1..Len(todo) : j < i + 1 /\ Writes(todo[j], {file}) BY <1>2
  <2>2. j # 1 BY <2>1 DEF Writes
  <2>3. j - 1 \in 1..Len(rest) /\ j - 1 < i /\ rest[j - 1] = todo[j] BY <1>1, <2>1, <2>2
  <2> QED BY <2>1, <2>3
<1>3. ASSUME NEW i \in 1..Len(rest)
      PROVE  /\ rest[i].step # "describe"
             /\ Writes(rest[i], {"env"}) => rest[i].content.settings = None
             /\ Writes(rest[i], {"unit"}) => rest[i].content = "any"
             /\ Writes(rest[i], {"metadata"}) =>
                /\ i = Len(rest) /\ rest[i].content = None
                /\ \/ d.env.settings = None
                   \/ \E j \in 1..Len(rest) : j < i /\ Writes(rest[j], {"env"})
                /\ \/ d.unit = "any"
                   \/ \E j \in 1..Len(rest) : j < i /\ Writes(rest[j], {"unit"})
  <2>1. i + 1 \in 1..Len(todo) /\ rest[i] = todo[i + 1] /\ i \in Nat BY <1>1
  <2>2. /\ rest[i].step # "describe"
        /\ Writes(rest[i], {"env"}) => rest[i].content.settings = None
        /\ Writes(rest[i], {"unit"}) => rest[i].content = "any"
        /\ Writes(rest[i], {"metadata"}) =>
            /\ i + 1 = Len(todo) /\ rest[i].content = None
            /\ \/ d.env.settings = None
               \/ \E j \in 1..Len(todo) : j < i + 1 /\ Writes(todo[j], {"env"})
            /\ \/ d.unit = "any"
               \/ \E j \in 1..Len(todo) : j < i + 1 /\ Writes(todo[j], {"unit"})
    BY <2>1 DEF Removing
  <2>3. i + 1 = Len(todo) => i = Len(rest) BY <1>1, <2>1
  <2>4. (\E j \in 1..Len(todo) : j < i + 1 /\ Writes(todo[j], {"env"})) =>
            \E j \in 1..Len(rest) : j < i /\ Writes(rest[j], {"env"})
    BY <1>2
  <2>5. (\E j \in 1..Len(todo) : j < i + 1 /\ Writes(todo[j], {"unit"})) =>
            \E j \in 1..Len(rest) : j < i /\ Writes(rest[j], {"unit"})
    BY <1>2
  <2> QED BY ONLY <2>2, <2>3, <2>4, <2>5
<1>4. Settled(d, bs) /\ d.metadata # None BY DEF Removing
<1>5. Removing(rest, d, bs) BY <1>3, <1>4 DEF Removing
<1> QED BY <1>5 DEF rest

LEMMA RemovingWrites ==
    ASSUME NEW todo \in Seq(ProgramSteps), NEW d \in Https!Disk, NEW bs, Removing(todo, d, bs),
           todo # <<>>, todo[1].step = "write", NEW e \in Https!Disk,
           \A f \in Https!Files : e[f] = IF f = todo[1].file THEN todo[1].content ELSE d[f]
    PROVE  Removing(Tail(todo), e, bs)
<1> DEFINE rest == Tail(todo)
           first == todo[1]
<1>1. /\ Len(todo) \in Nat /\ Len(todo) >= 1 /\ Len(rest) = Len(todo) - 1
      /\ \A i \in 1..Len(rest) : i + 1 \in 1..Len(todo) /\ rest[i] = todo[i + 1]
      /\ 1 \in 1..Len(todo)
  BY TailIs
<1>2. /\ first.step = "write" /\ d.metadata # None /\ Settled(d, bs)
      /\ first.file = "env" => first.content.settings = None
      /\ first.file = "unit" => first.content = "any"
      /\ first.file = "metadata" =>
            /\ Len(todo) = 1 /\ first.content = None
            /\ d.env.settings = None /\ d.unit = "any"
  <2>1. first.step = "write" /\ d.metadata # None /\ Settled(d, bs) BY DEF Removing
  <2>2. /\ Writes(first, {"env"}) => first.content.settings = None
        /\ Writes(first, {"unit"}) => first.content = "any"
        /\ Writes(first, {"metadata"}) =>
            /\ 1 = Len(todo) /\ first.content = None
            /\ \/ d.env.settings = None
               \/ \E j \in 1..Len(todo) : j < 1 /\ Writes(todo[j], {"env"})
            /\ \/ d.unit = "any"
               \/ \E j \in 1..Len(todo) : j < 1 /\ Writes(todo[j], {"unit"})
    BY <1>1 DEF Removing
  <2>3. \A j \in 1..Len(todo) : ~(j < 1) BY <1>1
  <2>4. \A file : Writes(first, {file}) <=> first.file = file BY <2>1 DEF Writes
  <2> QED BY <2>1, <2>2, <2>3, <2>4
<1>3. /\ e.env = IF first.file = "env" THEN first.content ELSE d.env
      /\ e.unit = IF first.file = "unit" THEN first.content ELSE d.unit
      /\ e.metadata = IF first.file = "metadata" THEN first.content ELSE d.metadata
  BY DEF Https!Files
<1> HIDE DEF rest
<1>4. Settled(e, bs) /\ (rest # <<>> => e.metadata # None)
  <2>1. rest # <<>> => Len(todo) # 1 BY <1>1 DEF rest
  <2> QED BY <1>2, <1>3, <2>1 DEF Settled
<1>5. ASSUME NEW i \in 1..Len(rest), NEW file,
             \E j \in 1..Len(todo) : j < i + 1 /\ Writes(todo[j], {file})
      PROVE  \/ first.file = file
             \/ \E j \in 1..Len(rest) : j < i /\ Writes(rest[j], {file})
  <2>1. PICK j \in 1..Len(todo) : j < i + 1 /\ Writes(todo[j], {file}) BY <1>5
  <2>2. CASE j = 1 BY <2>1, <2>2 DEF Writes
  <2>3. CASE j # 1
    <3>1. j - 1 \in 1..Len(rest) /\ j - 1 < i /\ rest[j - 1] = todo[j] BY <1>1, <2>1, <2>3
    <3> QED BY <2>1, <3>1
  <2> QED BY <2>2, <2>3
<1>6. d.env.settings = None \/ first.file = "env" => e.env.settings = None BY <1>2, <1>3
<1>7. d.unit = "any" \/ first.file = "unit" => e.unit = "any" BY <1>2, <1>3
<1> HIDE DEF first
<1>8. ASSUME NEW i \in 1..Len(rest)
      PROVE  /\ rest[i].step # "describe"
             /\ Writes(rest[i], {"env"}) => rest[i].content.settings = None
             /\ Writes(rest[i], {"unit"}) => rest[i].content = "any"
             /\ Writes(rest[i], {"metadata"}) =>
                /\ i = Len(rest) /\ rest[i].content = None
                /\ \/ e.env.settings = None
                   \/ \E j \in 1..Len(rest) : j < i /\ Writes(rest[j], {"env"})
                /\ \/ e.unit = "any"
                   \/ \E j \in 1..Len(rest) : j < i /\ Writes(rest[j], {"unit"})
  <2>1. i + 1 \in 1..Len(todo) /\ rest[i] = todo[i + 1] BY <1>1
  <2>2. /\ rest[i].step # "describe"
        /\ Writes(rest[i], {"env"}) => rest[i].content.settings = None
        /\ Writes(rest[i], {"unit"}) => rest[i].content = "any"
        /\ Writes(rest[i], {"metadata"}) =>
            /\ i + 1 = Len(todo) /\ rest[i].content = None
            /\ \/ d.env.settings = None
               \/ \E j \in 1..Len(todo) : j < i + 1 /\ Writes(todo[j], {"env"})
            /\ \/ d.unit = "any"
               \/ \E j \in 1..Len(todo) : j < i + 1 /\ Writes(todo[j], {"unit"})
    BY <2>1 DEF Removing
  <2>3. i + 1 = Len(todo) => i = Len(rest) BY <1>1, <2>1
  <2>4. (\E j \in 1..Len(todo) : j < i + 1 /\ Writes(todo[j], {"env"})) =>
            \/ first.file = "env"
            \/ \E j \in 1..Len(rest) : j < i /\ Writes(rest[j], {"env"})
    BY <1>5
  <2>5. (\E j \in 1..Len(todo) : j < i + 1 /\ Writes(todo[j], {"unit"})) =>
            \/ first.file = "unit"
            \/ \E j \in 1..Len(rest) : j < i /\ Writes(rest[j], {"unit"})
    BY <1>5
  <2> QED BY ONLY <1>6, <1>7, <2>2, <2>3, <2>4, <2>5
<1>9. Removing(rest, e, bs) BY <1>4, <1>8 DEF Removing
<1> QED BY <1>9 DEF rest

LEMMA SettledSame ==
    ASSUME NEW d, NEW e, NEW bs, Settled(e, bs), \A f \in Https!Files : SameButEdits(d, e, f)
    PROVE  Settled(d, bs)
<1>1. /\ d.env.settings = e.env.settings /\ (d.nginx = None <=> e.nginx = None)
      /\ d.unit = e.unit /\ d.hook = e.hook /\ d.metadata = e.metadata
  BY DEF SameButEdits, Https!Files
<1> QED BY <1>1 DEF Settled

LEMMA SettledFor ==
    ASSUME NEW d, NEW bs, NEW cs, Settled(d, bs),
           d.metadata # None => bs[d.metadata.prior].saved = cs[d.metadata.prior].saved
    PROVE  Settled(d, cs)
BY DEF Settled

LEMMA RemovingFor ==
    ASSUME NEW todo, NEW d, NEW e, NEW bs, NEW cs, Removing(todo, d, bs), Settled(e, cs),
           d.metadata # None => e.metadata # None,
           e.env.settings = d.env.settings, e.unit = d.unit
    PROVE  Removing(todo, e, cs)
<1>1. Settled(e, cs) /\ (todo # <<>> => e.metadata # None) BY DEF Removing
<1>2. ASSUME NEW i \in 1..Len(todo)
      PROVE  /\ todo[i].step # "describe"
             /\ Writes(todo[i], {"env"}) => todo[i].content.settings = None
             /\ Writes(todo[i], {"unit"}) => todo[i].content = "any"
             /\ Writes(todo[i], {"metadata"}) =>
                /\ i = Len(todo) /\ todo[i].content = None
                /\ \/ e.env.settings = None
                   \/ \E j \in 1..Len(todo) : j < i /\ Writes(todo[j], {"env"})
                /\ \/ e.unit = "any"
                   \/ \E j \in 1..Len(todo) : j < i /\ Writes(todo[j], {"unit"})
  BY DEF Removing
<1> QED BY <1>1, <1>2 DEF Removing

LEMMA InitSettled == ASSUME Https!BoundsAssumption, Https!Init PROVE SettledInv
<1>1. UndoableInv BY InitUndoable
<1>2. Newest = 0 /\ run.mode = "idle" /\ torn = {} BY DEF Https!Init, Newest, Https!AtRest
<1>3. Settled(disk, backups) /\ AppServed /\ WebServed
  BY DEF Https!Init, Settled, AppServed, WebServed
<1> QED BY <1>1, <1>2, <1>3
        DEF SettledInv, NewestKnows, UndoneInOrder, Restarts, Quiet, Programs, Https!Doing,
            Https!Undoing

-----------------------------------------------------------------------------
\* The three programs.

LEMMA SetupFollows ==
    ASSUME NEW h, NEW text
    PROVE  /\ RestartsFollow(Https!SetupProgram(h, text))
           /\ \A d : d.env.settings = None => Setting(Https!SetupProgram(h, text), d)
<1> DEFINE p == Https!SetupProgram(h, text)
<1>1. /\ Len(p) = 9 /\ p # <<>>
      /\ p[1].file = "nginx" /\ p[3].file = "nginx" /\ p[4].file = "hook"
      /\ p[5].file = "env" /\ p[6].file = "unit"
      /\ p[2].step = "nginx" /\ p[7].step = "app" /\ p[8].step = "nginx"
      /\ p[9].step = "describe"
  BY DEF Https!SetupProgram, Https!Write, Https!Restart, Https!Activate
<1> HIDE DEF p
<1>2. ASSUME NEW i \in 1..Len(p)
      PROVE  /\ Writes(p[i], {"env", "unit"}) => i < 7
             /\ Writes(p[i], {"nginx"}) => i < 8
  <2>1. i \in {1, 2, 3, 4, 5, 6, 7, 8, 9} BY <1>1
  <2> QED BY <1>1, <2>1 DEF Writes
<1>3. 7 \in 1..Len(p) /\ 8 \in 1..Len(p) BY <1>1
<1>4. RestartsFollow(p) BY <1>1, <1>2, <1>3 DEF RestartsFollow
<1>5. \A d : d.env.settings = None => Setting(p, d) BY <1>1 DEF Setting
<1> QED BY <1>4, <1>5 DEF p

LEMMA DisableFollows ==
    ASSUME NEW s, NEW text \in Https!Env
    PROVE  /\ RestartsFollow(Https!DisableProgram(text, s))
           /\ \A d, bs : s = None /\ Settled(d, bs) /\ d.metadata # None =>
                Removing(Https!DisableProgram(text, s), d, bs)
<1> DEFINE p == Https!DisableProgram(text, s)
<1>1. /\ Len(p) = 7 /\ p # <<>>
      /\ p[1].file = "nginx" /\ p[2].file = "hook" /\ p[3].file = "env" /\ p[4].file = "unit"
      /\ p[7].file = "metadata" /\ p[7].content = None
      /\ p[1].step = "write" /\ p[2].step = "write" /\ p[3].step = "write" /\ p[4].step = "write"
      /\ p[5].step = "app" /\ p[6].step = "nginx" /\ p[7].step = "write"
      /\ s = None => p[3].content.settings = None /\ p[4].content = "any"
  BY DEF Https!DisableProgram, Https!Write, Https!Restart, Https!Activate, Https!EditEnv,
     Https!ServiceUnit, Https!Env
<1> HIDE DEF p
<1>2. ASSUME NEW i \in 1..Len(p)
      PROVE  /\ Writes(p[i], {"env", "unit"}) => i < 5
             /\ Writes(p[i], {"nginx"}) => i < 6
             /\ p[i].step # "describe"
             /\ Writes(p[i], {"env"}) => i = 3
             /\ Writes(p[i], {"unit"}) => i = 4
             /\ Writes(p[i], {"metadata"}) => i = 7
  <2>1. i \in {1, 2, 3, 4, 5, 6, 7} BY <1>1
  <2> QED BY <1>1, <2>1 DEF Writes
<1>3. /\ 3 \in 1..Len(p) /\ 4 \in 1..Len(p) /\ 5 \in 1..Len(p) /\ 6 \in 1..Len(p)
      /\ Writes(p[3], {"env"}) /\ Writes(p[4], {"unit"})
  BY <1>1 DEF Writes
<1>4. RestartsFollow(p) BY <1>1, <1>2, <1>3 DEF RestartsFollow
<1>5. ASSUME NEW d, NEW bs, s = None, Settled(d, bs), d.metadata # None
      PROVE  Removing(p, d, bs)
  <2>1. ASSUME NEW i \in 1..Len(p)
        PROVE  /\ p[i].step # "describe"
               /\ Writes(p[i], {"env"}) => p[i].content.settings = None
               /\ Writes(p[i], {"unit"}) => p[i].content = "any"
               /\ Writes(p[i], {"metadata"}) =>
                    /\ i = Len(p) /\ p[i].content = None
                    /\ \E j \in 1..Len(p) : j < i /\ Writes(p[j], {"env"})
                    /\ \E j \in 1..Len(p) : j < i /\ Writes(p[j], {"unit"})
    BY <1>1, <1>2, <1>3, <1>5
  <2> QED BY <1>5, <2>1 DEF Removing
<1> QED BY <1>4, <1>5 DEF p

LEMMA DetachFollows ==
    /\ RestartsFollow(Https!DetachProgram)
    /\ \A d, bs : Settled(d, bs) /\ d.metadata # None => Removing(Https!DetachProgram, d, bs)
<1> DEFINE p == Https!DetachProgram
<1>1. /\ Len(p) = 3 /\ p[1].file = "nginx" /\ p[2].file = "hook" /\ p[3].step = "nginx"
      /\ p[1].step = "write" /\ p[2].step = "write"
  BY DEF Https!DetachProgram, Https!Write, Https!Activate
<1> HIDE DEF p
<1>2. ASSUME NEW i \in 1..Len(p)
      PROVE  /\ ~Writes(p[i], {"env", "unit"}) /\ (Writes(p[i], {"nginx"}) => i < 3)
             /\ p[i].step # "describe" /\ ~Writes(p[i], {"env"}) /\ ~Writes(p[i], {"unit"})
             /\ ~Writes(p[i], {"metadata"})
  <2>1. i \in {1, 2, 3} BY <1>1
  <2> QED BY <1>1, <2>1 DEF Writes
<1>3. 3 \in 1..Len(p) BY <1>1
<1>4. RestartsFollow(p) BY <1>1, <1>2, <1>3 DEF RestartsFollow
<1>5. \A d, bs : Settled(d, bs) /\ d.metadata # None => Removing(p, d, bs)
  BY <1>2 DEF Removing
<1> QED BY <1>4, <1>5 DEF p

LEMMA StartKeepsSettled ==
    ASSUME SettledInv, NEW program \in Seq(ProgramSteps), Https!Start(program),
           RestartsFollow(program),
           torn = {} => Setting(program, disk) \/ Removing(program, disk, backups)
    PROVE  SettledInv'
<1>1. /\ run' = [mode |-> "start", todo |-> program] /\ run.mode = "idle"
      /\ UNCHANGED <<disk, app, web, backups, edits, faults, foreign, torn>>
  BY DEF Https!Start, Https!Idle, Https!AtRest, Https!services, Https!history
<1>2. UndoableInv' BY StartKeepsUndoable DEF SettledInv
<1>3. NewestKnows'
  BY <1>1 DEF SettledInv, NewestKnows, Newest, Settled, SameButEdits, Https!Selected, AppServed,
     WebServed
<1>4. Quiet' BY <1>1 DEF SettledInv, Quiet, Settled, AppServed, WebServed
<1>5. Restarts' BY <1>1 DEF Restarts, RestartsFollow
<1>6. Programs'
  <2>1. ~Https!Doing' BY <1>1 DEF Https!Doing
  <2>2. torn' = {} => Setting(run'.todo, disk') \/ Removing(run'.todo, disk', backups')
    BY <1>1
  <2> QED BY <2>1, <2>2 DEF Programs
<1>7. UndoneInOrder' BY <1>1 DEF UndoneInOrder, Https!Undoing
<1> QED BY <1>2, <1>3, <1>4, <1>5, <1>6, <1>7 DEF SettledInv

LEMMA StartsKeepSettled ==
    ASSUME Https!BoundsAssumption, SettledInv, (\E h \in Hosts : Https!Setup(h))
           \/ Https!Disable \/ Https!Detach
    PROVE  SettledInv'
<1>1. HttpsTypes /\ disk.env \in Https!Env BY DEF SettledInv, UndoableInv, HttpsTypes, Https!Disk
<1>2. Https!Idle => run.mode = "idle" BY DEF Https!Idle, Https!AtRest
<1>3. ASSUME NEW h \in Hosts, Https!Setup(h) PROVE SettledInv'
  <2>1. Https!SetupProgram(h, disk.env) \in Seq(ProgramSteps) BY <1>1, ProgramsAre
  <2>2. torn = {} => disk.env.settings = None
    BY <1>2, <1>3 DEF Https!Setup, Https!Start, SettledInv, Quiet, Settled
  <2>3. /\ RestartsFollow(Https!SetupProgram(h, disk.env))
        /\ torn = {} => Setting(Https!SetupProgram(h, disk.env), disk)
    BY <2>2, SetupFollows
  <2> QED BY <1>3, <2>1, <2>3, StartKeepsSettled DEF Https!Setup
<1>4. CASE Https!Disable
  <2> DEFINE s == backups[disk.metadata.prior].saved.env.settings
  <2>1. disk.metadata.prior \in 1..Newest BY <1>1, <1>4 DEF Https!Disable, HttpsTypes, Refers
  <2>2. backups[disk.metadata.prior] \in Backup BY <1>1, <2>1 DEF HttpsTypes, Newest
  <2>3. s \in Hosts \cup {None} BY <2>2 DEF Backup, Https!Disk, Https!Env
  <2>4. Https!DisableProgram(disk.env, s) \in Seq(ProgramSteps) BY <1>1, <2>3, ProgramsAre
  <2>5. /\ disk.metadata # None /\ Https!Start(Https!DisableProgram(disk.env, s))
        /\ torn = {} => Settled(disk, backups) /\ s = None
    BY <1>2, <1>4 DEF Https!Disable, Https!Start, SettledInv, Quiet, Settled
  <2> HIDE DEF s
  <2>6. /\ RestartsFollow(Https!DisableProgram(disk.env, s))
        /\ torn = {} => Removing(Https!DisableProgram(disk.env, s), disk, backups)
    BY <1>1, <2>5, DisableFollows
  <2> QED BY <2>4, <2>5, <2>6, StartKeepsSettled
<1>5. CASE Https!Detach
  <2>1. Https!DetachProgram \in Seq(ProgramSteps) BY <1>1, ProgramsAre
  <2>2. /\ disk.metadata # None /\ Https!Start(Https!DetachProgram)
        /\ torn = {} => Settled(disk, backups)
    BY <1>2, <1>5 DEF Https!Detach, Https!Start, SettledInv, Quiet
  <2> QED BY <2>1, <2>2, DetachFollows, StartKeepsSettled
<1> QED BY <1>3, <1>4, <1>5

LEMMA SnapshotKeepsSettled ==
    ASSUME Https!BoundsAssumption, SettledInv, Https!Snapshot
    PROVE  SettledInv'
<1>1. /\ HttpsTypes /\ run.mode = "start" /\ backups' = Append(backups, Https!NewBackup)
      /\ UNCHANGED <<disk, app, web, torn>>
  BY DEF SettledInv, UndoableInv, Https!Snapshot, Https!services
<1>2. UndoableInv' BY SnapshotKeepsUndoable DEF SettledInv
<1>3. /\ Newest \in Nat /\ Newest' = Newest + 1
      /\ \A b \in 1..Newest : backups'[b] = backups[b]
      /\ backups'[Newest + 1] = Https!NewBackup /\ Https!NewBackup.saved = disk
  <2>1. Https!NewBackup \in Backup /\ Https!NewBackup.saved = disk
    BY <1>1 DEF Https!NewBackup, Backup, HttpsTypes, Https!Journal
  <2> QED BY <1>1, <2>1 DEF HttpsTypes, Newest
<1>4. disk.metadata # None =>
        backups'[disk.metadata.prior].saved = backups[disk.metadata.prior].saved
  BY <1>1, <1>3 DEF HttpsTypes, Refers
<1>5. torn = {} => Settled(disk, backups) /\ AppServed /\ WebServed
  BY <1>1 DEF SettledInv, Quiet
<1>6. torn = {} => Settled(disk', backups') BY <1>1, <1>4, <1>5 DEF Settled
<1>7. torn \subseteq {Newest'} => torn = {}
  BY <1>1, <1>3 DEF HttpsTypes, Https!Crossed
<1>8. NewestKnows'
  <2>1. backups'[Newest'].saved = disk BY <1>3
  <2>2. \A f \in Https!Files : SameButEdits(disk', disk, f) BY <1>1 DEF SameButEdits, Https!Files
  <2>3. torn = {} => AppServed' /\ WebServed' BY <1>1, <1>5 DEF AppServed, WebServed
  <2>4. torn' \subseteq {Newest'} => Settled(backups'[Newest'].saved, backups')
    BY <1>1, <1>6, <1>7, <2>1
  <2> QED BY <1>1, <1>7, <2>1, <2>2, <2>3, <2>4 DEF NewestKnows
<1>9. \/ run' = Https!AtRest
      \/ run' = [mode |-> "do", folder |-> Newest + 1, todo |-> run.todo, intent |-> FALSE]
  BY DEF Https!Snapshot, Newest
<1>10. UndoneInOrder' BY <1>9 DEF UndoneInOrder, Https!Undoing, Https!AtRest
<1>11. Restarts'
  <2>1. RestartsFollow(run.todo) BY <1>1 DEF SettledInv, Restarts
  <2>2. run'.mode \in {"start", "do"} => run'.todo = run.todo BY <1>9 DEF Https!AtRest
  <2>3. run'.mode \in {"start", "do"} => RestartsFollow(run'.todo) BY <2>1, <2>2
  <2> QED BY <2>3 DEF Restarts
<1>12. Quiet'
  <2>1. torn' = {} => Settled(disk', backups') BY <1>1, <1>6
  <2>2. torn' = {} => AppServed' /\ WebServed' BY <1>1, <1>5 DEF AppServed, WebServed
  <2> QED BY <2>1, <2>2 DEF Quiet
<1>13. Programs'
  <2>1. CASE torn = {} /\ run' # Https!AtRest
    <3>1. /\ run'.mode = "do" /\ run'.folder = Newest + 1 /\ run'.todo = run.todo
      BY <1>9, <2>1
    <3>2. AppServed' /\ WebServed' BY <1>1, <1>5, <2>1 DEF AppServed, WebServed
    <3>3. Setting(run.todo, disk) \/ Removing(run.todo, disk, backups)
      BY <1>1, <2>1 DEF SettledInv, Programs
    <3>4. Removing(run.todo, disk, backups) => Removing(run.todo, disk', backups')
      BY <1>1, <1>6, <2>1 DEF Removing
    <3>5. backups'[run'.folder].saved = disk BY <1>3, <3>1
    <3>6. \/ Setting(run'.todo, backups'[run'.folder].saved)
          \/ Removing(run'.todo, disk', backups')
      BY <3>1, <3>3, <3>4, <3>5
    <3> QED BY <3>1, <3>2, <3>6 DEF Programs
  <2>2. CASE run' = Https!AtRest BY <2>2 DEF Programs, Https!Doing, Https!AtRest
  <2>3. CASE torn # {} BY <1>1, <2>3 DEF Programs
  <2> QED BY <2>1, <2>2, <2>3
<1> QED BY <1>2, <1>8, <1>10, <1>11, <1>12, <1>13 DEF SettledInv

LEMMA NoteKeepsSettled ==
    ASSUME SettledInv, Https!Note
    PROVE  SettledInv'
<1>1. /\ HttpsTypes /\ Https!Writing /\ Https!Doing
      /\ backups' = Https!Noted(run.folder, Https!Target, Https!Content)
         /\ run' = [run EXCEPT !.intent = TRUE]
      /\ UNCHANGED <<disk, app, web, edits, faults, foreign, torn>>
  BY DEF SettledInv, UndoableInv, Https!Note, Https!Writing, Https!services, Https!history
<1>2. UndoableInv' BY NoteKeepsUndoable DEF SettledInv
<1>3. /\ run \in [mode: {"do"}, folder: {Newest}, todo: Seq(ProgramSteps), intent: BOOLEAN]
      /\ run.folder = Newest /\ run.folder \in 1..Newest
  BY <1>1, RunIs
<1>4. /\ Newest' = Newest
      /\ \A b \in 1..Newest : backups'[b].saved = backups[b].saved
      /\ \A b \in 1..Newest,
         f \in Https!Files : backups[b].written[f] \subseteq backups'[b].written[f]
  <2>1. backups \in Seq(Backup) BY <1>1 DEF HttpsTypes
  <2>2. Newest' = Len(backups') BY DEF Newest
  <2>3. PICK b \in 1..Newest : b = run.folder BY <1>3
  <2>4. PICK f \in Https!Files : f = Https!Target BY <1>1, ContentIs
  <2>5. PICK c \in Contents(f) : c = Https!Content BY <1>1, <2>4, ContentIs
  <2>6. Len(Https!Noted(b, f, c)) = Newest BY <2>1, JournalNotes
  <2>7. \A a \in 1..Newest : Https!Noted(b, f, c)[a].saved = backups[a].saved
    BY <2>1, JournalNotes
  <2>8. \A a \in 1..Newest, g \in Https!Files :
           a # b \/ g # f => Https!Noted(b, f, c)[a].written[g] = backups[a].written[g]
    BY <2>1, JournalNotes
  <2>9. Https!Noted(b, f, c)[b].written[f] = backups[b].written[f] \cup {c} BY <2>1, JournalNotes
  <2> QED BY <1>1, <2>2, <2>3, <2>4, <2>5, <2>6, <2>7, <2>8, <2>9
<1>5. run'.mode = "do" /\ run'.folder = run.folder /\ run'.todo = run.todo BY <1>1, <1>3
<1>6. \A d : (d.metadata # None => d.metadata.prior \in 1..Newest) /\ Settled(d, backups) =>
                Settled(d, backups')
  BY <1>4 DEF Settled
<1>7. NewestKnows'
  <2>1. CASE Newest >= 1 /\ torn \subseteq {Newest}
    <3>1. /\ Settled(backups[Newest].saved, backups)
          /\ \A f \in Https!Files \ Https!Selected(Newest) :
                 SameButEdits(disk, backups[Newest].saved, f)
          /\ {"env", "unit"} \cap Https!Selected(Newest) = {} => AppServed
          /\ "nginx" \notin Https!Selected(Newest) => WebServed
      BY <2>1 DEF SettledInv, NewestKnows
    <3>2. backups'[Newest].saved = backups[Newest].saved BY <1>3, <1>4
    <3>3. Refers(backups[Newest].saved) BY <1>1, <1>3 DEF HttpsTypes
    <3>4. Settled(backups'[Newest].saved, backups') BY <1>6, <3>1, <3>2, <3>3 DEF Refers
    <3>5. Https!Selected(Newest) \subseteq Https!Selected(Newest)'
      BY <1>3, <1>4 DEF Https!Selected
    <3>6. \A f \in Https!Files \ Https!Selected(Newest)' :
              SameButEdits(disk', backups'[Newest].saved, f)
      BY <1>1, <3>1, <3>2, <3>5
    <3>7. AppServed' = AppServed /\ WebServed' = WebServed BY <1>1 DEF AppServed, WebServed
    <3> QED BY <1>1, <1>4, <3>1, <3>4, <3>5, <3>6, <3>7 DEF NewestKnows
  <2> QED BY <1>1, <1>4, <2>1 DEF NewestKnows
<1>8. UndoneInOrder' /\ Quiet' BY <1>5 DEF UndoneInOrder, Https!Undoing, Quiet
<1>9. Restarts' BY <1>1, <1>5 DEF SettledInv, Restarts, RestartsFollow, Https!Doing
<1>10. Programs'
  <2>1. CASE torn = {}
    <3>1. /\ AppServed \/ SomeStep(run.todo, "app")
          /\ WebServed \/ SomeStep(run.todo, "nginx")
          /\ Setting(run.todo, backups[run.folder].saved) \/ Removing(run.todo, disk, backups)
      BY <1>1, <2>1 DEF SettledInv, Programs
    <3>2. AppServed' = AppServed /\ WebServed' = WebServed BY <1>1 DEF AppServed, WebServed
    <3>3. backups'[run.folder].saved = backups[run.folder].saved BY <1>3, <1>4
    <3>4. Removing(run.todo, disk, backups) => Removing(run.todo, disk, backups')
      BY <1>1, <1>6 DEF Removing, HttpsTypes, Refers
    <3> QED BY <1>1, <1>5, <3>1, <3>2, <3>3, <3>4 DEF Programs, SomeStep
  <2> QED BY <1>1, <2>1 DEF Programs
<1> QED BY <1>2, <1>7, <1>8, <1>9, <1>10 DEF SettledInv

\* A file that is replaced belongs to the newest transaction, so what it did not
\* touch is still as it was.
LEMMA PutKnows ==
    ASSUME SettledInv, Newest >= 1, NEW f \in Https!Selected(Newest),
           \A g \in Https!Files : g # f => disk'[g] = disk[g],
           UNCHANGED <<app, web, backups, torn>>
    PROVE  /\ NewestKnows'
           /\ f \notin {"env", "unit"} => AppServed' = AppServed
           /\ f # "nginx" => WebServed' = WebServed
<1>1. /\ f # "env" => disk'.env = disk.env /\ disk'["env"] = disk["env"]
      /\ f # "unit" => disk'.unit = disk.unit /\ disk'["unit"] = disk["unit"]
      /\ f # "nginx" => disk'.nginx = disk.nginx /\ disk'["nginx"] = disk["nginx"]
      /\ f # "hook" => disk'.hook = disk.hook /\ disk'["hook"] = disk["hook"]
      /\ f # "metadata" => disk'.metadata = disk.metadata /\ disk'["metadata"] = disk["metadata"]
  BY DEF Https!Files
<1>2. f \notin {"env", "unit"} => AppServed' = AppServed BY <1>1 DEF AppServed
<1>3. f # "nginx" => WebServed' = WebServed BY <1>1 DEF WebServed
<1>4. Newest' = Newest /\ Https!Selected(Newest)' = Https!Selected(Newest)
  BY DEF Newest, Https!Selected
<1>5. CASE torn \subseteq {Newest}
  <2>1. /\ Settled(backups[Newest].saved, backups)
        /\ \A g \in Https!Files \ Https!Selected(Newest) :
               SameButEdits(disk, backups[Newest].saved, g)
        /\ {"env", "unit"} \cap Https!Selected(Newest) = {} => AppServed
        /\ "nginx" \notin Https!Selected(Newest) => WebServed
    BY <1>5 DEF SettledInv, NewestKnows
  <2>2. ASSUME NEW g \in Https!Files \ Https!Selected(Newest)
        PROVE  SameButEdits(disk', backups[Newest].saved, g)
    <3>1. SameButEdits(disk, backups[Newest].saved, g) /\ g # f BY <2>1
    <3> QED BY <1>1, <3>1 DEF SameButEdits, Https!Files
  <2> QED BY <1>2, <1>3, <1>4, <2>1, <2>2 DEF NewestKnows
<1>6. CASE ~(torn \subseteq {Newest})
  <2>1. ~(torn' \subseteq {Newest'}) BY <1>4, <1>6
  <2> QED BY <1>2, <1>3, <2>1 DEF NewestKnows
<1> QED BY <1>2, <1>3, <1>5, <1>6

\* What a write of a program does to the disk.
LEMMA WriteIs ==
    ASSUME SettledInv, Https!Writing, run.intent,
           disk' = [disk EXCEPT ![Https!Target] = Https!Content],
           UNCHANGED backups
    PROVE  /\ Newest >= 1 /\ run.folder = Newest /\ disk \in Https!Disk /\ disk' \in Https!Disk
           /\ Https!Target \in Https!Selected(Newest) /\ Https!Content \in Contents(Https!Target)
           /\ \A g \in Https!Files : disk'[g] = IF g = Https!Target THEN Https!Content ELSE disk[g]
<1>1. HttpsTypes /\ Intents /\ Https!Doing BY DEF SettledInv, UndoableInv, Https!Writing
<1>2. Newest >= 1 /\ run.folder = Newest BY <1>1, RunIs DEF HttpsTypes, Https!Doing
<1>3. PICK f \in Https!Files : f = Https!Target BY <1>1, ContentIs
<1>4. PICK c \in Contents(f) : c = Https!Content BY <1>1, <1>3, ContentIs
<1>5. c \in backups[Newest].written[f] BY <1>1, <1>2, <1>3, <1>4 DEF Intents
<1>6. f \in Https!Selected(Newest) BY <1>3, <1>5 DEF Https!Selected
<1>7. PICK d \in Https!Disk : d = disk BY <1>1 DEF HttpsTypes
<1>8. /\ [d EXCEPT ![f] = c] \in Https!Disk
      /\ \A g \in Https!Files : [d EXCEPT ![f] = c][g] = IF g = f THEN c ELSE d[g]
  BY FilePut
<1> QED BY <1>2, <1>3, <1>4, <1>6, <1>7, <1>8

LEMMA FailKeepsSettled ==
    ASSUME Https!BoundsAssumption, SettledInv, Https!Fail
    PROVE  SettledInv'
<1>1. /\ Https!Doing /\ run' = [mode |-> "failed", folder |-> run.folder]
      /\ disk' = disk
         \/ (Https!Writing /\ run.intent /\ disk' = [disk EXCEPT ![Https!Target] = Https!Content])
      /\ UNCHANGED <<app, web, backups, torn>>
  BY DEF Https!Fail, Https!services
<1>2. UndoableInv' BY FailKeepsUndoable DEF SettledInv
<1>3. NewestKnows'
  <2>1. CASE disk' = disk
    BY <1>1, <2>1 DEF SettledInv, NewestKnows, Newest, Settled, SameButEdits, Https!Selected,
                      AppServed, WebServed
  <2>2. CASE Https!Writing /\ run.intent /\ disk' = [disk EXCEPT ![Https!Target] = Https!Content]
    <3>1. /\ Newest >= 1 /\ Https!Target \in Https!Selected(Newest)
          /\ \A g \in Https!Files : g # Https!Target => disk'[g] = disk[g]
      BY <1>1, <2>2, WriteIs
    <3>2. PICK f \in Https!Selected(Newest) : f = Https!Target BY <3>1
    <3>3. \A g \in Https!Files : g # f => disk'[g] = disk[g] BY <3>1, <3>2
    <3> QED BY <1>1, <3>1, <3>3, PutKnows
  <2> QED BY <1>1, <2>1, <2>2
<1> QED BY <1>1, <1>2, <1>3
        DEF SettledInv, UndoneInOrder, Restarts, Quiet, Programs, Https!Doing, Https!Undoing

LEMMA PublishKeepsSettled ==
    ASSUME Https!NamesAssumption, SettledInv, Https!Publish
    PROVE  SettledInv'
<1>1. /\ HttpsTypes /\ Https!Writing /\ Https!Doing /\ run.intent
      /\ disk' = [disk EXCEPT ![Https!Target] = Https!Content]
      /\ run' = [run EXCEPT !.todo = Tail(run.todo), !.intent = FALSE]
      /\ UNCHANGED <<app, web, backups, edits, faults, foreign, torn>>
  BY DEF SettledInv, UndoableInv, Https!Publish, Https!Proceed, Https!Writing, Https!services,
     Https!history
<1>2. UndoableInv' BY PublishKeepsUndoable DEF SettledInv
<1>3. /\ Newest >= 1 /\ run.folder = Newest /\ disk \in Https!Disk /\ disk' \in Https!Disk
      /\ Https!Target \in Https!Selected(Newest) /\ Https!Content \in Contents(Https!Target)
      /\ \A g \in Https!Files : disk'[g] = IF g = Https!Target THEN Https!Content ELSE disk[g]
  BY <1>1, WriteIs
<1>4. PICK f \in Https!Selected(Newest) : f = Https!Target BY <1>3
<1>5. \A g \in Https!Files : g # f => disk'[g] = disk[g] BY <1>3, <1>4
<1>6. /\ NewestKnows'
      /\ f \notin {"env", "unit"} => AppServed' = AppServed
      /\ f # "nginx" => WebServed' = WebServed
  BY <1>1, <1>3, <1>5, PutKnows
<1>7. /\ run \in [mode: {"do"}, folder: {Newest}, todo: Seq(ProgramSteps), intent: BOOLEAN]
      /\ run.todo \in Seq(ProgramSteps) /\ run.todo # <<>>
      /\ Head(run.todo).step \in {"write", "describe"}
  BY <1>1, RunIs DEF Https!Writing
<1>8. run'.mode = "do" /\ run'.folder = run.folder /\ run'.todo = Tail(run.todo) BY <1>1, <1>7
<1>9. PICK todo \in Seq(ProgramSteps) : todo = run.todo BY <1>7
<1>10. /\ todo # <<>> /\ todo[1].step \in {"write", "describe"} /\ Head(todo) = todo[1]
       /\ Len(Tail(todo)) = Len(todo) - 1 /\ Len(todo) \in Nat
  BY <1>7, <1>9, TailIs
<1>11. /\ RestartsFollow(Tail(todo))
       /\ Writes(todo[1], {"env", "unit"}) => SomeStep(Tail(todo), "app")
       /\ Writes(todo[1], {"nginx"}) => SomeStep(Tail(todo), "nginx")
       /\ \A step \in {"app", "nginx"} :
            SomeStep(todo, step) /\ todo[1].step # step => SomeStep(Tail(todo), step)
  <2>1. RestartsFollow(todo) BY <1>1, <1>9 DEF SettledInv, Restarts, Https!Doing
  <2> QED BY <1>10, <2>1, RestartsGoOn
<1>12. Restarts'
  <2>1. run'.todo = Tail(todo) BY <1>8, <1>9
  <2>2. RestartsFollow(run'.todo) BY <1>11, <2>1
  <2> QED BY <2>2 DEF Restarts
<1>13. UndoneInOrder' /\ Quiet' BY <1>8 DEF UndoneInOrder, Https!Undoing, Quiet
<1>14. /\ todo[1].step = "write" => f = todo[1].file /\ Https!Content = todo[1].content
       /\ todo[1].step = "describe" =>
            f = "metadata" /\ Https!Content # None /\ Https!Content.prior = run.folder
  <2>1. todo[1].step = "write" => f = todo[1].file /\ Https!Content = todo[1].content
    BY <1>4, <1>9, <1>10 DEF Https!Target, Https!Content
  <2>2. todo[1].step = "describe" =>
            f = "metadata" /\ Https!Content = [host |-> Head(run.todo).host, nginx |-> disk.nginx,
                                         prior |-> run.folder]
    BY <1>4, <1>9, <1>10 DEF Https!Target, Https!Content
  <2>3. todo[1].step = "describe" => Head(run.todo).host \in Hosts
    <3>1. Head(todo) \in ProgramSteps BY <1>10
    <3> QED BY <1>9, <1>10, <3>1, StepIs
  <2>4. todo[1].step = "describe" => Https!Content \in Https!Metadata
    <3>1. disk.nginx \in Https!Nginx \cup {None} BY <1>3 DEF Https!Disk
    <3>2. run.folder \in 1..MaxBackups BY <1>1, <1>3, RunIs DEF HttpsTypes
    <3> QED BY <2>2, <2>3, <3>1, <3>2 DEF Https!Metadata
  <2> QED BY <2>1, <2>2, <2>4 DEF Https!NamesAssumption
<1>15. Programs'
  <2>1. CASE torn = {}
    <3>1. /\ AppServed \/ SomeStep(todo, "app")
          /\ WebServed \/ SomeStep(todo, "nginx")
          /\ Setting(todo, backups[Newest].saved) \/ Removing(todo, disk, backups)
      BY <1>1, <1>3, <1>9, <2>1 DEF SettledInv, Programs
    <3>2. AppServed' \/ SomeStep(Tail(todo), "app")
      BY <1>6, <1>10, <1>11, <1>14, <3>1 DEF Writes
    <3>3. WebServed' \/ SomeStep(Tail(todo), "nginx")
      BY <1>6, <1>10, <1>11, <1>14, <3>1 DEF Writes
    <3>4. ASSUME Setting(todo, backups[Newest].saved)
          PROVE  \/ Setting(Tail(todo), backups[Newest].saved)
                 \/ Removing(Tail(todo), disk', backups)
      <4>1. CASE todo[1].step # "describe" \/ Len(todo) # 1
        <5>1. PICK d \in Https!Disk : d = backups[Newest].saved
          <6>1. backups[Newest] \in Backup BY <1>1, <1>3 DEF HttpsTypes, Newest
          <6> QED BY <6>1 DEF Backup
        <5>2. Setting(todo, d) BY <3>4, <5>1
        <5>3. Setting(Tail(todo), d) BY <4>1, <5>2, SettingGoesOn
        <5> QED BY <5>1, <5>3
      <4>2. CASE todo[1].step = "describe" /\ Len(todo) = 1
        <5>1. Tail(todo) = <<>> /\ Len(Tail(todo)) = 0
          <6> DEFINE rest == Tail(todo)
          <6>1. rest \in Seq(ProgramSteps) /\ Len(rest) = 0 BY <1>10, <4>2, TailIs
          <6> HIDE DEF rest
          <6>2. rest = <<>> BY <6>1
          <6> QED BY <6>1, <6>2 DEF rest
        <5>2. disk'.metadata = Https!Content BY <1>3, <1>4, <1>14, <4>2 DEF Https!Files
        <5>3. Settled(disk', backups)
          BY <1>3, <1>14, <3>4, <4>2, <5>2 DEF Settled, Setting
        <5> QED BY <5>1, <5>3 DEF Removing
      <4> QED BY <1>10, <4>1, <4>2
    <3>5. ASSUME Removing(todo, disk, backups)
          PROVE  Removing(Tail(todo), disk', backups)
      <4>1. todo[1].step = "write"
        <5>1. 1 \in 1..Len(todo) BY <1>10
        <5> QED BY <1>10, <3>5, <5>1 DEF Removing
      <4>2. PICK d \in Https!Disk : d = disk BY <1>3
      <4>3. PICK e \in Https!Disk : e = disk' BY <1>3
      <4>4. \A g \in Https!Files : e[g] = IF g = todo[1].file THEN todo[1].content ELSE d[g]
        BY <1>3, <1>4, <1>14, <4>1, <4>2, <4>3
      <4>5. Removing(Tail(todo), e, backups) BY <1>10, <3>5, <4>1, <4>2, <4>4, RemovingWrites
      <4> QED BY <4>3, <4>5
    <3>6. \/ Setting(Tail(todo), backups[Newest].saved)
          \/ Removing(Tail(todo), disk', backups)
      BY <3>1, <3>4, <3>5
    <3>7. /\ run'.todo = Tail(todo) /\ run'.folder = Newest /\ backups' = backups
          /\ run'.mode = "do"
      BY <1>1, <1>3, <1>8, <1>9
    <3>8. \/ Setting(run'.todo, backups'[run'.folder].saved)
          \/ Removing(run'.todo, disk', backups')
      BY <3>6, <3>7
    <3>9. /\ AppServed' \/ SomeStep(run'.todo, "app")
          /\ WebServed' \/ SomeStep(run'.todo, "nginx")
      BY <3>2, <3>3, <3>7
    <3> QED BY <3>7, <3>8, <3>9 DEF Programs
  <2> QED BY <1>1, <2>1 DEF Programs
<1> QED BY <1>2, <1>6, <1>12, <1>13, <1>15 DEF SettledInv

LEMMA ServeKeepsSettled ==
    ASSUME SettledInv, Https!Serve
    PROVE  SettledInv'
<1>1. /\ HttpsTypes /\ Https!Doing /\ run.todo # <<>> /\ Head(run.todo).step \in {"app", "nginx"}
      /\ app' = IF Head(run.todo).step = "app" THEN <<disk.env, disk.unit>> ELSE app
      /\ web' = IF Head(run.todo).step = "nginx" THEN disk.nginx ELSE web
      /\ run' = [run EXCEPT !.todo = Tail(run.todo), !.intent = FALSE]
      /\ UNCHANGED <<disk, backups, torn>>
  BY DEF SettledInv, UndoableInv, Https!Serve, Https!Proceed, Https!history
<1>2. UndoableInv' BY ServeKeepsUndoable DEF SettledInv
<1>3. /\ run \in [mode: {"do"}, folder: {Newest}, todo: Seq(ProgramSteps), intent: BOOLEAN]
      /\ run.todo \in Seq(ProgramSteps)
  BY <1>1, RunIs
<1>4. run'.mode = "do" /\ run'.folder = run.folder /\ run'.todo = Tail(run.todo) BY <1>1, <1>3
<1>5. (AppServed => AppServed') /\ (WebServed => WebServed')
  BY <1>1 DEF AppServed, WebServed
<1>6. PICK todo \in Seq(ProgramSteps) : todo = run.todo BY <1>3
<1>7. todo # <<>> /\ todo[1].step \in {"app", "nginx"} /\ Head(todo) = todo[1]
  BY <1>1, <1>6, TailIs
<1>8. /\ RestartsFollow(Tail(todo))
      /\ \A step \in {"app", "nginx"} :
            SomeStep(todo, step) /\ todo[1].step # step => SomeStep(Tail(todo), step)
  <2>1. RestartsFollow(todo) BY <1>1, <1>6 DEF SettledInv, Restarts, Https!Doing
  <2> QED BY <1>7, <2>1, RestartsGoOn
<1>9. NewestKnows'
  <2>1. Newest' = Newest /\ Https!Selected(Newest)' = Https!Selected(Newest)
    BY <1>1 DEF Newest, Https!Selected
  <2> QED BY <1>1, <1>5, <2>1 DEF SettledInv, NewestKnows, Settled, SameButEdits
<1>10. UndoneInOrder' /\ Quiet' BY <1>4 DEF UndoneInOrder, Https!Undoing, Quiet
<1>11. Restarts'
  <2>1. run'.todo = Tail(todo) BY <1>4, <1>6
  <2>2. RestartsFollow(run'.todo) BY <1>8, <2>1
  <2> QED BY <2>2 DEF Restarts
<1>12. Programs'
  <2>1. CASE torn = {}
    <3>1. /\ AppServed \/ SomeStep(todo, "app")
          /\ WebServed \/ SomeStep(todo, "nginx")
          /\ Setting(todo, backups[run.folder].saved) \/ Removing(todo, disk, backups)
      BY <1>1, <1>6, <2>1 DEF SettledInv, Programs
    <3>2. todo[1].step = "app" => AppServed' BY <1>1, <1>6, <1>7 DEF AppServed
    <3>3. todo[1].step = "nginx" => WebServed' BY <1>1, <1>6, <1>7 DEF WebServed
    <3>4. AppServed' \/ SomeStep(Tail(todo), "app") BY <1>5, <1>8, <3>1, <3>2
    <3>5. WebServed' \/ SomeStep(Tail(todo), "nginx") BY <1>5, <1>8, <3>1, <3>3
    <3>6. ASSUME Setting(todo, backups[run.folder].saved)
          PROVE  Setting(Tail(todo), backups[run.folder].saved)
      <4>1. PICK d \in Https!Disk : d = backups[run.folder].saved
        <5>1. backups[run.folder] \in Backup BY <1>1, RunIs DEF HttpsTypes, Newest
        <5> QED BY <5>1 DEF Backup
      <4>2. Setting(todo, d) BY <3>6, <4>1
      <4>3. Setting(Tail(todo), d) BY <1>7, <4>2, SettingGoesOn
      <4> QED BY <4>1, <4>3
    <3>7. ASSUME Removing(todo, disk, backups) PROVE Removing(Tail(todo), disk, backups)
      <4>1. PICK d \in Https!Disk : d = disk BY <1>1 DEF HttpsTypes
      <4>2. PICK bs \in Seq(Backup) : bs = backups BY <1>1 DEF HttpsTypes
      <4>3. Removing(todo, d, bs) BY <3>7, <4>1, <4>2
      <4>4. Removing(Tail(todo), d, bs) BY <1>7, <4>3, RemovingServes
      <4> QED BY <4>1, <4>2, <4>4
    <3>8. /\ run'.todo = Tail(todo) /\ run'.folder = run.folder /\ backups' = backups
          /\ disk' = disk
      BY <1>1, <1>4, <1>6
    <3>9. \/ Setting(run'.todo, backups'[run'.folder].saved)
          \/ Removing(run'.todo, disk', backups')
      BY <3>1, <3>6, <3>7, <3>8
    <3>10. /\ AppServed' \/ SomeStep(run'.todo, "app")
           /\ WebServed' \/ SomeStep(run'.todo, "nginx")
      BY <3>4, <3>5, <3>8
    <3> QED BY <1>4, <3>9, <3>10 DEF Programs
  <2> QED BY <1>1, <2>1 DEF Programs
<1> QED BY <1>2, <1>9, <1>10, <1>11, <1>12 DEF SettledInv

LEMMA CommitKeepsSettled ==
    ASSUME SettledInv, Https!Commit
    PROVE  SettledInv'
<1>1. /\ Https!Doing /\ run.todo = <<>> /\ run' = Https!AtRest
      /\ UNCHANGED <<disk, app, web, backups, edits, faults, foreign, torn>>
  BY DEF Https!Commit, Https!services, Https!history
<1>2. UndoableInv' BY ServeKeepsUndoable DEF SettledInv
<1>3. NewestKnows'
  BY <1>1 DEF SettledInv, NewestKnows, Newest, Settled, SameButEdits, Https!Selected, AppServed,
     WebServed
<1>4. Quiet'
  <2>1. CASE torn = {}
    <3>1. /\ AppServed \/ SomeStep(run.todo, "app")
          /\ WebServed \/ SomeStep(run.todo, "nginx")
          /\ Setting(run.todo, backups[run.folder].saved) \/ Removing(run.todo, disk, backups)
      BY <1>1, <2>1 DEF SettledInv, Programs
    <3>2. ~SomeStep(run.todo, "app") /\ ~SomeStep(run.todo, "nginx") BY <1>1 DEF SomeStep
    <3>3. Settled(disk, backups) BY <1>1, <3>1 DEF Setting, Removing
    <3> QED BY <1>1, <3>1, <3>2, <3>3 DEF Quiet, Settled, AppServed, WebServed
  <2> QED BY <1>1, <2>1 DEF Quiet
<1>5. UndoneInOrder' /\ Restarts' /\ Programs'
  BY <1>1 DEF UndoneInOrder, Https!Undoing, Restarts, Programs, Https!Doing, Https!AtRest
<1> QED BY <1>2, <1>3, <1>4, <1>5 DEF SettledInv

LEMMA UndoKeepsSettled ==
    ASSUME SettledInv, Https!Recover \/ \E b \in 1..MaxBackups : Https!Rollback(b)
    PROVE  SettledInv'
<1>1. HttpsTypes /\ UNCHANGED <<disk, app, web, backups, edits, faults, foreign>>
  BY DEF SettledInv, UndoableInv, Https!Recover, Https!Rollback, Https!services
<1>2. UndoableInv' BY UndoKeepsUndoable DEF SettledInv
<1>3. /\ Newest' = Newest /\ Newest \in Nat /\ DOMAIN backups = 1..Newest
      /\ run.mode = "failed" => run.folder = Newest /\ run.folder \in 1..Newest
  BY <1>1, RunIs DEF HttpsTypes, Newest
<1>4. torn \subseteq torn'
  BY DEF Https!Recover, Https!Rollback
<1>5. NewestKnows'
  BY <1>1, <1>3, <1>4
     DEF SettledInv, NewestKnows, Newest, Settled, SameButEdits, Https!Selected, AppServed,
         WebServed
<1>6. CASE \E b \in 1..Newest : Https!Undo(b) /\ (b # Newest => Https!Crossed \in torn')
  <2>1. PICK b \in 1..Newest : Https!Undo(b) /\ (b # Newest => Https!Crossed \in torn') BY <1>6
  <2>2. run' = [mode |-> "undo", folder |-> b, left |-> Https!Selected(b), whole |-> TRUE]
    BY <2>1 DEF Https!Undo
  <2>3. UndoneInOrder'
    <3>1. Https!Selected(Newest)' = Https!Selected(Newest) BY <1>1, <1>3 DEF Https!Selected
    <3> QED BY <1>3, <2>1, <2>2, <3>1 DEF UndoneInOrder
  <2>4. Restarts' /\ Quiet' /\ Programs' BY <2>2 DEF Restarts, Quiet, Programs, Https!Doing
  <2> QED BY <1>2, <1>5, <2>3, <2>4 DEF SettledInv
<1>7. CASE run' = Https!AtRest /\ torn' # {}
  <2>1. UndoneInOrder' /\ Restarts' /\ Quiet' /\ Programs'
    BY <1>7 DEF UndoneInOrder, Https!Undoing, Restarts, Quiet, Programs, Https!Doing, Https!AtRest
  <2> QED BY <1>2, <1>5, <2>1 DEF SettledInv
<1>8. CASE Https!Recover
  <2>1. (Https!Undo(Newest) /\ Newest \in 1..Newest) \/ (run' = Https!AtRest /\ torn' # {})
    BY <1>3, <1>8 DEF Https!Recover
  <2> QED BY <1>6, <1>7, <2>1
<1>9. CASE \E b \in 1..MaxBackups : Https!Rollback(b)
  <2>1. PICK b \in 1..MaxBackups : Https!Rollback(b) BY <1>9
  <2>2. b \in 1..Newest /\ Https!Undo(b) /\ (b # Newest => Https!Crossed \in torn')
    BY <1>3, <2>1 DEF Https!Rollback, Newest
  <2> QED BY <1>6, <2>2
<1> QED BY <1>8, <1>9

LEMMA PutBackKeepsSettled ==
    ASSUME Https!BoundsAssumption, SettledInv, NEW f \in Https!Files, Https!PutBack(f)
    PROVE  SettledInv'
<1>1. /\ HttpsTypes /\ Https!Undoing /\ Undoings /\ UndoneInOrder /\ f \in run.left
      /\ UNCHANGED <<app, web, backups, edits, torn>>
  BY DEF SettledInv, UndoableInv, Https!PutBack, Https!services
<1>2. UndoableInv' BY PutBackKeepsUndoable DEF SettledInv
<1>3. /\ run \in [mode: {"undo"}, folder: 1..Newest, left: SUBSET Https!Files, whole: BOOLEAN]
      /\ run.folder \in 1..Newest /\ Newest' = Newest /\ Newest \in Nat /\ Newest >= 1
      /\ disk \in Https!Disk
  BY <1>1, RunIs DEF HttpsTypes, Newest
<1>4. /\ run'.mode = "undo" /\ run'.folder = run.folder /\ run'.left = run.left \ {f}
      /\ run'.whole => run.whole
  BY <1>3 DEF Https!PutBack
<1>5. DOMAIN disk = Https!Files BY <1>3 DEF Https!Disk, Https!Files
<1>6. \/ /\ \A g \in Https!Files :
              disk'[g] = IF g = f THEN backups[run.folder].saved[f] ELSE disk[g]
      \/ disk' = disk /\ ~run'.whole
  BY <1>3, <1>5 DEF Https!PutBack
<1>7. Restarts' /\ Quiet' /\ Programs' BY <1>4 DEF Restarts, Quiet, Programs, Https!Doing
<1>8. CASE run.folder = Newest
  <2>1. f \in Https!Selected(Newest) BY <1>1, <1>8 DEF Undoings
  <2>2. \A g \in Https!Files : g # f => disk'[g] = disk[g] BY <1>6
  <2>3. NewestKnows' BY <1>1, <1>3, <2>1, <2>2, PutKnows
  <2>4. UndoneInOrder'
    <3>1. Https!Selected(Newest)' = Https!Selected(Newest)
          /\ Https!Selected(Newest) \subseteq Https!Files
      BY <1>1, <1>3 DEF Https!Selected
    <3>2. run.whole =>
            \A g \in Https!Selected(Newest) \ run.left : disk[g] = backups[Newest].saved[g]
      BY <1>1, <1>8 DEF UndoneInOrder
    <3>3. run'.whole =>
            \A g \in Https!Selected(Newest) \ run'.left : disk'[g] = backups'[Newest].saved[g]
      BY <1>1, <1>4, <1>6, <1>8, <3>1, <3>2
    <3> QED BY <1>3, <1>4, <1>8, <3>1, <3>3 DEF UndoneInOrder
  <2> QED BY <1>2, <1>7, <2>3, <2>4 DEF SettledInv
<1>9. CASE run.folder # Newest
  <2>1. Https!Crossed \in torn' BY <1>1, <1>9 DEF UndoneInOrder
  <2>2. ~(torn' \subseteq {Newest'}) BY <1>3, <2>1 DEF Https!Crossed
  <2> QED BY <1>2, <1>3, <1>4, <1>7, <1>9, <2>1, <2>2
          DEF SettledInv, NewestKnows, UndoneInOrder
<1> QED BY <1>8, <1>9

LEMMA FinishKeepsSettled ==
    ASSUME Https!BoundsAssumption, SettledInv, Https!Finish
    PROVE  SettledInv'
<1>1. /\ HttpsTypes /\ Https!Undoing /\ UndoneInOrder /\ NewestKnows /\ run.left = {}
      /\ run' = Https!AtRest /\ UNCHANGED <<disk, backups, edits, foreign>>
  BY DEF SettledInv, UndoableInv, Https!Finish
<1>2. UndoableInv' BY EndKeepsUndoable DEF SettledInv
<1>3. /\ run.folder \in 1..Newest /\ Newest' = Newest /\ Newest \in Nat /\ Newest >= 1
      /\ disk \in Https!Disk
  BY <1>1, RunIs DEF HttpsTypes, Newest
<1>4. /\ app' \in {app, <<disk.env, disk.unit>>} /\ web' \in {web, disk.nginx}
      /\ \/ run.whole /\ torn' = torn \ {run.folder}
            /\ (({"env", "unit"} \cap Https!Selected(run.folder) # {}) =>
                    app' = <<disk.env, disk.unit>>)
            /\ ("nginx" \in Https!Selected(run.folder) => web' = disk.nginx)
         \/ torn' = torn \cup {run.folder}
  BY DEF Https!Finish
<1>5. (AppServed => AppServed') /\ (WebServed => WebServed')
  BY <1>1, <1>4 DEF AppServed, WebServed
<1>6. UndoneInOrder' /\ Restarts' /\ Programs'
  BY <1>1 DEF UndoneInOrder, Https!Undoing, Restarts, Programs, Https!Doing, Https!AtRest
<1>7. CASE run.folder # Newest
  <2>1. Https!Crossed \in torn BY <1>1, <1>7 DEF UndoneInOrder
  <2>2. Https!Crossed \in torn' BY <1>3, <1>4, <2>1 DEF Https!Crossed
  <2>3. ~(torn' \subseteq {Newest'}) /\ torn' # {} BY <1>3, <2>2 DEF Https!Crossed
  <2> QED BY <1>2, <1>6, <2>3 DEF SettledInv, NewestKnows, Quiet
<1>8. CASE run.folder = Newest
  <2>1. Https!Selected(Newest)' = Https!Selected(Newest)
        /\ Https!Selected(Newest) \subseteq Https!Files
    BY <1>1, <1>3 DEF Https!Selected
  <2>2. torn' \subseteq {Newest} => torn \subseteq {Newest} BY <1>4, <1>8
  <2>3. NewestKnows'
    BY <1>1, <1>3, <1>5, <2>1, <2>2 DEF NewestKnows, Settled, SameButEdits
  <2>4. ASSUME torn' = {} PROVE Settled(disk', backups') /\ AppServed' /\ WebServed'
    <3>1. /\ run.whole /\ torn \subseteq {Newest}
          /\ (({"env", "unit"} \cap Https!Selected(Newest) # {}) =>
                  app' = <<disk.env, disk.unit>>)
          /\ ("nginx" \in Https!Selected(Newest) => web' = disk.nginx)
      BY <1>4, <1>8, <2>4
    <3>2. /\ Settled(backups[Newest].saved, backups)
          /\ \A f \in Https!Files \ Https!Selected(Newest) :
                 SameButEdits(disk, backups[Newest].saved, f)
          /\ {"env", "unit"} \cap Https!Selected(Newest) = {} => AppServed
          /\ "nginx" \notin Https!Selected(Newest) => WebServed
      BY <1>1, <1>3, <3>1 DEF NewestKnows
    <3>3. \A f \in Https!Selected(Newest) : disk[f] = backups[Newest].saved[f]
      BY <1>1, <1>8, <3>1 DEF UndoneInOrder
    <3>4. PICK d \in Https!Disk : d = disk BY <1>3
    <3>5. PICK bs \in Seq(Backup) : bs = backups BY <1>1 DEF HttpsTypes
    <3>6. PICK e \in Https!Disk : e = backups[Newest].saved
      <4>1. backups[Newest] \in Backup BY <1>1, <1>3 DEF HttpsTypes, Newest
      <4> QED BY <4>1 DEF Backup
    <3>7. \A f \in Https!Files : SameButEdits(d, e, f)
      <4>1. \A f \in Https!Selected(Newest) : d[f] = e[f] BY <3>3, <3>4, <3>6
      <4>2. ASSUME NEW f \in Https!Files, d[f] = e[f] PROVE SameButEdits(d, e, f)
        BY <4>2 DEF SameButEdits, Https!Files
      <4> QED BY <2>1, <3>2, <3>4, <3>6, <4>1, <4>2
    <3>8. Settled(e, bs) BY <3>2, <3>5, <3>6
    <3>9. Settled(d, bs) BY <3>7, <3>8, SettledSame
    <3>10. Settled(disk', backups') BY <1>1, <3>4, <3>5, <3>9
    <3>11. AppServed' /\ WebServed' BY <1>1, <1>5, <3>1, <3>2 DEF AppServed, WebServed
    <3> QED BY <3>10, <3>11
  <2>5. Quiet' BY <2>4 DEF Quiet
  <2> QED BY <1>2, <1>6, <2>3, <2>5 DEF SettledInv
<1> QED BY <1>7, <1>8

LEMMA KillKeepsSettled ==
    ASSUME Https!BoundsAssumption, SettledInv, Https!Kill
    PROVE  SettledInv'
<1>1. /\ run' = Https!AtRest /\ UNCHANGED <<disk, app, web, backups>>
      /\ torn' = IF run.mode = "start" THEN torn ELSE torn \cup {run.folder}
  BY DEF Https!Kill, Https!services
<1>2. UndoableInv' BY EndKeepsUndoable DEF SettledInv
<1>3. torn \subseteq torn' /\ (run.mode # "start" => torn' # {}) BY <1>1
<1>4. NewestKnows'
  BY <1>1, <1>3
     DEF SettledInv, NewestKnows, Newest, Settled, SameButEdits, Https!Selected, AppServed,
         WebServed
<1>5. Quiet'
  BY <1>1, <1>3 DEF SettledInv, Quiet, Settled, AppServed, WebServed
<1>6. UndoneInOrder' /\ Restarts' /\ Programs'
  BY <1>1 DEF UndoneInOrder, Https!Undoing, Restarts, Programs, Https!Doing, Https!AtRest
<1> QED BY <1>2, <1>4, <1>5, <1>6 DEF SettledInv

LEMMA EditKeepsSettled ==
    ASSUME Https!BoundsAssumption, Https!NamesAssumption, SettledInv,
           \E f \in {"env", "nginx"} : Https!Edit(f)
    PROVE  SettledInv'
<1>1. PICK f \in {"env", "nginx"} : Https!Edit(f) OBVIOUS
<1>2. HttpsTypes BY DEF SettledInv, UndoableInv
<1>3. UndoableInv' BY EditKeepsUndoable DEF SettledInv
<1>4. /\ disk' \in Https!Disk /\ UNCHANGED <<backups, run, faults, torn>>
      /\ run.mode \in {"idle", "start"} \/ (Https!Doing /\ ~run.intent)
      /\ disk'.unit = disk.unit /\ disk'.hook = disk.hook /\ disk'.metadata = disk.metadata
      /\ disk'.env.settings = disk.env.settings
      /\ disk'.nginx = None <=> disk.nginx = None
      /\ f # "env" => disk'.env = disk.env
      /\ f # "nginx" => disk'.nginx = disk.nginx
      /\ IF f = "env" THEN app' = <<disk'.env, disk'.unit>> /\ web' = web
         ELSE app' = app /\ web' = disk'.nginx
  BY <1>1, <1>2, EditIs
<1>5. (AppServed => AppServed') /\ (WebServed => WebServed') BY <1>4 DEF AppServed, WebServed
<1>6. Settled(disk, backups) => Settled(disk', backups') BY <1>4 DEF Settled
<1>7. Newest' = Newest /\ Https!Selected(Newest)' = Https!Selected(Newest)
      /\ Https!Selected(Newest) \subseteq Https!Files
  BY <1>4 DEF Newest, Https!Selected
<1>8. NewestKnows'
  <2>1. CASE Newest >= 1 /\ torn \subseteq {Newest}
    <3>1. /\ Settled(backups[Newest].saved, backups)
          /\ \A g \in Https!Files \ Https!Selected(Newest) :
                 SameButEdits(disk, backups[Newest].saved, g)
          /\ {"env", "unit"} \cap Https!Selected(Newest) = {} => AppServed
          /\ "nginx" \notin Https!Selected(Newest) => WebServed
      BY <2>1 DEF SettledInv, NewestKnows
    <3>2. ASSUME NEW g \in Https!Files \ Https!Selected(Newest)
          PROVE  SameButEdits(disk', backups[Newest].saved, g)
      <4>1. SameButEdits(disk, backups[Newest].saved, g) BY <3>1
      <4>2. /\ disk'["unit"] = disk["unit"] /\ disk'["hook"] = disk["hook"]
            /\ disk'["metadata"] = disk["metadata"]
        BY <1>4
      <4> QED BY <1>4, <4>1, <4>2 DEF SameButEdits, Https!Files
    <3> QED BY <1>4, <1>5, <1>7, <3>1, <3>2 DEF NewestKnows
  <2>2. CASE ~(Newest >= 1 /\ torn \subseteq {Newest})
    <3>1. ~(Newest' >= 1 /\ torn' \subseteq {Newest'}) BY <1>4, <1>7, <2>2
    <3> QED BY <3>1 DEF NewestKnows
  <2> QED BY <2>1, <2>2
<1>9. UndoneInOrder' BY <1>4 DEF UndoneInOrder, Https!Undoing, Https!Doing
<1>10. Restarts' BY <1>4 DEF SettledInv, Restarts, RestartsFollow
<1>11. Quiet' BY <1>4, <1>5, <1>6 DEF SettledInv, Quiet
<1>12. Programs'
  <2>1. CASE torn = {} /\ run.mode \in {"start", "do"}
    <3>1. run.todo \in Seq(ProgramSteps) BY <1>2, <2>1, RunIs DEF Https!Doing
    <3>2. PICK todo \in Seq(ProgramSteps) : todo = run.todo BY <3>1
    <3>3. PICK d \in Https!Disk : d = disk BY <1>2 DEF HttpsTypes
    <3>4. PICK e \in Https!Disk : e = disk' BY <1>4
    <3>5. PICK bs \in Seq(Backup) : bs = backups BY <1>2 DEF HttpsTypes
    <3>6. Setting(todo, d) => Setting(todo, e) BY <1>4, <3>3, <3>4 DEF Setting
    <3>7. ASSUME Removing(todo, d, bs) PROVE Removing(todo, e, bs)
      <4>1. Settled(d, bs) BY <3>7 DEF Removing
      <4>2. /\ Settled(e, bs) /\ (d.metadata # None => e.metadata # None)
            /\ e.env.settings = d.env.settings /\ e.unit = d.unit
        BY <1>4, <1>6, <3>3, <3>4, <3>5, <4>1
      <4> QED BY <3>7, <4>2, RemovingFor
    <3>8. run.mode = "start" =>
            Setting(run'.todo, disk') \/ Removing(run'.todo, disk', backups')
      <4>1. run.mode = "start" => Setting(todo, d) \/ Removing(todo, d, bs)
        BY <2>1, <3>2, <3>3, <3>5 DEF SettledInv, Programs
      <4>2. run'.todo = todo /\ disk' = e /\ backups' = bs BY <1>4, <3>2, <3>4, <3>5
      <4> QED BY <3>6, <3>7, <4>1, <4>2
    <3>9. run.mode = "do" =>
            /\ AppServed' \/ SomeStep(run'.todo, "app")
            /\ WebServed' \/ SomeStep(run'.todo, "nginx")
            /\ \/ Setting(run'.todo, backups'[run'.folder].saved)
               \/ Removing(run'.todo, disk', backups')
      <4>1. run.mode = "do" =>
              /\ AppServed \/ SomeStep(todo, "app")
              /\ WebServed \/ SomeStep(todo, "nginx")
              /\ Setting(todo, backups[run.folder].saved) \/ Removing(todo, d, bs)
        BY <2>1, <3>2, <3>3, <3>5 DEF SettledInv, Programs, Https!Doing
      <4>2. /\ run'.todo = todo /\ disk' = e /\ backups' = bs
            /\ backups'[run'.folder].saved = backups[run.folder].saved
        BY <1>4, <3>2, <3>4, <3>5
      <4> QED BY <1>5, <3>7, <4>1, <4>2
    <3> QED BY <1>4, <3>8, <3>9 DEF Programs, Https!Doing
  <2>2. CASE ~(torn = {} /\ run.mode \in {"start", "do"}) BY <1>4, <2>2 DEF Programs, Https!Doing
  <2> QED BY <2>1, <2>2
<1> QED BY <1>3, <1>8, <1>9, <1>10, <1>11, <1>12 DEF SettledInv

LEMMA SettledStutters == ASSUME SettledInv, UNCHANGED Https!vars PROVE SettledInv'
<1>1. UndoableInv' BY UndoableStutters DEF SettledInv
<1>2. UNCHANGED <<disk, app, web, backups, run, torn>> BY DEF Https!vars
<1>3. NewestKnows'
  BY <1>2 DEF SettledInv, NewestKnows, Newest, Settled, SameButEdits, Https!Selected, AppServed,
     WebServed
<1>4. UndoneInOrder' BY <1>2 DEF SettledInv, UndoneInOrder, Https!Undoing, Newest, Https!Selected
<1>5. Restarts' BY <1>2 DEF SettledInv, Restarts, RestartsFollow
<1>6. Quiet' BY <1>2 DEF SettledInv, Quiet, Settled, AppServed, WebServed
<1>7. Programs'
  BY <1>2 DEF SettledInv, Programs, Https!Doing, AppServed, WebServed, SomeStep, Setting,
     Removing, Settled
<1> QED BY <1>1, <1>3, <1>4, <1>5, <1>6, <1>7 DEF SettledInv

LEMMA StepKeepsSettled ==
    ASSUME Https!BoundsAssumption, Https!NamesAssumption, SettledInv, [Https!Next]_(Https!vars)
    PROVE  SettledInv'
<1>1. CASE (\E h \in Hosts : Https!Setup(h)) \/ Https!Disable \/ Https!Detach
  BY <1>1, StartsKeepSettled
<1>2. CASE Https!Snapshot BY <1>2, SnapshotKeepsSettled
<1>3. CASE Https!Note BY <1>3, NoteKeepsSettled
<1>4. CASE Https!Publish BY <1>4, PublishKeepsSettled
<1>5. CASE Https!Serve BY <1>5, ServeKeepsSettled
<1>6. CASE Https!Commit BY <1>6, CommitKeepsSettled
<1>7. CASE Https!Fail BY <1>7, FailKeepsSettled
<1>8. CASE Https!Recover \/ \E b \in 1..MaxBackups : Https!Rollback(b) BY <1>8, UndoKeepsSettled
<1>9. ASSUME NEW f \in Https!Files, Https!PutBack(f) PROVE SettledInv'
  BY <1>9, PutBackKeepsSettled
<1>10. CASE Https!Finish BY <1>10, FinishKeepsSettled
<1>11. CASE Https!Kill BY <1>11, KillKeepsSettled
<1>12. CASE \E f \in {"env", "nginx"} : Https!Edit(f) BY <1>12, EditKeepsSettled
<1>13. CASE UNCHANGED Https!vars BY <1>13, SettledStutters
<1> QED BY <1>1, <1>2, <1>3, <1>4, <1>5, <1>6, <1>7, <1>8, <1>9, <1>10, <1>11, <1>12, <1>13
        DEF Https!Next

\* The newest transaction can be undone, the services run what is on disk, and
\* no setting of a past domain stays.
THEOREM TransactionsAreSound ==
    ASSUME Https!BoundsAssumption, Https!NamesAssumption
    PROVE  Https!Spec =>
             [](/\ Https!TypeOK /\ Https!LatestCanBeUndone
                /\ Https!ServedAsOnDisk /\ Https!SettingsComeBack)
<1>1. Https!Init => SettledInv BY InitSettled
<1>2. SettledInv /\ [Https!Next]_(Https!vars) => SettledInv' BY StepKeepsSettled
<1>3. SettledInv => Https!TypeOK /\ Https!LatestCanBeUndone /\ Https!ServedAsOnDisk
      /\ Https!SettingsComeBack
  BY SettledFollows, UndoableFollows DEF SettledInv
<1> QED BY <1>1, <1>2, <1>3, PTL DEF Https!Spec

-----------------------------------------------------------------------------
(* No edit is lost.  NoEditLostStep needs what the text of a transaction knows: *)
(* all it writes to .env carries the edit that was in the file when it was read,  *)
(* and so no more than its backup, which was taken after that (Reading); then what *)
(* any backup has noted is not ahead of what it saved (NotAhead), and a file that  *)
(* is put back does not lose an edit either.                                       *)

\* What a program writes to .env carries edit n, and what it writes to nginx none.
Carries(f, c, n) == Https!EditIn(f, c) = IF f = "env" THEN n ELSE 0
WritesOnly(todo, n) ==
    \A i \in DOMAIN todo : todo[i].step = "write" => Carries(todo[i].file, todo[i].content, n)

ReadEarlier ==
    /\ run.mode = "start" =>
          \E n \in Nat : n <= disk.env.other /\ WritesOnly(run.todo, n)
    /\ Https!Doing =>
          \E n \in Nat :
             /\ n <= backups[run.folder].saved.env.other /\ WritesOnly(run.todo, n)
             /\ \A f \in Https!Files : \A c \in backups[run.folder].written[f] : Carries(f, c, n)
NotAhead ==
    \A b \in 1..Newest : \A f \in Https!Files : \A c \in backups[b].written[f] :
        Https!EditIn(f, c) <= Https!EditIn(f, backups[b].saved[f])
\* Edits are numbered as they are made.
Numbered ==
    \A f \in Https!Files :
        /\ Https!EditIn(f, disk[f]) <= edits
        /\ \A b \in 1..Newest : Https!EditIn(f, backups[b].saved[f]) <= edits

EditsInv == UndoableInv /\ ReadEarlier /\ NotAhead /\ Numbered

LEMMA EditInIs ==
    ASSUME Https!BoundsAssumption, Https!NamesAssumption,
           NEW f \in Https!Files, NEW c \in Contents(f)
    PROVE  Https!EditIn(f, c) \in Nat /\ (f \notin {"env", "nginx"} => Https!EditIn(f, c) = 0)
<1>1. CASE f = "env" BY <1>1 DEF Https!EditIn, Contents, Https!Env, Https!BoundsAssumption
<1>2. CASE f = "nginx"
  <2>1. c = None \/ c.edit \in Nat
    BY <1>2 DEF Contents, Https!Nginx, Https!BoundsAssumption
  <2> QED BY <1>2, <2>1 DEF Https!EditIn
<1>3. CASE f \notin {"env", "nginx"} BY <1>3 DEF Https!EditIn
<1> QED BY <1>1, <1>2, <1>3

\* The files on disk, saved and noted are contents.
LEMMA ContentsThere ==
    ASSUME HttpsTypes
    PROVE  /\ DOMAIN backups = 1..Newest /\ Newest \in Nat
           /\ \A f \in Https!Files :
                /\ disk[f] \in Contents(f)
                /\ \A b \in 1..Newest :
                     /\ backups[b].saved[f] \in Contents(f)
                     /\ backups[b].written[f] \subseteq Contents(f)
           /\ Https!EditIn("env", disk.env) = disk.env.other
           /\ \A b \in 1..Newest : Https!EditIn("env", backups[b].saved.env)
                                      = backups[b].saved.env.other
<1>1. disk \in Https!Disk /\ backups \in Seq(Backup) BY DEF HttpsTypes
<1>2. DOMAIN backups = 1..Newest /\ Newest \in Nat BY <1>1 DEF Newest
<1>3. ASSUME NEW f \in Https!Files, NEW b \in 1..Newest
      PROVE  /\ backups[b].saved[f] \in Contents(f)
             /\ backups[b].written[f] \subseteq Contents(f)
  <2>1. PICK d \in Https!Disk, j \in Https!Journal :
          d = backups[b].saved /\ j = backups[b].written
    <3>1. backups[b] \in Backup BY <1>1, <1>2
    <3> QED BY <3>1 DEF Backup
  <2>2. j[f] \subseteq Contents(f) BY DEF Https!Journal, Contents, Https!Files
  <2> QED BY <2>1, <2>2, FileHas
<1> QED BY <1>1, <1>2, <1>3, FileHas DEF Https!EditIn

\* The programs write nothing else than the text they were given.
LEMMA ProgramsCarry ==
    ASSUME NEW text \in Https!Env
    PROVE  /\ \A h \in Hosts : WritesOnly(Https!SetupProgram(h, text), text.other)
           /\ \A s \in Hosts \cup {None} : WritesOnly(Https!DisableProgram(text, s), text.other)
           /\ WritesOnly(Https!DetachProgram, text.other)
<1> DEFINE n == text.other
           Fits(s) == s.step = "write" => Carries(s.file, s.content, n)
<1>1. ASSUME NEW s PROVE Fits(Https!Write("env", Https!EditEnv(text, s)))
  <2>1. Https!EditEnv(text, s).other = n BY DEF Https!EditEnv, Https!Env
  <2> QED BY <2>1 DEF Https!Write, Carries, Https!EditIn
<1>2. ASSUME NEW s, NEW f \in {"unit", "hook", "metadata"} PROVE Fits(Https!Write(f, s))
  BY <1>2 DEF Https!Write, Carries, Https!EditIn
<1>3. ASSUME NEW h, NEW b PROVE Fits(Https!Write("nginx", Https!NginxConfig(h, b)))
  BY DEF Https!Write, Carries, Https!EditIn, Https!NginxConfig
<1>4. Fits(Https!Write("nginx", None)) BY DEF Https!Write, Carries, Https!EditIn
<1>5. /\ Fits(Https!Restart) /\ Fits(Https!Activate)
      /\ \A h : Fits([step |-> "describe", host |-> h])
  BY DEF Https!Restart, Https!Activate
<1> HIDE DEF Fits
<1>6. ASSUME NEW h \in Hosts, NEW i \in DOMAIN Https!SetupProgram(h, text)
      PROVE  Fits(Https!SetupProgram(h, text)[i])
  <2> DEFINE s1 == Https!Write("nginx", Https!NginxConfig(h, FALSE))
             s3 == Https!Write("nginx", Https!NginxConfig(h, TRUE))
             s4 == Https!Write("hook", h)
             s5 == Https!Write("env", Https!EditEnv(text, h))
             s6 == Https!Write("unit", Https!ServiceUnit(h))
             s9 == [step |-> "describe", host |-> h]
  <2>1. Https!SetupProgram(h, text)
            = <<s1, Https!Activate, s3, s4, s5, s6, Https!Restart, Https!Activate, s9>>
    BY DEF Https!SetupProgram
  <2>2. /\ Fits(s1) /\ Fits(s3) /\ Fits(s4) /\ Fits(s5) /\ Fits(s6) /\ Fits(s9)
        /\ Fits(Https!Restart) /\ Fits(Https!Activate)
    BY <1>1, <1>2, <1>3, <1>5
  <2> HIDE DEF s1, s3, s4, s5, s6, s9
  <2> QED BY <1>6, <2>1, <2>2
<1>7. ASSUME NEW s \in Hosts \cup {None}, NEW i \in DOMAIN Https!DisableProgram(text, s)
      PROVE  Fits(Https!DisableProgram(text, s)[i])
  <2> DEFINE s1 == Https!Write("nginx", None)
             s2 == Https!Write("hook", None)
             s3 == Https!Write("env", Https!EditEnv(text, s))
             s4 == Https!Write("unit", Https!ServiceUnit(s))
             s7 == Https!Write("metadata", None)
  <2>1. Https!DisableProgram(text, s)
            = <<s1, s2, s3, s4, Https!Restart, Https!Activate, s7>>
    BY DEF Https!DisableProgram
  <2>2. /\ Fits(s1) /\ Fits(s2) /\ Fits(s3) /\ Fits(s4) /\ Fits(s7)
        /\ Fits(Https!Restart) /\ Fits(Https!Activate)
    BY <1>1, <1>2, <1>4, <1>5
  <2> HIDE DEF s1, s2, s3, s4, s7
  <2> QED BY <1>7, <2>1, <2>2
<1>8. ASSUME NEW i \in DOMAIN Https!DetachProgram PROVE Fits(Https!DetachProgram[i])
  <2> DEFINE s1 == Https!Write("nginx", None)
             s2 == Https!Write("hook", None)
  <2>1. Https!DetachProgram = <<s1, s2, Https!Activate>> BY DEF Https!DetachProgram
  <2>2. Fits(s1) /\ Fits(s2) /\ Fits(Https!Activate) BY <1>2, <1>4, <1>5
  <2> HIDE DEF s1, s2
  <2> QED BY <1>8, <2>1, <2>2
<1> QED BY <1>6, <1>7, <1>8 DEF WritesOnly, Fits

\* The rest of a program writes no more than the whole.
LEMMA RestCarries ==
    ASSUME NEW todo \in Seq(ProgramSteps), todo # <<>>, NEW n \in Nat, WritesOnly(todo, n)
    PROVE  /\ WritesOnly(Tail(todo), n)
           /\ Head(todo).step = "write" => Carries(Head(todo).file, Head(todo).content, n)
<1>1. /\ DOMAIN todo = 1..Len(todo) /\ Len(todo) \in Nat \ {0}
      /\ Head(todo) = todo[1] /\ DOMAIN Tail(todo) = 1..(Len(todo) - 1)
      /\ \A i \in 1..(Len(todo) - 1) : Tail(todo)[i] = todo[i + 1]
  OBVIOUS
<1>2. ASSUME NEW i \in 1..(Len(todo) - 1)
      PROVE  todo[i + 1].step = "write" => Carries(todo[i + 1].file, todo[i + 1].content, n)
  BY <1>1 DEF WritesOnly
<1> QED BY <1>1, <1>2 DEF WritesOnly

\* What the next step of a transaction puts into its file carries what was read.
LEMMA ContentCarries ==
    ASSUME Https!BoundsAssumption, Https!NamesAssumption, UndoableInv, Https!Writing,
           NEW n \in Nat, WritesOnly(run.todo, n)
    PROVE  /\ Https!Target \in Https!Files /\ Https!Content \in Contents(Https!Target)
           /\ Carries(Https!Target, Https!Content, n)
<1>1. HttpsTypes /\ run.todo \in Seq(ProgramSteps) /\ run.todo # <<>>
  BY RunIs DEF UndoableInv, Https!Writing
<1>2. Https!Target \in Https!Files /\ Https!Content \in Contents(Https!Target) BY <1>1, ContentIs
<1>3. CASE Head(run.todo).step = "describe"
  <2>1. Https!Target = "metadata" BY <1>3 DEF Https!Target
  <2> QED BY <1>2, <2>1 DEF Carries, Https!EditIn
<1>4. CASE Head(run.todo).step = "write"
  BY <1>1, <1>2, <1>4, RestCarries DEF Https!Target, Https!Content
<1> QED BY <1>2, <1>3, <1>4 DEF Https!Writing

LEMMA InitEdits == ASSUME Https!BoundsAssumption, Https!Init PROVE EditsInv
<1>1. UndoableInv BY InitUndoable
<1>2. Newest = 0 /\ run.mode = "idle" BY DEF Https!Init, Newest, Https!AtRest
<1>3. Numbered BY <1>2 DEF Https!Init, Numbered, Https!EditIn, Https!Files
<1> QED BY <1>1, <1>2, <1>3 DEF EditsInv, ReadEarlier, NotAhead, Https!Doing

LEMMA StartsKeepEdits ==
    ASSUME Https!BoundsAssumption, EditsInv,
           (\E h \in Hosts : Https!Setup(h)) \/ Https!Disable \/ Https!Detach
    PROVE  ReadEarlier' /\ NotAhead' /\ Numbered'
<1>1. HttpsTypes /\ NotAhead /\ Numbered /\ disk.env \in Https!Env
  BY DEF EditsInv, UndoableInv, HttpsTypes, Https!Disk
<1>2. PICK program :
        /\ Https!Start(program) /\ WritesOnly(program, disk.env.other)
  <2>1. CASE \E h \in Hosts : Https!Setup(h) BY <1>1, <2>1, ProgramsCarry DEF Https!Setup
  <2>2. CASE Https!Disable
    <3>1. disk.metadata.prior \in 1..Newest BY <1>1, <2>2 DEF Https!Disable, HttpsTypes, Refers
    <3>2. backups[disk.metadata.prior] \in Backup BY <1>1, <3>1 DEF HttpsTypes, Newest
    <3>3. backups[disk.metadata.prior].saved.env.settings \in Hosts \cup {None}
      BY <3>2 DEF Backup, Https!Disk, Https!Env
    <3> QED BY <1>1, <2>2, <3>3, ProgramsCarry DEF Https!Disable
  <2>3. CASE Https!Detach BY <1>1, <2>3, ProgramsCarry DEF Https!Detach
  <2> QED BY <2>1, <2>2, <2>3
<1>3. /\ run' = [mode |-> "start", todo |-> program]
      /\ UNCHANGED <<disk, backups, edits>>
  BY <1>2 DEF Https!Start, Https!history
<1>4. disk.env.other \in Nat BY <1>1 DEF Https!Env, Https!BoundsAssumption
<1>5. ReadEarlier' BY <1>2, <1>3, <1>4 DEF ReadEarlier, Https!Doing
<1> QED BY <1>1, <1>3, <1>5 DEF NotAhead, Numbered, Newest

LEMMA SnapshotKeepsEdits ==
    ASSUME EditsInv, Https!Snapshot
    PROVE  ReadEarlier' /\ NotAhead' /\ Numbered'
<1>1. HttpsTypes /\ ReadEarlier /\ NotAhead /\ Numbered BY DEF EditsInv, UndoableInv
<1>2. /\ run.mode = "start" /\ backups' = Append(backups, Https!NewBackup)
      /\ UNCHANGED <<disk, edits>>
  BY DEF Https!Snapshot
<1>3. backups \in Seq(Backup) /\ Newest \in Nat BY <1>1 DEF HttpsTypes, Newest
<1>4. /\ Newest' = Newest + 1 /\ backups'[Newest + 1] = Https!NewBackup
      /\ \A b \in 1..Newest : backups'[b] = backups[b]
  BY <1>2, <1>3 DEF Newest
<1>5. /\ Https!NewBackup.saved = disk
      /\ \A f \in Https!Files : Https!NewBackup.written[f] = {}
  BY DEF Https!NewBackup, Https!Files
<1>6. 1..Newest' = 1..Newest \cup {Newest + 1} BY <1>3, <1>4
<1>7. NotAhead'
  <2>1. ASSUME NEW b \in 1..Newest', NEW f \in Https!Files, NEW c \in backups'[b].written[f]
        PROVE  Https!EditIn(f, c) <= Https!EditIn(f, backups'[b].saved[f])
    BY <1>1, <1>4, <1>5, <1>6, <2>1 DEF NotAhead
  <2> QED BY <2>1 DEF NotAhead, Https!EditIn
<1>8. Numbered' BY <1>1, <1>2, <1>4, <1>5, <1>6 DEF Numbered, Https!EditIn
<1>9. PICK n \in Nat : n <= disk.env.other /\ WritesOnly(run.todo, n)
  BY <1>1, <1>2 DEF ReadEarlier
<1>10. run' = Https!AtRest
       \/ run' = [mode |-> "do", folder |-> Newest + 1, todo |-> run.todo, intent |-> FALSE]
  BY DEF Https!Snapshot, Newest
<1>11. ReadEarlier'
  BY <1>4, <1>5, <1>9, <1>10 DEF ReadEarlier, Https!Doing, Https!AtRest
<1> QED BY <1>7, <1>8, <1>11

LEMMA NoteKeepsEdits ==
    ASSUME Https!BoundsAssumption, Https!NamesAssumption, EditsInv, Https!Note
    PROVE  ReadEarlier' /\ NotAhead' /\ Numbered'
<1>1. HttpsTypes /\ UndoableInv /\ ReadEarlier /\ NotAhead /\ Numbered
  BY DEF EditsInv, UndoableInv
<1>2. /\ Https!Writing /\ Https!Doing /\ run' = [run EXCEPT !.intent = TRUE]
      /\ backups' = Https!Noted(run.folder, Https!Target, Https!Content)
      /\ UNCHANGED <<disk, edits>>
  BY DEF Https!Note, Https!Writing, Https!history
<1>3. /\ run \in [mode: {"do"}, folder: {Newest}, todo: Seq(ProgramSteps), intent: BOOLEAN]
      /\ run.folder = Newest /\ run.folder \in 1..Newest
  BY <1>1, <1>2, RunIs
<1>4. run'.mode = "do" /\ run'.folder = run.folder /\ run'.todo = run.todo BY <1>2, <1>3
<1>5. PICK n \in Nat :
        /\ n <= backups[run.folder].saved.env.other /\ WritesOnly(run.todo, n)
        /\ \A f \in Https!Files : \A c \in backups[run.folder].written[f] : Carries(f, c, n)
  BY <1>1, <1>2 DEF ReadEarlier
<1>6. PICK g \in Https!Files : g = Https!Target BY <1>1, <1>2, <1>5, ContentCarries
<1>7. PICK e \in Contents(g) : e = Https!Content /\ Carries(g, e, n)
  BY <1>1, <1>2, <1>5, <1>6, ContentCarries
<1>8. PICK k \in 1..Newest : k = run.folder BY <1>3
<1>9. /\ Newest' = Newest
      /\ \A b \in 1..Newest : backups'[b].saved = backups[b].saved
      /\ \A b \in 1..Newest, f \in Https!Files :
           b # k \/ f # g => backups'[b].written[f] = backups[b].written[f]
      /\ backups'[k].written[g] = backups[k].written[g] \cup {e}
  <2>1. backups \in Seq(Backup) /\ backups' = Https!Noted(k, g, e)
    BY <1>1, <1>2, <1>6, <1>7, <1>8 DEF HttpsTypes
  <2>2. Newest' = Len(backups') BY DEF Newest
  <2>3. /\ Len(Https!Noted(k, g, e)) = Newest
        /\ \A b \in 1..Newest : Https!Noted(k, g, e)[b].saved = backups[b].saved
        /\ Https!Noted(k, g, e)[k].written[g] = backups[k].written[g] \cup {e}
    BY <2>1, JournalNotes
  <2>4. \A b \in 1..Newest, f \in Https!Files :
           b # k \/ f # g => Https!Noted(k, g, e)[b].written[f] = backups[b].written[f]
    BY <2>1, JournalNotes
  <2> QED BY <2>1, <2>2, <2>3, <2>4
<1>10. ReadEarlier'
  <2>1. \A f \in Https!Files : \A c \in backups'[k].written[f] : Carries(f, c, n)
    BY <1>5, <1>7, <1>8, <1>9
  <2> QED BY <1>4, <1>5, <1>8, <1>9, <2>1 DEF ReadEarlier
<1>11. NotAhead'
  <2>1. Https!EditIn(g, e) <= Https!EditIn(g, backups[k].saved[g])
    <3>1. CASE g = "env" BY <1>1, <1>5, <1>7, <1>8, <3>1, ContentsThere DEF Carries
    <3>2. CASE g # "env"
      <4>1. backups[k].saved[g] \in Contents(g) BY <1>1, ContentsThere
      <4>2. Https!EditIn(g, backups[k].saved[g]) \in Nat BY <4>1, EditInIs
      <4> QED BY <1>7, <3>2, <4>2 DEF Carries
    <3> QED BY <3>1, <3>2
  <2>2. ASSUME NEW b \in 1..Newest, NEW f \in Https!Files, NEW c \in backups'[b].written[f]
        PROVE  Https!EditIn(f, c) <= Https!EditIn(f, backups'[b].saved[f])
    BY <1>1, <1>9, <2>1, <2>2 DEF NotAhead
  <2> QED BY <1>9, <2>2 DEF NotAhead, Https!EditIn
<1>12. Numbered' BY <1>1, <1>2, <1>9 DEF Numbered, Https!EditIn
<1> QED BY <1>10, <1>11, <1>12

\* A replacement puts an edit away only when the backup has it.
LEMMA PutLosesNothing ==
    ASSUME Https!BoundsAssumption, Https!NamesAssumption, EditsInv, Https!Writing, run.intent,
           disk' = [disk EXCEPT ![Https!Target] = Https!Content]
    PROVE  \A f \in Https!Files :
              /\ Https!EditIn(f, disk'[f]) <= edits
              /\ Https!EditIn(f, disk'[f]) < Https!EditIn(f, disk[f]) =>
                    disk[f] = backups[run.folder].saved[f]
<1>1. HttpsTypes /\ UndoableInv /\ Intents /\ ReadEarlier /\ Numbered /\ Https!Doing
  BY DEF EditsInv, UndoableInv, Https!Writing
<1>2. run.folder \in 1..Newest BY <1>1, RunIs
<1>3. PICK n \in Nat :
        /\ n <= backups[run.folder].saved.env.other /\ WritesOnly(run.todo, n)
        /\ \A f \in Https!Files : \A c \in backups[run.folder].written[f] : Carries(f, c, n)
  BY <1>1 DEF ReadEarlier
<1>4. PICK g \in Https!Files : g = Https!Target BY <1>1, <1>3, ContentCarries
<1>5. PICK e \in Contents(g) : e = Https!Content /\ Carries(g, e, n)
  BY <1>1, <1>3, <1>4, ContentCarries
<1>6. \A f \in Https!Files : disk'[f] = IF f = g THEN e ELSE disk[f]
  <2>1. PICK d \in Https!Disk : d = disk BY <1>1 DEF HttpsTypes
  <2> QED BY <1>4, <1>5, <2>1, FilePut
<1>7. /\ disk[g] = backups[run.folder].saved[g] \/ Carries(g, disk[g], n)
  BY <1>1, <1>3, <1>4, <1>5 DEF Intents, Https!Known
<1>8. edits \in Nat BY <1>1 DEF HttpsTypes, Https!BoundsAssumption
<1>9. \A f \in Https!Files : Https!EditIn(f, disk[f]) \in Nat /\ Https!EditIn(f, disk[f]) <= edits
  BY <1>1, ContentsThere, EditInIs DEF Numbered
<1>10. Https!EditIn(g, e) <= edits
  <2>1. CASE g = "env"
    <3>1. backups[run.folder].saved.env.other <= edits
      BY <1>1, <1>2, ContentsThere DEF Numbered, Https!Files
    <3>2. backups[run.folder].saved.env.other \in Nat
      <4>1. backups[run.folder].saved["env"] \in Contents("env")
        BY <1>1, <1>2, ContentsThere DEF Https!Files
      <4> QED BY <4>1 DEF Contents, Https!Env, Https!BoundsAssumption
    <3> QED BY <1>3, <1>5, <1>8, <2>1, <3>1, <3>2 DEF Carries
  <2>2. CASE g # "env" BY <1>5, <1>8, <2>2 DEF Carries
  <2> QED BY <2>1, <2>2
<1>11. Https!EditIn(g, e) < Https!EditIn(g, disk[g]) => disk[g] = backups[run.folder].saved[g]
  <2>1. Https!EditIn(g, e) \in Nat BY EditInIs
  <2>2. CASE Carries(g, disk[g], n)
    <3>1. Https!EditIn(g, disk[g]) = Https!EditIn(g, e) BY <1>5, <2>2 DEF Carries
    <3> QED BY <2>1, <3>1
  <2> QED BY <1>7, <2>2
<1>12. ASSUME NEW f \in Https!Files
       PROVE  /\ Https!EditIn(f, disk'[f]) <= edits
              /\ Https!EditIn(f, disk'[f]) < Https!EditIn(f, disk[f]) =>
                    disk[f] = backups[run.folder].saved[f]
  <2>1. CASE f = g BY <1>6, <1>10, <1>11, <2>1
  <2>2. CASE f # g
    <3>1. disk'[f] = disk[f] BY <1>6, <2>2
    <3> QED BY <1>9, <3>1
  <2> QED BY <2>1, <2>2
<1> QED BY <1>12

LEMMA PublishKeepsEdits ==
    ASSUME Https!BoundsAssumption, Https!NamesAssumption, EditsInv, Https!Publish
    PROVE  ReadEarlier' /\ NotAhead' /\ Numbered'
<1>1. HttpsTypes /\ ReadEarlier /\ NotAhead /\ Numbered BY DEF EditsInv, UndoableInv
<1>2. /\ Https!Writing /\ Https!Doing /\ run.intent
      /\ disk' = [disk EXCEPT ![Https!Target] = Https!Content] /\ Https!Proceed(Tail(run.todo))
      /\ UNCHANGED <<backups, edits>>
  BY DEF Https!Publish, Https!Writing, Https!history
<1>3. /\ run \in [mode: {"do"}, folder: {Newest}, todo: Seq(ProgramSteps), intent: BOOLEAN]
      /\ run.todo # <<>>
  BY <1>1, <1>2, RunIs DEF Https!Writing
<1>4. run'.mode = "do" /\ run'.folder = run.folder /\ run'.todo = Tail(run.todo)
  BY <1>2, <1>3 DEF Https!Proceed
<1>5. PICK n \in Nat :
        /\ n <= backups[run.folder].saved.env.other /\ WritesOnly(run.todo, n)
        /\ \A f \in Https!Files : \A c \in backups[run.folder].written[f] : Carries(f, c, n)
  BY <1>1, <1>2 DEF ReadEarlier
<1>6. WritesOnly(run'.todo, n) BY <1>3, <1>4, <1>5, RestCarries
<1>7. ReadEarlier' BY <1>2, <1>4, <1>5, <1>6 DEF ReadEarlier
<1>8. Numbered'
  <2>1. \A f \in Https!Files : Https!EditIn(f, disk'[f]) <= edits BY <1>2, PutLosesNothing
  <2> QED BY <1>1, <1>2, <2>1 DEF Numbered, Newest, Https!EditIn
<1> QED BY <1>1, <1>2, <1>7, <1>8 DEF NotAhead, Newest

LEMMA ServeKeepsEdits ==
    ASSUME EditsInv, Https!Serve
    PROVE  ReadEarlier' /\ NotAhead' /\ Numbered'
<1>1. HttpsTypes /\ ReadEarlier /\ NotAhead /\ Numbered BY DEF EditsInv, UndoableInv
<1>2. /\ Https!Doing /\ Https!Proceed(Tail(run.todo)) /\ run.todo # <<>>
      /\ UNCHANGED <<disk, backups, edits>>
  BY DEF Https!Serve, Https!history
<1>3. run \in [mode: {"do"}, folder: {Newest}, todo: Seq(ProgramSteps), intent: BOOLEAN]
  BY <1>1, <1>2, RunIs
<1>4. run'.mode = "do" /\ run'.folder = run.folder /\ run'.todo = Tail(run.todo)
  BY <1>2, <1>3 DEF Https!Proceed
<1>5. PICK n \in Nat :
        /\ n <= backups[run.folder].saved.env.other /\ WritesOnly(run.todo, n)
        /\ \A f \in Https!Files : \A c \in backups[run.folder].written[f] : Carries(f, c, n)
  BY <1>1, <1>2 DEF ReadEarlier
<1>6. WritesOnly(run'.todo, n) BY <1>2, <1>3, <1>4, <1>5, RestCarries
<1>7. ReadEarlier' BY <1>2, <1>4, <1>5, <1>6 DEF ReadEarlier
<1> QED BY <1>1, <1>2, <1>7 DEF NotAhead, Numbered, Newest

LEMMA FailKeepsEdits ==
    ASSUME Https!BoundsAssumption, Https!NamesAssumption, EditsInv, Https!Fail
    PROVE  ReadEarlier' /\ NotAhead' /\ Numbered'
<1>1. HttpsTypes /\ NotAhead /\ Numbered BY DEF EditsInv, UndoableInv
<1>2. /\ run' = [mode |-> "failed", folder |-> run.folder] /\ UNCHANGED <<backups, edits>>
      /\ \/ disk' = disk
         \/ /\ Https!Writing /\ run.intent
            /\ disk' = [disk EXCEPT ![Https!Target] = Https!Content]
  BY DEF Https!Fail
<1>3. ReadEarlier' BY <1>2 DEF ReadEarlier, Https!Doing
<1>4. \A f \in Https!Files : Https!EditIn(f, disk'[f]) <= edits
  BY <1>1, <1>2, PutLosesNothing DEF Numbered
<1>5. Numbered' BY <1>1, <1>2, <1>4 DEF Numbered, Newest, Https!EditIn
<1> QED BY <1>1, <1>2, <1>3, <1>5 DEF NotAhead, Newest

\* Putting a file back loses no edit.
LEMMA PutBackLosesNothing ==
    ASSUME Https!BoundsAssumption, Https!NamesAssumption, EditsInv,
           NEW f \in Https!Files, Https!PutBack(f)
    PROVE  /\ ReadEarlier' /\ NotAhead' /\ Numbered'
           /\ \A g \in Https!Files : ~(Https!EditIn(g, disk'[g]) < Https!EditIn(g, disk[g]))
<1>1. HttpsTypes /\ Undoings /\ NotAhead /\ Numbered /\ Https!Undoing /\ f \in run.left
  BY DEF EditsInv, UndoableInv, Https!PutBack
<1>2. /\ UNCHANGED <<backups, edits>> /\ run.folder \in 1..Newest
      /\ run \in [mode: {"undo"}, folder: 1..Newest, left: SUBSET Https!Files, whole: BOOLEAN]
  BY <1>1, RunIs DEF Https!PutBack
<1>3. run'.mode = "undo" BY <1>2 DEF Https!PutBack
<1>4. \/ disk' = disk
      \/ \A g \in Https!Files :
            disk'[g] = IF g = f THEN backups[run.folder].saved[f] ELSE disk[g]
  <2>1. CASE disk' = [disk EXCEPT ![f] = backups[run.folder].saved[f]]
    <3>1. PICK d \in Https!Disk, c \in Contents(f) :
            d = disk /\ c = backups[run.folder].saved[f]
      BY <1>1, <1>2, ContentsThere DEF HttpsTypes
    <3> QED BY <2>1, <3>1, FilePut
  <2> QED BY <2>1 DEF Https!PutBack
<1>5. \A g \in Https!Files :
         /\ Https!EditIn(g, disk[g]) \in Nat /\ Https!EditIn(g, disk[g]) <= edits
         /\ Https!EditIn(g, backups[run.folder].saved[g]) \in Nat
         /\ Https!EditIn(g, backups[run.folder].saved[g]) <= edits
  BY <1>1, <1>2, ContentsThere, EditInIs DEF Numbered
<1>6. Https!EditIn(f, disk[f]) <= Https!EditIn(f, backups[run.folder].saved[f])
  <2>1. disk[f] \in Https!Known(run.folder, f) BY <1>1 DEF Undoings
  <2>2. CASE disk[f] = backups[run.folder].saved[f] BY <1>5, <2>2
  <2>3. CASE disk[f] \in backups[run.folder].written[f] BY <1>1, <1>2, <2>3 DEF NotAhead
  <2> QED BY <2>1, <2>2, <2>3 DEF Https!Known
<1>7. ASSUME NEW g \in Https!Files
      PROVE  /\ Https!EditIn(g, disk'[g]) <= edits
             /\ ~(Https!EditIn(g, disk'[g]) < Https!EditIn(g, disk[g]))
  <2>1. CASE disk'[g] = disk[g] BY <1>5, <2>1
  <2>2. CASE g = f /\ disk'[g] = backups[run.folder].saved[f]
    <3> DEFINE new == Https!EditIn(f, backups[run.folder].saved[f])
               old == Https!EditIn(f, disk[f])
    <3>1. new \in Nat /\ old \in Nat /\ old <= new /\ new <= edits BY <1>5, <1>6
    <3>2. Https!EditIn(g, disk'[g]) = new /\ Https!EditIn(g, disk[g]) = old BY <2>2
    <3> HIDE DEF new, old
    <3> QED BY <3>1, <3>2
  <2> QED BY <1>4, <2>1, <2>2
<1>8. Numbered' BY <1>1, <1>2, <1>7 DEF Numbered, Newest, Https!EditIn
<1>9. ReadEarlier' BY <1>3 DEF ReadEarlier, Https!Doing
<1> QED BY <1>1, <1>2, <1>7, <1>8, <1>9 DEF NotAhead, Newest

LEMMA EditKeepsEdits ==
    ASSUME Https!BoundsAssumption, Https!NamesAssumption, EditsInv,
           NEW f \in {"env", "nginx"}, Https!Edit(f)
    PROVE  ReadEarlier' /\ NotAhead' /\ Numbered'
<1>1. HttpsTypes /\ ReadEarlier /\ NotAhead /\ Numbered BY DEF EditsInv, UndoableInv
<1>2. /\ edits' = edits + 1 /\ edits \in Nat /\ UNCHANGED <<backups, run>>
  BY <1>1 DEF Https!Edit, HttpsTypes, Https!BoundsAssumption
<1>3. /\ \A g \in Https!Files \ {f} : disk'[g] = disk[g]
      /\ Https!EditIn(f, disk'[f]) = edits'
  <2>1. CASE f = "env"
    <3>1. disk' = [disk EXCEPT !.env.other = edits'] BY <2>1 DEF Https!Edit
    <3>2. disk \in Https!Disk /\ disk.env \in Https!Env BY <1>1 DEF HttpsTypes, Https!Disk
    <3> QED BY <2>1, <3>1, <3>2 DEF Https!EditIn, Https!Files, Https!Disk, Https!Env
  <2>2. CASE f = "nginx"
    <3>1. disk' = [disk EXCEPT !.nginx.edit = edits'] /\ disk.nginx # None
      BY <2>2 DEF Https!Edit
    <3>2. disk \in Https!Disk /\ disk.nginx \in Https!Nginx
      BY <1>1, <3>1 DEF HttpsTypes, Https!Disk
    <3>3. PICK c : c = [disk.nginx EXCEPT !.edit = edits'] OBVIOUS
    <3>4. c.edit = edits' /\ c \in Https!Nginx
      <4>1. edits' \in 0..MaxEdits BY <1>1, <1>2 DEF Https!Edit, HttpsTypes, Https!BoundsAssumption
      <4> QED BY <3>2, <3>3, <4>1 DEF Https!Nginx
    <3>5. disk'.nginx = c /\ \A g \in Https!Files \ {"nginx"} : disk'[g] = disk[g]
      BY <3>1, <3>2, <3>3 DEF Https!Files, Https!Disk
    <3>6. c # None BY <3>4 DEF Https!NamesAssumption
    <3> QED BY <2>2, <3>4, <3>5, <3>6 DEF Https!EditIn
  <2> QED BY <2>1, <2>2
<1>4. f \in Https!Files /\ \A g \in Https!Files : Https!EditIn(g, disk[g]) \in Nat
  BY <1>1, ContentsThere, EditInIs DEF Https!Files
<1>5. Numbered'
  <2>1. ASSUME NEW g \in Https!Files PROVE Https!EditIn(g, disk'[g]) <= edits'
    <3>1. CASE g = f BY <1>2, <1>3, <3>1
    <3>2. CASE g # f
      <4>1. disk'[g] = disk[g] /\ Https!EditIn(g, disk[g]) <= edits BY <1>1, <1>3, <3>2 DEF Numbered
      <4> QED BY <1>2, <1>4, <4>1
    <3> QED BY <3>1, <3>2
  <2>2. ASSUME NEW g \in Https!Files, NEW b \in 1..Newest
        PROVE  Https!EditIn(g, backups[b].saved[g]) <= edits'
    <3>1. Https!EditIn(g, backups[b].saved[g]) \in Nat BY <1>1, ContentsThere, EditInIs
    <3> QED BY <1>1, <1>2, <3>1 DEF Numbered
  <2> QED BY <1>2, <2>1, <2>2 DEF Numbered, Newest, Https!EditIn
<1>6. disk'.env.other >= disk.env.other /\ disk'.env.other \in Nat /\ disk.env.other \in Nat
  <2>1. disk.env.other \in Nat /\ disk.env.other <= edits
    BY <1>1, <1>4, ContentsThere DEF Numbered, Https!Files
  <2>2. CASE f = "env" BY <1>2, <1>3, <2>1, <2>2 DEF Https!EditIn
  <2>3. CASE f # "env" BY <1>3, <2>1, <2>3 DEF Https!Files
  <2> QED BY <2>2, <2>3
<1>7. ReadEarlier' BY <1>1, <1>2, <1>6 DEF ReadEarlier, Https!Doing
<1> QED BY <1>1, <1>2, <1>5, <1>7 DEF NotAhead, Newest

\* The rest changes no file and no backup, and no transaction goes on.
LEMMA OthersKeepEdits ==
    ASSUME EditsInv, UNCHANGED <<disk, backups, edits>>,
           run' = run \/ run'.mode \notin {"start", "do"}
    PROVE  ReadEarlier' /\ NotAhead' /\ Numbered'
BY DEF EditsInv, ReadEarlier, NotAhead, Numbered, Newest, Https!Doing

LEMMA StepKeepsEdits ==
    ASSUME Https!BoundsAssumption, Https!NamesAssumption, EditsInv, [Https!Next]_(Https!vars)
    PROVE  EditsInv' /\ Https!NoEditLostStep
<1>1. UndoableInv /\ HttpsTypes /\ Numbered BY DEF EditsInv, UndoableInv
<1>2. UndoableInv' BY <1>1, StepKeepsUndoable
<1>3. /\ DOMAIN backups = 1..Newest /\ edits \in Nat
      /\ \A f \in Https!Files : Https!EditIn(f, disk[f]) \in Nat
  BY <1>1, ContentsThere, EditInIs DEF HttpsTypes, Https!BoundsAssumption
<1> DEFINE Kept == ReadEarlier' /\ NotAhead' /\ Numbered'
           Known == \A f \in Https!Files :
                       disk'[f] # disk[f] => \E b \in DOMAIN backups : disk[f] \in Https!Known(b, f)
           Stays == \A f \in Https!Files :
                       Https!EditIn(f, disk'[f]) < Https!EditIn(f, disk[f]) =>
                           Https!Doing /\ disk[f] = backups[run.folder].saved[f]
<1>4. disk' = disk => Known /\ Stays BY <1>3
<1>5. CASE (\E h \in Hosts : Https!Setup(h)) \/ Https!Disable \/ Https!Detach
  <2>1. Kept BY <1>5, StartsKeepEdits
  <2>2. disk' = disk BY <1>5 DEF Https!Setup, Https!Disable, Https!Detach, Https!Start
  <2> QED BY <1>2, <1>4, <2>1, <2>2 DEF EditsInv, Https!NoEditLostStep
<1>6. CASE Https!Snapshot
  <2>1. Kept BY <1>6, SnapshotKeepsEdits
  <2>2. disk' = disk BY <1>6 DEF Https!Snapshot
  <2> QED BY <1>2, <1>4, <2>1, <2>2 DEF EditsInv, Https!NoEditLostStep
<1>7. CASE Https!Note
  <2>1. Kept BY <1>7, NoteKeepsEdits
  <2>2. disk' = disk BY <1>7 DEF Https!Note
  <2> QED BY <1>2, <1>4, <2>1, <2>2 DEF EditsInv, Https!NoEditLostStep
<1>8. CASE Https!Publish
  <2>1. Kept BY <1>8, PublishKeepsEdits
  <2>2. /\ Https!Writing /\ run.intent /\ disk' = [disk EXCEPT ![Https!Target] = Https!Content]
        /\ UNCHANGED <<backups, foreign>>
    BY <1>8 DEF Https!Publish, Https!history
  <2>3. Known BY <1>1, <2>2, PutContent
  <2>4. Stays BY <2>2, PutLosesNothing DEF Https!Writing
  <2> QED BY <1>2, <2>1, <2>3, <2>4 DEF EditsInv, Https!NoEditLostStep
<1>9. CASE Https!Serve
  <2>1. Kept BY <1>9, ServeKeepsEdits
  <2>2. disk' = disk BY <1>9 DEF Https!Serve
  <2> QED BY <1>2, <1>4, <2>1, <2>2 DEF EditsInv, Https!NoEditLostStep
<1>10. CASE Https!Fail
  <2>1. Kept BY <1>10, FailKeepsEdits
  <2>2. \/ disk' = disk
        \/ Https!Writing /\ run.intent /\ disk' = [disk EXCEPT ![Https!Target] = Https!Content]
    BY <1>10 DEF Https!Fail
  <2>3. UNCHANGED <<backups, foreign>> BY <1>10 DEF Https!Fail
  <2>4. Known BY <1>1, <1>4, <2>2, <2>3, PutContent
  <2>5. Stays BY <1>4, <2>2, PutLosesNothing DEF Https!Writing
  <2> QED BY <1>2, <2>1, <2>4, <2>5 DEF EditsInv, Https!NoEditLostStep
<1>11. ASSUME NEW f \in Https!Files, Https!PutBack(f) PROVE EditsInv' /\ Https!NoEditLostStep
  <2>1. Kept /\ Stays BY <1>11, PutBackLosesNothing
  <2>2. Known BY <1>1, <1>11, PutBackKeepsUndoable
  <2> QED BY <1>2, <2>1, <2>2 DEF EditsInv, Https!NoEditLostStep
<1>12. ASSUME NEW f \in {"env", "nginx"}, Https!Edit(f) PROVE EditsInv' /\ Https!NoEditLostStep
  <2>1. Kept BY <1>12, EditKeepsEdits
  <2>2. edits' # edits BY <1>3, <1>12 DEF Https!Edit
  <2> QED BY <1>2, <2>1, <2>2 DEF EditsInv, Https!NoEditLostStep
<1>13. CASE \/ Https!Commit \/ Https!Recover \/ (\E b \in 1..MaxBackups : Https!Rollback(b))
            \/ Https!Finish \/ Https!Kill \/ UNCHANGED Https!vars
  <2>1. /\ UNCHANGED <<disk, backups, edits>>
        /\ run' = run \/ run'.mode \notin {"start", "do"}
    BY <1>13 DEF Https!Commit, Https!Recover, Https!Rollback, Https!Undo, Https!Finish, Https!Kill,
       Https!vars, Https!history, Https!AtRest
  <2>2. Kept BY <2>1, OthersKeepEdits
  <2> QED BY <1>2, <1>4, <2>1, <2>2 DEF EditsInv, Https!NoEditLostStep
<1> QED BY <1>5, <1>6, <1>7, <1>8, <1>9, <1>10, <1>11, <1>12, <1>13 DEF Https!Next

\* What a tool replaces is in some backup or was written by a tool, and an edit
\* leaves the live file only by a transaction that has it in its own backup.
THEOREM EditsAreBackedUp ==
    ASSUME Https!BoundsAssumption, Https!NamesAssumption
    PROVE  Https!Spec => Https!NoEditLost
<1>1. Https!Init => EditsInv BY InitEdits
<1>2. EditsInv /\ [Https!Next]_(Https!vars) => EditsInv' /\ Https!NoEditLostStep
  BY StepKeepsEdits
<1> QED BY <1>1, <1>2, PTL DEF Https!Spec, Https!NoEditLost

-----------------------------------------------------------------------------
(* Side by side: a behaviour is of one tool to its end, and as far as that tool *)
(* is concerned a behaviour of its module. *)

Is(t) == tool = t

LEMMA PartOfMihomo ==
    /\ Spec => (Is("mihomo") => Mihomo!Spec)
    /\ Spec => (~Is("mihomo") => []~Is("mihomo"))
<1>1. Init /\ Is("mihomo") => Mihomo!Init BY DEF Init, Is
<1>2. Is("mihomo") /\ [Next]_vars => Is("mihomo")' /\ [Mihomo!Next]_(Mihomo!vars)
  <2> SUFFICES ASSUME Is("mihomo"), [Next]_vars
               PROVE  Is("mihomo")' /\ [Mihomo!Next]_(Mihomo!vars)
    OBVIOUS
  <2>1. CASE UNCHANGED vars
    BY <2>1 DEF vars, mihomo, Mihomo!vars, Is
  <2>2. CASE Next BY <2>2 DEF Next, Is
  <2> QED BY <2>1, <2>2
<1>3. ~Is("mihomo") /\ [Next]_vars => ~Is("mihomo")' BY DEF Next, vars, Is
<1> QED BY <1>1, <1>2, <1>3, PTL DEF Spec, Mihomo!Spec

LEMMA PartOfUpgrade ==
    /\ Spec => (Is("upgrade") => Upgrade!Spec)
    /\ Spec => (~Is("upgrade") => []~Is("upgrade"))
<1>1. Init /\ Is("upgrade") => Upgrade!Init BY DEF Init, Is
<1>2. Is("upgrade") /\ [Next]_vars => Is("upgrade")' /\ [Upgrade!Next]_(Upgrade!vars)
  <2> SUFFICES ASSUME Is("upgrade"), [Next]_vars
               PROVE  Is("upgrade")' /\ [Upgrade!Next]_(Upgrade!vars)
    OBVIOUS
  <2>1. CASE UNCHANGED vars
    BY <2>1 DEF vars, upgrade, Upgrade!vars, Is
  <2>2. CASE Next BY <2>2 DEF Next, Is
  <2> QED BY <2>1, <2>2
<1>3. ~Is("upgrade") /\ [Next]_vars => ~Is("upgrade")' BY DEF Next, vars, Is
<1> QED BY <1>1, <1>2, <1>3, PTL DEF Spec, Upgrade!Spec

LEMMA PartOfCatalog ==
    /\ Spec => (Is("catalog") => Catalog!Spec)
    /\ Spec => (~Is("catalog") => []~Is("catalog"))
<1>1. Init /\ Is("catalog") => Catalog!Init BY DEF Init, Is
<1>2. Is("catalog") /\ [Next]_vars => Is("catalog")' /\ [Catalog!Next]_(Catalog!vars)
  <2> SUFFICES ASSUME Is("catalog"), [Next]_vars
               PROVE  Is("catalog")' /\ [Catalog!Next]_(Catalog!vars)
    OBVIOUS
  <2>1. CASE UNCHANGED vars
    BY <2>1 DEF vars, catalog, Catalog!vars, Is
  <2>2. CASE Next BY <2>2 DEF Next, Is
  <2> QED BY <2>1, <2>2
<1>3. ~Is("catalog") /\ [Next]_vars => ~Is("catalog")' BY DEF Next, vars, Is
<1> QED BY <1>1, <1>2, <1>3, PTL DEF Spec, Catalog!Spec

LEMMA PartOfSnapshot ==
    /\ Spec => (Is("snapshot") => Snapshot!Spec)
    /\ Spec => (~Is("snapshot") => []~Is("snapshot"))
<1>1. Init /\ Is("snapshot") => Snapshot!Init BY DEF Init, Is
<1>2. Is("snapshot") /\ [Next]_vars => Is("snapshot")' /\ [Snapshot!Next]_(Snapshot!vars)
  <2> SUFFICES ASSUME Is("snapshot"), [Next]_vars
               PROVE  Is("snapshot")' /\ [Snapshot!Next]_(Snapshot!vars)
    OBVIOUS
  <2>1. CASE UNCHANGED vars
    BY <2>1 DEF vars, snapshot, Snapshot!vars, Is
  <2>2. CASE Next BY <2>2 DEF Next, Is
  <2> QED BY <2>1, <2>2
<1>3. ~Is("snapshot") /\ [Next]_vars => ~Is("snapshot")' BY DEF Next, vars, Is
<1> QED BY <1>1, <1>2, <1>3, PTL DEF Spec, Snapshot!Spec

LEMMA PartOfSidecar ==
    /\ Spec => (Is("sidecar") => Sidecar!Spec)
    /\ Spec => (~Is("sidecar") => []~Is("sidecar"))
<1>1. Init /\ Is("sidecar") => Sidecar!Init BY DEF Init, Is
<1>2. Is("sidecar") /\ [Next]_vars => Is("sidecar")' /\ [Sidecar!Next]_(Sidecar!vars)
  <2> SUFFICES ASSUME Is("sidecar"), [Next]_vars
               PROVE  Is("sidecar")' /\ [Sidecar!Next]_(Sidecar!vars)
    OBVIOUS
  <2>1. CASE UNCHANGED vars
    BY <2>1 DEF vars, sidecar, Sidecar!vars, Is
  <2>2. CASE Next BY <2>2 DEF Next, Is
  <2> QED BY <2>1, <2>2
<1>3. ~Is("sidecar") /\ [Next]_vars => ~Is("sidecar")' BY DEF Next, vars, Is
<1> QED BY <1>1, <1>2, <1>3, PTL DEF Spec, Sidecar!Spec

LEMMA PartOfHttps ==
    /\ Spec => (Is("https") => Https!Spec)
    /\ Spec => (~Is("https") => []~Is("https"))
<1>1. Init /\ Is("https") => Https!Init BY DEF Init, Is
<1>2. Is("https") /\ [Next]_vars => Is("https")' /\ [Https!Next]_(Https!vars)
  <2> SUFFICES ASSUME Is("https"), [Next]_vars
               PROVE  Is("https")' /\ [Https!Next]_(Https!vars)
    OBVIOUS
  <2>1. CASE UNCHANGED vars
    BY <2>1 DEF vars, https, Https!vars, Is
  <2>2. CASE Next BY <2>2 DEF Next, Is
  <2> QED BY <2>1, <2>2
<1>3. ~Is("https") /\ [Next]_vars => ~Is("https")' BY DEF Next, vars, Is
<1> QED BY <1>1, <1>2, <1>3, PTL DEF Spec, Https!Spec

\* COMPATIBLE is said only of a build that ran here (core/mihomo_manager.py).
THEOREM CompatibleAlwaysVerified == Spec => []CompatibleWasVerified
<1>1. Mihomo!Spec => [](Mihomo!TypeOK /\ Mihomo!CompatibleWasVerified)
  BY RootToolsAssumption, CompatibleRan DEF RootToolsAssumption
<1>2. Mihomo!TypeOK /\ Mihomo!CompatibleWasVerified => CompatibleWasVerified
  BY DEF CompatibleWasVerified
<1>3. ~Is("mihomo") => CompatibleWasVerified BY DEF CompatibleWasVerified, Is
<1> QED BY <1>1, <1>2, <1>3, PartOfMihomo, PTL

\* An install that gives up, without a kill or a failing restore, leaves the pair
\* of files it found or one it verified (core/mihomo_manager.py).
THEOREM PreviousAlwaysPreserved == Spec => PreviousPreserved
<1>1. Mihomo!Spec => Mihomo!PreviousPreserved
  BY RootToolsAssumption, PreviousIsPreserved DEF RootToolsAssumption
<1>2. Mihomo!PreviousPreserved => [][Mihomo!PreservedStep]_(Mihomo!vars)
  BY PTL DEF Mihomo!PreviousPreserved
<1>3. [Mihomo!PreservedStep]_(Mihomo!vars) => [tool = "mihomo" => Mihomo!PreservedStep]_vars
  <2>1. UNCHANGED Mihomo!vars => Mihomo!PreservedStep BY DEF Mihomo!vars, Mihomo!PreservedStep
  <2> QED BY <2>1
<1>4. ~Is("mihomo") => [tool = "mihomo" => Mihomo!PreservedStep]_vars BY DEF Is
<1> QED BY <1>1, <1>2, <1>3, <1>4, PartOfMihomo, PTL DEF PreviousPreserved

\* Two upgrades never work at once, and one that is cut off leaves a backup of what it
\* replaced or migrated, credentials to sign in with and those it took out of .env,
\* and can go on (update.sh, core/migrate.py, scripts/deployment_guard.py).
THEOREM AlwaysUpgradesSound == Spec => []UpgradesSound
<1>1. Upgrade!Spec => [](Upgrade!TypeOK /\ Upgrade!UpgradesSound)
  BY RootToolsAssumption, Upgrade!UpgradesAlwaysSound DEF RootToolsAssumption
<1>2. Upgrade!TypeOK /\ Upgrade!UpgradesSound => UpgradesSound BY DEF UpgradesSound
<1>3. ~Is("upgrade") => UpgradesSound BY DEF UpgradesSound, Is
<1> QED BY <1>1, <1>2, <1>3, PartOfUpgrade, PTL

\* A snapshot and an operation have one record, no return hides a record it
\* published, and trust is in what was registered (scripts/backup_catalog.py).
THEOREM CatalogAlwaysSound == Spec => []CatalogSound
<1>1. Catalog!Spec => [](Catalog!TypeOK /\ Catalog!CatalogSound)
  BY RootToolsAssumption, CatalogIsSound DEF RootToolsAssumption
<1>2. Catalog!TypeOK /\ Catalog!CatalogSound => CatalogSound BY DEF CatalogSound
<1>3. ~Is("catalog") => CatalogSound BY DEF CatalogSound, Is
<1> QED BY <1>1, <1>2, <1>3, PartOfCatalog, PTL

\* A snapshot that is reported is the source of one moment, one that is published
\* is complete and stays (scripts/backup_create.py, scripts/backup_collect.py).
THEOREM SnapshotAlwaysSound == Spec => []SnapshotSound
<1>1. Snapshot!Spec => [](Snapshot!TypeOK /\ Snapshot!SnapshotSound)
  BY RootToolsAssumption, SnapshotIsSound DEF RootToolsAssumption
<1>2. Snapshot!TypeOK /\ Snapshot!SnapshotSound => SnapshotSound BY DEF SnapshotSound
<1>3. ~Is("snapshot") => SnapshotSound BY DEF SnapshotSound, Is
<1> QED BY <1>1, <1>2, <1>3, PartOfSnapshot, PTL

\* An upgrade is permitted only beside the legacy backup that was looked at, in
\* STRICT only with a trusted copy of it, and never over a failed read
\* (scripts/backup_sidecar_update.py).
THEOREM PermittedAlwaysCaptured == Spec => []PermittedIsWhatWasCaptured
<1>1. Sidecar!Spec => [](Sidecar!TypeOK /\ Sidecar!PermittedIsWhatWasCaptured)
  BY RootToolsAssumption, PermittedIsCaptured DEF RootToolsAssumption
<1>2. Sidecar!TypeOK /\ Sidecar!PermittedIsWhatWasCaptured => PermittedIsWhatWasCaptured
  BY DEF PermittedIsWhatWasCaptured
<1>3. ~Is("sidecar") => PermittedIsWhatWasCaptured BY DEF PermittedIsWhatWasCaptured, Is
<1> QED BY <1>1, <1>2, <1>3, PartOfSidecar, PTL

\* Wherever the latest HTTPS transaction is cut off it can be undone, and when none
\* is half done the services run what is on disk and no setting of a past domain is
\* left (core/https_manager.py).
THEOREM LatestAlwaysUndone == Spec => []LatestCanBeUndone
<1>1. Https!Spec => [](/\ Https!TypeOK /\ Https!LatestCanBeUndone
                       /\ Https!ServedAsOnDisk /\ Https!SettingsComeBack)
  BY RootToolsAssumption, TransactionsAreSound DEF RootToolsAssumption
<1>2. Https!TypeOK /\ Https!LatestCanBeUndone /\ Https!ServedAsOnDisk /\ Https!SettingsComeBack
        => LatestCanBeUndone
  BY DEF LatestCanBeUndone
<1>3. ~Is("https") => LatestCanBeUndone BY DEF LatestCanBeUndone, Is
<1> QED BY <1>1, <1>2, <1>3, PartOfHttps, PTL

\* A file that a tool replaces, or puts back, is in some backup or was written by a
\* tool before, and an edit of an administrator leaves the live file only by a
\* transaction that saved it first (write, restore of core/https_manager.py).
THEOREM EditsNeverLost == Spec => NoEditLost
<1>1. Https!Spec => Https!NoEditLost
  BY RootToolsAssumption, EditsAreBackedUp DEF RootToolsAssumption
<1>2. Https!NoEditLost => [][Https!NoEditLostStep]_(Https!vars)
  BY PTL DEF Https!NoEditLost
<1>3. [Https!NoEditLostStep]_(Https!vars) => [tool = "https" => Https!NoEditLostStep]_vars
  <2>1. UNCHANGED Https!vars => Https!NoEditLostStep BY DEF Https!vars, Https!NoEditLostStep
  <2> QED BY <2>1
<1>4. ~Is("https") => [tool = "https" => Https!NoEditLostStep]_vars BY DEF Is
<1> QED BY <1>1, <1>2, <1>3, <1>4, PartOfHttps, PTL DEF NoEditLost

=============================================================================
