----------------------------- MODULE BootProofs -----------------------------
(***************************************************************************)
(* Proofs about Boot: whatever files are replaced under a boot, wherever   *)
(* it is cut off and however often it is started again, keys are held and  *)
(* published only under the fingerprint they were checked against.         *)
(*                                                                         *)
(* The properties speak of a mint that serves; the invariant says what     *)
(* each phase of Boot::start already knows, since the check that a later   *)
(* phase relies on was made against a file that may be gone by then.       *)
(***************************************************************************)
EXTENDS Boot, TLAPS

(* The phases, and those that come after each check *)
ManifestRead ==
    {"capsule", "report", "unseal", "anchor", "genesis", "genesis_write", "origin",
     "wallet", "scan", "sanity", "price", "presale", "params", "identity",
     "identity_write", "serve"}
CapsuleRead == ManifestRead \ {"capsule"}
Reported == CapsuleRead \ {"report"}
Unsealed == Reported \ {"unseal"}
Anchored == Unsealed \ {"anchor"}
Recorded == Anchored \ {"genesis", "genesis_write"}

(* What the process has loaded when a phase begins *)
LoadedBy(p) ==
    CASE p = "price" -> {"chain"}
      [] p = "presale" -> {"chain", "price"}
      [] p = "params" -> {"chain", "price", "table"}
      [] p \in {"identity", "identity_write", "serve"} ->
             Params \cup {"chain", "price", "table"}
      [] OTHER -> {}

Covered(c) == [fingerprint |-> c.fingerprint, capsule |-> c] \in Report

(* What a boot knows in each phase *)
Knows ==
    /\ phase \in ManifestRead => boot.manifest \in Manifest
    /\ phase \in CapsuleRead =>
         boot.capsule \in Capsule /\ boot.capsule.fingerprint = boot.manifest.fingerprint
    /\ attested /\ phase \in Reported => Covered(boot.capsule)
    /\ phase \in Unsealed => boot.keys \in Seeds /\ boot.keys = boot.manifest.fingerprint
    /\ phase \notin Unsealed => boot.keys = None
    /\ phase \in Anchored => boot.manifest.anchor \in Mined
    /\ attested /\ phase \in Recorded => genesis = GenesisFacts
    /\ phase = "serve" => identity = [keys |-> boot.keys, report |-> attested]
    /\ boot.loaded = LoadedBy(phase)

(* What a document that is whole may say, whichever boot wrote it *)
Believable ==
    /\ genesis \notin {None, Torn} => genesis.anchor \in Mined
    /\ attested /\ genesis \notin {None, Torn} =>
          [fingerprint |-> genesis.fingerprint, capsule |-> genesis.capsule] \in Report
    /\ attested /\ identity \notin {None, Torn} => identity.keys \in AttestedSeeds

BootInv ==
    /\ BootTypeOK
    /\ attested \in BOOLEAN /\ established \in BOOLEAN
    /\ phase \in ManifestRead \cup {"off", "manifest"}
    /\ Knows
    /\ Believable

-----------------------------------------------------------------------------
LEMMA BootInvGivesKeysNamed == BootInv => KeysNamed
BY DEF BootInv, Knows, KeysNamed, Unsealed, Reported, CapsuleRead

LEMMA BootInvGivesDocumentsAgree == BootInv => DocumentsAgree
<1> SUFFICES ASSUME BootInv PROVE DocumentsAgree
  OBVIOUS
<1>1. phase = "serve" => boot.loaded = Params \cup {"chain", "price", "table"}
  BY DEF BootInv, Knows, LoadedBy
<1>2. attested /\ phase = "serve" => genesis = GenesisFacts /\ identity.keys = genesis.fingerprint
  <2> SUFFICES ASSUME attested, phase = "serve"
               PROVE  genesis = GenesisFacts /\ identity.keys = genesis.fingerprint
    OBVIOUS
  <2>1. phase \in CapsuleRead /\ phase \in Unsealed /\ phase \in Recorded
    BY DEF Recorded, Anchored, Unsealed, Reported, CapsuleRead, ManifestRead
  <2>2. /\ genesis = GenesisFacts
        /\ identity.keys = boot.keys /\ boot.keys = boot.capsule.fingerprint
    BY <2>1 DEF BootInv, Knows
  <2> QED
    BY <2>2 DEF GenesisFacts
<1> QED
  BY <1>1, <1>2 DEF BootInv, Believable, DocumentsAgree

LEMMA DeployedAreFiles == Deployed \subseteq Files
<1> SUFFICES ASSUME NEW s \in AttestedSeeds, NEW a \in Mined
             PROVE  [manifest |-> [here |-> TRUE, fingerprint |-> s, anchor |-> a],
                     capsule |-> KeygenCapsule(s),
                     report |-> [fingerprint |-> s, capsule |-> KeygenCapsule(s)],
                     params |-> Params] \in Files
  BY DEF Deployed
<1>1. s \in Seeds /\ a \in Anchors
  BY BootAssumption
<1>2. [here |-> TRUE, fingerprint |-> s, anchor |-> a] \in Manifest
  BY <1>1 DEF Manifest
<1>3. KeygenCapsule(s) \in Capsule
  BY <1>1 DEF KeygenCapsule, Capsule
<1>4. [fingerprint |-> s, capsule |-> KeygenCapsule(s)] \in Report
  BY DEF Report
<1> HIDE DEF KeygenCapsule
<1> QED
  BY <1>2, <1>3, <1>4 DEF Files

LEMMA InitBootInv == Init => BootInv
<1> SUFFICES ASSUME Init PROVE BootInv
  OBVIOUS
<1>1. disk \in Files
  BY DeployedAreFiles DEF Init
<1>2. BootTypeOK
  BY <1>1 DEF Init, BootTypeOK, Nothing
<1>3. Knows
  BY DEF Init, Knows, Nothing, LoadedBy, ManifestRead, CapsuleRead, Reported, Unsealed,
         Anchored, Recorded
<1> QED
  BY <1>2, <1>3 DEF Init, BootInv, Believable

-----------------------------------------------------------------------------
(***************************************************************************)
(* Steps                                                                   *)
(***************************************************************************)

(* The end of a process leaves the documents as they are. *)
LEMMA DownKeeps ==
    ASSUME BootInv, Down, UNCHANGED <<attested, disk, established, genesis, identity>>
    PROVE  BootInv'
<1>1. BootTypeOK'
  BY DEF BootInv, BootTypeOK, Down, Nothing
<1>2. Knows'
  BY DEF Down, Knows, Nothing, LoadedBy, ManifestRead, CapsuleRead, Reported, Unsealed,
         Anchored, Recorded
<1> QED
  BY <1>1, <1>2 DEF BootInv, Believable, Down

LEMMA StartKeeps ==
    ASSUME BootInv, Start
    PROVE  BootInv'
<1> SUFFICES ASSUME ~BootInv' PROVE FALSE
  OBVIOUS
<1>1. /\ phase = "off" /\ phase' = "manifest" /\ boot' = Nothing
      /\ UNCHANGED <<attested, disk, established, genesis, identity>>
  BY DownKeeps DEF Step, Kept, Start
<1>2. BootTypeOK'
  BY <1>1 DEF BootInv, BootTypeOK, Nothing
<1>3. Knows'
  BY <1>1 DEF Knows, Nothing, LoadedBy, ManifestRead, CapsuleRead, Reported, Unsealed,
              Anchored, Recorded
<1> QED
  BY <1>1, <1>2, <1>3 DEF BootInv, Believable

LEMMA LoadCeremonyAnchorKeeps ==
    ASSUME BootInv, LoadCeremonyAnchor
    PROVE  BootInv'
<1> SUFFICES ASSUME ~BootInv' PROVE FALSE
  OBVIOUS
<1>1. /\ phase = "manifest" /\ phase' = "capsule" /\ disk.manifest # None
      /\ boot' = [boot EXCEPT !.manifest = disk.manifest]
      /\ UNCHANGED <<attested, disk, established, genesis, identity>>
  BY DownKeeps DEF Step, Kept, LoadCeremonyAnchor
<1>2. disk.manifest \in Manifest
  BY <1>1 DEF BootInv, BootTypeOK, Files
<1>3. BootTypeOK'
  BY <1>1, <1>2 DEF BootInv, BootTypeOK
<1>4. Knows'
  BY <1>1, <1>2 DEF BootInv, BootTypeOK, Knows, LoadedBy, ManifestRead, CapsuleRead, Reported,
                    Unsealed, Anchored, Recorded
<1> QED
  BY <1>1, <1>3, <1>4 DEF BootInv, Believable, ManifestRead

LEMMA ReadCapsuleKeeps ==
    ASSUME BootInv, ReadCapsule
    PROVE  BootInv'
<1> SUFFICES ASSUME ~BootInv' PROVE FALSE
  OBVIOUS
<1>1. /\ phase = "capsule" /\ phase' = IF attested THEN "report" ELSE "unseal"
      /\ disk.capsule # None /\ disk.capsule.fingerprint = boot.manifest.fingerprint
      /\ boot' = [boot EXCEPT !.capsule = disk.capsule]
      /\ UNCHANGED <<attested, disk, established, genesis, identity>>
  BY DownKeeps DEF Step, Kept, ReadCapsule
<1>2. disk.capsule \in Capsule
  BY <1>1 DEF BootInv, BootTypeOK, Files
<1>3. BootTypeOK'
  BY <1>1, <1>2 DEF BootInv, BootTypeOK
<1>4. Knows'
  BY <1>1, <1>2 DEF BootInv, BootTypeOK, Knows, LoadedBy, ManifestRead, CapsuleRead, Reported,
                    Unsealed, Anchored, Recorded
<1> QED
  BY <1>1, <1>3, <1>4 DEF BootInv, Believable, ManifestRead

LEMMA RequireKeygenAttestationKeeps ==
    ASSUME BootInv, RequireKeygenAttestation
    PROVE  BootInv'
<1> SUFFICES ASSUME ~BootInv' PROVE FALSE
  OBVIOUS
<1>1. /\ phase = "report" /\ phase' = "unseal" /\ boot' = boot
      /\ disk.report = [fingerprint |-> boot.manifest.fingerprint, capsule |-> boot.capsule]
      /\ UNCHANGED <<attested, disk, established, genesis, identity>>
  BY DownKeeps DEF Step, Kept, RequireKeygenAttestation
<1>2. boot.capsule.fingerprint = boot.manifest.fingerprint
  BY <1>1 DEF BootInv, Knows, CapsuleRead, ManifestRead
<1>3. Covered(boot.capsule)
  <2>1. disk.report \in Report \cup {None}
    BY DEF BootInv, BootTypeOK, Files
  <2>2. boot.capsule \in Capsule /\ boot.manifest.fingerprint \in Seeds
    BY <1>1 DEF BootInv, Knows, CapsuleRead, ManifestRead, Manifest
  <2>3. disk.report # None
    BY <1>1, <2>2, ReportAssumption
  <2> QED
    BY <1>1, <1>2, <2>1, <2>3 DEF Covered
<1>4. BootTypeOK'
  BY <1>1 DEF BootInv, BootTypeOK
<1>5. Knows'
  BY <1>1, <1>3 DEF BootInv, Knows, LoadedBy, ManifestRead, CapsuleRead, Reported,
                    Unsealed, Anchored, Recorded
<1> QED
  BY <1>1, <1>4, <1>5 DEF BootInv, Believable, ManifestRead

LEMMA UnsealKeeps ==
    ASSUME BootInv, Unseal
    PROVE  BootInv'
<1> SUFFICES ASSUME ~BootInv' PROVE FALSE
  OBVIOUS
<1>1. /\ phase = "unseal" /\ phase' = "anchor"
      /\ boot.capsule.seed # Foreign /\ boot.capsule.seed = boot.manifest.fingerprint
      /\ boot' = [boot EXCEPT !.keys = boot.capsule.seed]
      /\ UNCHANGED <<attested, disk, established, genesis, identity>>
  BY DownKeeps DEF Step, Kept, Unseal, VerifyFingerprint
<1>2. boot.capsule.seed \in Seeds
  BY <1>1 DEF BootInv, Knows, CapsuleRead, ManifestRead, Capsule
<1>3. BootTypeOK'
  BY <1>1, <1>2 DEF BootInv, BootTypeOK
<1>4. Knows'
  BY <1>1, <1>2 DEF BootInv, BootTypeOK, Knows, LoadedBy, ManifestRead, CapsuleRead, Reported,
                    Unsealed, Anchored, Recorded
<1> QED
  BY <1>1, <1>3, <1>4 DEF BootInv, Believable, ManifestRead

LEMMA RequireAnchorOnChainKeeps ==
    ASSUME BootInv, RequireAnchorOnChain
    PROVE  BootInv'
<1> SUFFICES ASSUME ~BootInv' PROVE FALSE
  OBVIOUS
<1>1. /\ phase = "anchor" /\ phase' = IF attested THEN "genesis" ELSE "origin"
      /\ boot.manifest.anchor \in Mined /\ boot' = boot
      /\ UNCHANGED <<attested, disk, established, genesis, identity>>
  BY DownKeeps DEF Step, Kept, RequireAnchorOnChain, AfterAnchor
<1>2. BootTypeOK'
  BY <1>1 DEF BootInv, BootTypeOK
<1>3. Knows'
  BY <1>1 DEF BootInv, Knows, LoadedBy, ManifestRead, CapsuleRead, Reported,
              Unsealed, Anchored, Recorded
<1> QED
  BY <1>1, <1>2, <1>3 DEF BootInv, Believable, ManifestRead

(* The file is truncated: the record that stood is gone until it is whole. *)
LEMMA WriteGenesisStatementKeeps ==
    ASSUME BootInv, WriteGenesisStatement
    PROVE  BootInv'
<1>1. /\ phase = "genesis" /\ phase' = "genesis_write" /\ genesis' = Torn
      /\ UNCHANGED <<attested, disk, established, boot, identity>>
  BY DEF WriteGenesisStatement, Kept
<1>2. BootTypeOK'
  BY <1>1 DEF BootInv, BootTypeOK
<1>3. Knows'
  BY <1>1 DEF BootInv, Knows, LoadedBy, ManifestRead, CapsuleRead, Reported,
              Unsealed, Anchored, Recorded
<1> QED
  BY <1>1, <1>2, <1>3 DEF BootInv, Believable, ManifestRead

LEMMA GenesisWrittenKeeps ==
    ASSUME BootInv, GenesisWritten
    PROVE  BootInv'
<1>1. /\ phase = "genesis_write" /\ phase' = "origin" /\ genesis' = GenesisFacts
      /\ UNCHANGED <<attested, disk, established, boot, identity>>
  BY DEF GenesisWritten, Kept
<1>2. /\ boot.manifest \in Manifest /\ boot.capsule \in Capsule
      /\ boot.manifest.anchor \in Mined
      /\ attested => Covered(boot.capsule)
  BY <1>1 DEF BootInv, Knows, ManifestRead, CapsuleRead, Reported, Unsealed, Anchored
<1>3. GenesisFacts \in [fingerprint : Seeds, capsule : Capsule, anchor : Anchors]
  BY <1>2 DEF GenesisFacts, Manifest, Capsule
<1>4. BootTypeOK'
  BY <1>1, <1>3 DEF BootInv, BootTypeOK
<1>5. GenesisFacts' = GenesisFacts
  BY <1>1 DEF GenesisFacts
<1>6. Knows'
  BY <1>1, <1>5 DEF BootInv, Knows, LoadedBy, ManifestRead, CapsuleRead, Reported,
              Unsealed, Anchored, Recorded
<1>7. Believable'
  BY <1>1, <1>2 DEF BootInv, Believable, GenesisFacts, Covered
<1> QED
  BY <1>1, <1>4, <1>6, <1>7 DEF BootInv, ManifestRead

(* The steps between the records and the identity document *)
LEMMA PreparationKeeps ==
    ASSUME BootInv,
           \/ OriginCheckpoint \/ WalletBorn \/ Scan \/ SanityChecks
           \/ FetchPrice \/ FetchTable \/ LoadSaplingParams
    PROVE  BootInv'
<1> SUFFICES ASSUME ~BootInv' PROVE FALSE
  OBVIOUS
<1> DEFINE path == {<<"origin", "wallet">>, <<"wallet", "scan">>, <<"scan", "sanity">>,
                    <<"sanity", "price">>, <<"price", "presale">>, <<"presale", "params">>,
                    <<"params", "identity">>}
<1>1. PICK from, to :
        /\ <<from, to>> \in path /\ phase = from /\ phase' = to
        /\ \/ from \in {"origin", "wallet"} /\ boot' = boot
           \/ from = "scan" /\ boot' = [boot EXCEPT !.scanned = established]
           \/ from = "sanity" /\ boot' = [boot EXCEPT !.loaded = @ \cup {"chain"}]
           \/ from = "price" /\ boot' = [boot EXCEPT !.loaded = @ \cup {"price"}]
           \/ from = "presale" /\ boot' = [boot EXCEPT !.loaded = @ \cup {"table"}]
           \/ from = "params" /\ boot' = [boot EXCEPT !.loaded = @ \cup Params]
        /\ UNCHANGED <<attested, disk, established, genesis, identity>>
  BY DownKeeps DEF Step, Kept, OriginCheckpoint, WalletBorn, Scan, SanityChecks, FetchPrice, FetchTable,
                   LoadSaplingParams
<1>2. /\ boot'.manifest = boot.manifest /\ boot'.capsule = boot.capsule
      /\ boot'.keys = boot.keys
  BY <1>1 DEF BootInv, BootTypeOK
<1>3. phase \in Recorded /\ phase' \in Recorded /\ phase' # "serve"
  BY <1>1 DEF Recorded, Anchored, Unsealed, Reported, CapsuleRead, ManifestRead
<1>4. BootTypeOK'
  BY <1>1 DEF BootInv, BootTypeOK
<1>5. boot'.loaded = LoadedBy(phase')
  <2>1. boot.loaded = LoadedBy(phase)
    BY DEF BootInv, Knows
  <2> QED
    BY <1>1, <2>1 DEF BootInv, BootTypeOK, LoadedBy
<1>6. GenesisFacts' = GenesisFacts
  BY <1>2 DEF GenesisFacts
<1>7. Knows'
  BY <1>1, <1>2, <1>3, <1>5, <1>6
  DEF BootInv, Knows, Recorded, Anchored, Unsealed, Reported, CapsuleRead
<1> QED
  BY <1>1, <1>3, <1>4, <1>7
  DEF BootInv, Believable, Recorded, Anchored, Unsealed, Reported, CapsuleRead

LEMMA IdentityKeeps ==
    ASSUME BootInv, WriteIdentity \/ IdentityWritten
    PROVE  BootInv'
<1>1. UNCHANGED <<attested, disk, established, boot, genesis>>
      /\ phase \in Recorded /\ phase' \in Recorded
      /\ LoadedBy(phase') = LoadedBy(phase)
  BY DEF WriteIdentity, IdentityWritten, Kept, LoadedBy, Recorded, Anchored, Unsealed, Reported,
         CapsuleRead, ManifestRead
<1>2. phase \in CapsuleRead /\ phase \in Reported /\ phase \in Unsealed
  BY <1>1 DEF Recorded, Anchored, Unsealed, Reported
<1>3. /\ boot.keys \in Seeds /\ boot.keys = boot.capsule.fingerprint
      /\ attested => Covered(boot.capsule)
  BY <1>2 DEF BootInv, Knows
<1>4. /\ \/ identity' = Torn /\ phase' # "serve"
         \/ identity' = [keys |-> boot.keys, report |-> attested]
      /\ attested \in BOOLEAN
  BY DEF WriteIdentity, IdentityWritten, BootInv
<1>5. BootTypeOK'
  <2>1. identity' \in {None, Torn} \cup [keys : Seeds, report : BOOLEAN]
    BY <1>3, <1>4
  <2>2. phase' # "off"
    BY <1>1 DEF Recorded, Anchored, Unsealed, Reported, CapsuleRead, ManifestRead
  <2> QED
    BY <1>1, <2>1, <2>2 DEF BootInv, BootTypeOK
<1>6. GenesisFacts' = GenesisFacts
  BY <1>1 DEF GenesisFacts
<1>7. Knows'
  BY <1>1, <1>4, <1>6
  DEF BootInv, Knows, Recorded, Anchored, Unsealed, Reported, CapsuleRead
<1>8. attested => boot.keys \in AttestedSeeds
  BY <1>3 DEF Covered, Report
<1>9. Believable'
  BY <1>1, <1>4, <1>8 DEF BootInv, Believable
<1> QED
  BY <1>1, <1>5, <1>7, <1>9
  DEF BootInv, Recorded, Anchored, Unsealed, Reported, CapsuleRead

(* The operator's files are files, whatever they hold. *)
LEMMA ReplaceKeeps ==
    ASSUME BootInv, NEW d \in Variants(disk) \cup Deployed, Replace(d)
    PROVE  BootInv'
<1>1. d \in Files
  <2>1. CASE d \in Deployed
    BY <2>1, DeployedAreFiles
  <2>2. CASE d \in Variants(disk)
    BY <2>2 DEF Variants, Files, BootInv, BootTypeOK
  <2> QED
    BY <2>1, <2>2
<1>2. disk' = d /\ UNCHANGED <<attested, established, phase, boot, genesis, identity>>
  BY DEF Replace
<1>3. BootTypeOK'
  BY <1>1, <1>2 DEF BootInv, BootTypeOK
<1>4. Knows' /\ Believable'
  BY <1>2 DEF BootInv, Knows, Believable, GenesisFacts
<1> QED
  BY <1>2, <1>3, <1>4 DEF BootInv

LEMMA NextBootInv == BootInv /\ [Next]_vars => BootInv'
<1> SUFFICES ASSUME BootInv, [Next]_vars PROVE BootInv'
  OBVIOUS
<1>1. CASE Intake
  BY <1>1, StartKeeps, LoadCeremonyAnchorKeeps, ReadCapsuleKeeps,
     RequireKeygenAttestationKeeps, UnsealKeeps, RequireAnchorOnChainKeeps DEF Intake
<1>2. CASE Preparation
  BY <1>2, WriteGenesisStatementKeeps, GenesisWrittenKeeps, PreparationKeeps, IdentityKeeps
  DEF Preparation
<1>3. CASE TableUnavailable \/ UNCHANGED vars
  <2>1. UNCHANGED <<attested, disk, established, phase, boot, genesis, identity>>
    BY <1>3 DEF TableUnavailable, Kept, vars
  <2> QED
    BY <2>1 DEF BootInv, BootTypeOK, Knows, Believable, GenesisFacts
<1>4. CASE Crash
  BY <1>4, DownKeeps DEF Crash, Kept
<1>5. ASSUME NEW d \in Variants(disk) \cup Deployed, Replace(d)
      PROVE  BootInv'
  BY <1>5, ReplaceKeeps
<1>6. CASE ChainMoves
  <2>1. /\ UNCHANGED <<attested, disk, phase, boot, genesis, identity>>
        /\ established' \in BOOLEAN
    BY <1>6 DEF ChainMoves, BootInv
  <2> QED
    BY <2>1 DEF BootInv, BootTypeOK, Knows, Believable, GenesisFacts
<1> QED
  BY <1>1, <1>2, <1>3, <1>4, <1>5, <1>6 DEF Next

(* Wherever Boot::start holds keys they are the ones manifest and capsule   *)
(* name, and a serving mint's identity document is of those keys, although  *)
(* any file may be replaced between any two reads.                          *)
THEOREM KeysAreNamed == Spec => []KeysNamed
<1>1. BootInv => KeysNamed
  BY BootInvGivesKeysNamed
<1> QED
  BY <1>1, InitBootInv, NextBootInv, PTL DEF Spec

(* A whole genesis record or identity document can be believed, whichever   *)
(* boot wrote it and however it ended: its anchor is mined, and an attested *)
(* build's seed and capsule are ones a keygen report covers.                *)
THEOREM DocumentsAreBelievable == Spec => []DocumentsAgree
<1>1. BootInv => DocumentsAgree
  BY BootInvGivesDocumentsAgree
<1> QED
  BY <1>1, InitBootInv, NextBootInv, PTL DEF Spec
=============================================================================
