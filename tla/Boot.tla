-------------------------------- MODULE Boot --------------------------------
(***************************************************************************)
(* Boot::start: the ordered steps that turn the files of keygen, the node  *)
(* and the network into a serving mint, each of which may refuse.  Memory  *)
(* dies with the process; the two documents a boot writes do not, and a    *)
(* write that is cut off leaves a torn file.  The operator may replace a   *)
(* file at any moment, a boot under way included.                          *)
(*                                                                         *)
(* A seed stands for its fingerprint and for the keys derived from it.     *)
(* The scan is one step here; what it rebuilds is in ChainFollow,          *)
(* Registry and Market.                                                    *)
(***************************************************************************)
EXTENDS Naturals

CONSTANTS
    Seeds, Anchors,
    AttestedSeeds,      \* the seeds keygen sealed and attested
    Mined,              \* the anchors mined at their birthday
    Foreign,            \* a seed sealed to another machine, or tampered with
    None, Torn,         \* no file or fact; a partial file
    MaxChanges,         \* bound: files replaced
    MaxFaults           \* bound: failures of the node, the network, the device

ASSUME BootAssumption ==
    /\ AttestedSeeds \subseteq Seeds /\ Mined \subseteq Anchors
    /\ Foreign \notin Seeds
    /\ MaxChanges \in Nat /\ MaxFaults \in Nat

VARIABLES
    attested,           \* the build: hardware, or development without a device
    disk,               \* keys/ and the proving parameters
    established,        \* the chain: the ceremony has closed, the Treasury is funded
    changes, faults,
    phase,
    boot,               \* what the process has read and derived
    genesis, identity   \* GENESIS_RECORD_FILE, IDENTITY_DOC_FILE

vars == <<attested, disk, established, changes, faults, phase, boot, genesis, identity>>

-----------------------------------------------------------------------------
(***************************************************************************)
(* The files                                                               *)
(***************************************************************************)
Manifest == [here : BOOLEAN, fingerprint : Seeds, anchor : Anchors]

(* A seed sealed twice is two files. *)
Capsule == [seed : Seeds \cup {Foreign}, fingerprint : Seeds, sealing : {"keygen", "again"}]

KeygenCapsule(s) == [seed |-> s, fingerprint |-> s, sealing |-> "keygen"]

(* Keygen's report covers a fingerprint and the hash of the capsule. *)
Report == {[fingerprint |-> s, capsule |-> KeygenCapsule(s)] : s \in AttestedSeeds}

(* A file that is not there is not a report. *)
ASSUME ReportAssumption == None \notin [fingerprint : Seeds, capsule : Capsule]

Params == {"spend", "output"}

Files ==
    [manifest : Manifest \cup {None},
     capsule : Capsule \cup {None},
     report : Report \cup {None},
     params : SUBSET Params]

(* The files of one finished ceremony *)
Deployed ==
    {[manifest |-> [here |-> TRUE, fingerprint |-> s, anchor |-> a],
      capsule |-> KeygenCapsule(s),
      report |-> [fingerprint |-> s, capsule |-> KeygenCapsule(s)],
      params |-> Params] : s \in AttestedSeeds, a \in Mined}

(* Replacing one file *)
Variants(d) ==
    {[d EXCEPT !.manifest = m] : m \in Manifest \cup {None}}
    \cup {[d EXCEPT !.capsule = c] : c \in Capsule \cup {None}}
    \cup {[d EXCEPT !.report = r] : r \in Report \cup {None}}
    \cup {[d EXCEPT !.params = p] : p \in SUBSET Params}

Nothing == [manifest |-> None, capsule |-> None, keys |-> None, scanned |-> FALSE, loaded |-> {}]

RequireCeremonyNetwork(m) == m.here

VerifyFingerprint(seed, expected) == seed = expected

-----------------------------------------------------------------------------
(***************************************************************************)
(* Boot::start                                                             *)
(***************************************************************************)
Kept == UNCHANGED <<attested, disk, established, changes>>

(* A panic, or a crash: the process and its memory are gone. *)
Down ==
    /\ phase' = "off"
    /\ boot' = Nothing

(* A step that goes on to the next phase when `ok` holds, and panics       *)
(* otherwise.                                                              *)
Step(from, ok, to, memory) ==
    /\ phase = from
    /\ IF ok THEN phase' = to /\ boot' = memory ELSE Down
    /\ Kept /\ UNCHANGED <<faults, genesis, identity>>

(* Fault: a torn document keeps a mint from starting. *)
StartClean ==
    /\ Torn \notin {genesis, identity}
    /\ Step("off", TRUE, "manifest", Nothing)

(* connect_zebra *)
Start == Step("off", TRUE, "manifest", Nothing)

(* load_ceremony_anchor, require_ceremony_network *)
LoadCeremonyAnchor ==
    Step("manifest", disk.manifest # None /\ RequireCeremonyNetwork(disk.manifest), "capsule",
         [boot EXCEPT !.manifest = disk.manifest])

(* The capsule is read once; manifest and capsule name one fingerprint. *)
ReadCapsule ==
    Step("capsule", disk.capsule # None /\ disk.capsule.fingerprint = boot.manifest.fingerprint,
         IF attested THEN "report" ELSE "unseal",
         [boot EXCEPT !.capsule = disk.capsule])

(* require_keygen_attestation *)
RequireKeygenAttestation ==
    Step("report",
         disk.report = [fingerprint |-> boot.manifest.fingerprint, capsule |-> boot.capsule],
         "unseal", boot)

(* Fault: the decrypted seed is not compared with its fingerprint. *)
UnsealUnverified ==
    Step("unseal", boot.capsule.seed # Foreign, "anchor", [boot EXCEPT !.keys = boot.capsule.seed])

(* unseal_seed, verify_fingerprint; the keys outlive the seed *)
Unseal ==
    Step("unseal",
         boot.capsule.seed # Foreign
            /\ VerifyFingerprint(boot.capsule.seed, boot.manifest.fingerprint),
         "anchor", [boot EXCEPT !.keys = boot.capsule.seed])

AfterAnchor == IF attested THEN "genesis" ELSE "origin"

(* require_anchor_on_chain *)
RequireAnchorOnChain == Step("anchor", boot.manifest.anchor \in Mined, AfterAnchor, boot)

GenesisFacts ==
    [fingerprint |-> boot.capsule.fingerprint, capsule |-> boot.capsule, anchor |-> boot.manifest.anchor]

(* Fault: a record on disk is left as it is. *)
WriteGenesisOnce ==
    /\ phase = "genesis"
    /\ IF genesis = None THEN genesis' = Torn /\ phase' = "genesis_write"
       ELSE phase' = "origin" /\ UNCHANGED genesis
    /\ Kept /\ UNCHANGED <<faults, boot, identity>>

(* write_genesis_statement: the file is truncated, then written *)
WriteGenesisStatement ==
    /\ phase = "genesis"
    /\ genesis' = Torn
    /\ phase' = "genesis_write"
    /\ Kept /\ UNCHANGED <<faults, boot, identity>>

GenesisWritten ==
    /\ phase = "genesis_write"
    /\ genesis' = GenesisFacts
    /\ phase' = "origin"
    /\ Kept /\ UNCHANGED <<faults, boot, identity>>

(* The node's tree state below the scan window *)
OriginCheckpoint == Step("origin", TRUE, "wallet", boot)

(* The subtree roots, the wallet and the two clocks *)
WalletBorn == Step("wallet", TRUE, "scan", boot)

(* The chain is applied block by block to the tip read at the start. *)
Scan == Step("scan", TRUE, "sanity", [boot EXCEPT !.scanned = established])

(* require_established_ceremony, MIN_TREASURY_BALANCE *)
SanityChecks ==
    Step("sanity", boot.scanned, "price", [boot EXCEPT !.loaded = @ \cup {"chain"}])

(* fetch_round *)
FetchPrice == Step("price", TRUE, "presale", [boot EXCEPT !.loaded = @ \cup {"price"}])

(* The table is asked for until it is there. *)
FetchTable == Step("presale", TRUE, "params", [boot EXCEPT !.loaded = @ \cup {"table"}])

TableUnavailable ==
    /\ phase = "presale"
    /\ faults < MaxFaults
    /\ faults' = faults + 1
    /\ Kept /\ UNCHANGED <<phase, boot, genesis, identity>>

(* load_sapling_spend_params, load_sapling_output_params *)
LoadSaplingParams ==
    Step("params", disk.params = Params, "identity", [boot EXCEPT !.loaded = @ \cup Params])

(* The device's report is verified, and the document's file truncated. *)
WriteIdentity ==
    /\ phase = "identity"
    /\ identity' = Torn
    /\ phase' = "identity_write"
    /\ Kept /\ UNCHANGED <<faults, boot, genesis>>

IdentityWritten ==
    /\ phase = "identity_write"
    /\ identity' = [keys |-> boot.keys, report |-> attested]
    /\ phase' = "serve"
    /\ Kept /\ UNCHANGED <<faults, boot, genesis>>

(* The process dies: a step of the node, the network or the device fails,  *)
(* or the machine does.                                                    *)
Crash ==
    /\ phase # "off"
    /\ faults < MaxFaults
    /\ faults' = faults + 1
    /\ Down
    /\ Kept /\ UNCHANGED <<genesis, identity>>

-----------------------------------------------------------------------------
(* The operator replaces one file, or deploys a ceremony. *)
Replace(d) ==
    /\ changes < MaxChanges
    /\ d # disk
    /\ disk' = d
    /\ changes' = changes + 1
    /\ UNCHANGED <<attested, established, faults, phase, boot, genesis, identity>>

(* Blocks close the ceremony and fund the Treasury, or spend its balance. *)
ChainMoves ==
    /\ changes < MaxChanges
    /\ established' = ~established
    /\ changes' = changes + 1
    /\ UNCHANGED <<attested, disk, faults, phase, boot, genesis, identity>>

Init ==
    /\ attested \in BOOLEAN
    /\ disk \in Deployed
    /\ established \in BOOLEAN
    /\ changes = 0 /\ faults = 0
    /\ phase = "off"
    /\ boot = Nothing
    /\ genesis = None /\ identity = None

Intake ==
    \/ Start
    \/ LoadCeremonyAnchor
    \/ ReadCapsule
    \/ RequireKeygenAttestation
    \/ Unseal
    \/ RequireAnchorOnChain

Preparation ==
    \/ WriteGenesisStatement
    \/ GenesisWritten
    \/ OriginCheckpoint
    \/ WalletBorn
    \/ Scan
    \/ SanityChecks
    \/ FetchPrice
    \/ FetchTable
    \/ LoadSaplingParams
    \/ WriteIdentity
    \/ IdentityWritten

Next ==
    \/ Intake
    \/ Preparation
    \/ TableUnavailable
    \/ Crash
    \/ \E d \in Variants(disk) \cup Deployed : Replace(d)
    \/ ChainMoves

Spec == Init /\ [][Next]_vars

(* A boot's own steps go on, and a mint that is down is started again. *)
FairSpec == Spec /\ WF_vars(Intake \/ Preparation)

-----------------------------------------------------------------------------
(***************************************************************************)
(* Properties                                                              *)
(***************************************************************************)
(* The documents are absent, torn or whole, and the memory of a process    *)
(* that is down is empty: each panic of Boot::start ends it.               *)
BootTypeOK ==
    /\ disk \in Files
    /\ boot \in [manifest : Manifest \cup {None}, capsule : Capsule \cup {None},
                 keys : Seeds \cup {None}, scanned : BOOLEAN,
                 loaded : SUBSET (Params \cup {"chain", "price", "table"})]
    /\ genesis \in {None, Torn} \cup
          [fingerprint : Seeds, capsule : Capsule, anchor : Anchors]
    /\ identity \in {None, Torn} \cup [keys : Seeds, report : BOOLEAN]
    /\ phase = "off" => boot = Nothing

(* Manifest, capsule and decrypted seed name one fingerprint wherever      *)
(* keys are held, and a whole identity document is one of such keys,       *)
(* although the files may change under the boot that reads them            *)
(* ("Manifest, capsule field, and the attested fingerprint are one value"). *)
KeysNamed ==
    /\ BootTypeOK
    /\ boot.keys # None =>
          boot.keys = boot.manifest.fingerprint /\ boot.keys = boot.capsule.fingerprint
    /\ phase = "serve" => identity = [keys |-> boot.keys, report |-> attested]

(* The documents can be believed.  An attested build publishes, in either  *)
(* and in whichever boot wrote it, only a seed and a capsule that a keygen *)
(* report covers; a whole genesis record names an anchor the chain holds,  *)
(* one left by a boot that failed later included; and while an attested    *)
(* mint serves, both are of this boot, which has scanned the chain and can *)
(* prove every transaction (require_keygen_attestation,                    *)
(* require_anchor_on_chain, write_genesis_statement, step 7).              *)
DocumentsAgree ==
    /\ genesis \notin {None, Torn} => genesis.anchor \in Mined
    /\ attested /\ identity \notin {None, Torn} => identity.keys \in AttestedSeeds
    /\ attested /\ genesis \notin {None, Torn} =>
          [fingerprint |-> genesis.fingerprint, capsule |-> genesis.capsule] \in Report
    /\ phase = "serve" => boot.loaded = Params \cup {"chain", "price", "table"}
    /\ attested /\ phase = "serve" =>
          genesis = GenesisFacts /\ identity.keys = genesis.fingerprint

(* Once the files and the chain are in order and the failures are over,    *)
(* the mint serves, whatever an earlier boot left on the disk.             *)
BootServes ==
    <>[](established /\ disk \in Deployed) => <>[](phase = "serve")
=============================================================================
