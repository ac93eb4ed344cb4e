---------------------------- MODULE ArtifactStore ----------------------------
(***************************************************************************)
(* The bucket keys of one service and who writes them: build_one of        *)
(* scripts/build-and-upload.sh puts <version>.tar.gz, then latest.tar.gz,  *)
(* then latest.tar.gz.sha256.  A put is atomic; the three are not.  The    *)
(* keys of different services are disjoint.  A version is the deployer     *)
(* that built it, and its checksum is the version.                         *)
(***************************************************************************)
EXTENDS Naturals

CONSTANTS
  Runs,       \* runs of the deploy workflow, by their numbers
  Operators,  \* persons who run the scripts from a shell
  First,      \* the version before any of them
  NoSidecar   \* the sidecar of a bucket that never had one

Deployers == Runs \union Operators

ASSUME RunAssumption == Runs \subseteq Nat

ASSUME StoreAssumption ==
  /\ Runs \intersect Operators = {}
  /\ First \notin Deployers /\ NoSidecar \notin Deployers \union {First}

VARIABLES
  tarball,  \* the version in latest.tar.gz
  sidecar,  \* the version whose checksum latest.tar.gz.sha256 holds
  puts      \* puts[d]: how many of its three puts d has made

storeVars == <<tarball, sidecar, puts>>

StoreInit ==
  /\ tarball = First
  /\ sidecar \in {First, NoSidecar}
  /\ puts = [d \in Deployers |-> 0]

PutVersioned(d) ==
  /\ puts[d] = 0
  /\ puts' = [puts EXCEPT ![d] = 1]
  /\ UNCHANGED <<tarball, sidecar>>
PutLatest(d) ==
  /\ puts[d] = 1
  /\ puts' = [puts EXCEPT ![d] = 2]
  /\ tarball' = d
  /\ UNCHANGED sidecar
PutSidecar(d) ==
  /\ puts[d] = 2
  /\ puts' = [puts EXCEPT ![d] = 3]
  /\ sidecar' = d
  /\ UNCHANGED tarball
Published(d) == puts[d] = 3
=============================================================================
