------------------------------- MODULE XrScan -------------------------------
(***************************************************************************)
(* Scans of the XR829 adapter (WalStartScan, WalAbortScan,                 *)
(* inform_bss_frame) and the capabilities it reports                       *)
(* (WalGetHwCapability): who owns which piece of memory, and which device  *)
(* is told what the scan found.                                            *)
(*                                                                         *)
(* A scan request consists of the request, its SSIDs and, if the caller    *)
(* gave any, its elements; a capability of itself, its band and its rates. *)
(* Block <<k, i>> is the piece k of call i.                                *)
(***************************************************************************)
EXTENDS XrNetDev, FiniteSets

CONSTANT MaxCalls   (* bound: calls that allocate                            *)

ASSUME ScanAssumption == MaxCalls \in Nat \ {0}

VARIABLES
  calls,    (* number of calls that allocated                                *)
  heap,     (* the blocks allocated                                          *)
  held,     (* driver: the blocks of the scan in progress                    *)
  asker,    (* driver: the life of the device that scan was started on       *)
  told,     (* the lives its results were reported to                        *)
  caps,     (* the blocks of the capabilities the framework holds            *)
  lost      (* history: the blocks of calls rejected before they reached
               the driver                                                    *)

scanVars == <<calls, heap, held, asker, told, caps, lost>>

Blocks == {"request", "ssids", "ie", "capability", "band", "rates"} \X (1..MaxCalls)

Pieces(kinds) == kinds \X {calls + 1}

ScanInit ==
  /\ calls = 0
  /\ heap = {} /\ held = {} /\ caps = {} /\ lost = {}
  /\ asker = 0
  /\ told = {}

(* The framework scans with a device that was opened. *)
MayScan == net.attached /\ ~opening /\ net.wdev /\ calls < MaxCalls

(***************************************************************************)
(* WalStartScan returns without giving the request back: no band, no       *)
(* channel, too many SSIDs or none (which it reports as success), no       *)
(* memory for the SSIDs; then too long elements, no memory for them.       *)
(***************************************************************************)
ScanRejected ==
  /\ MayScan
  /\ calls' = calls + 1
  /\ \E kinds \in {{"request"}, {"request", "ssids"}} :
       /\ heap' = heap \cup Pieces(kinds)
       /\ lost' = lost \cup Pieces(kinds)
  /\ UNCHANGED <<held, asker, told, caps>>

Requests == {{"request", "ssids"}, {"request", "ssids", "ie"}}

(* Mutant: the SSIDs are not freed. *)
MutantFreeRequest(blocks) == {b \in blocks : b[1] # "ssids"}

(* What is freed when scan() refuses a request. *)
FreeRequest(blocks) == blocks

ScanRefused ==
  /\ MayScan
  /\ calls' = calls + 1
  /\ \E kinds \in Requests :
       heap' = (heap \cup Pieces(kinds)) \ FreeRequest(Pieces(kinds))
  /\ UNCHANGED <<held, asker, told, caps, lost>>

(* The driver takes one scan at a time, and the request with it. *)
ScanStarted ==
  /\ MayScan
  /\ asker = 0
  /\ calls' = calls + 1
  /\ \E kinds \in Requests :
       /\ heap' = heap \cup Pieces(kinds)
       /\ held' = Pieces(kinds)
  /\ asker' = net.life
  /\ told' = {}
  /\ UNCHANGED <<caps, lost>>

(* The driver is done with the scan and disposes of the request. *)
EndScan ==
  /\ heap' = heap \ held
  /\ held' = {}
  /\ asker' = 0
  /\ told' = {}
  /\ UNCHANGED <<calls, caps, lost>>

ScanDone == asker # 0 /\ EndScan

(* WalAbortScan: cancel_scan, while a scan runs, ends it at once. *)
WalAbortScan ==
  /\ net.attached /\ net.wdev
  /\ asker # 0
  /\ EndScan

(* inform_bss_frame reports one network to get_netDev(), if there is one. *)
InformBssFrame ==
  /\ asker # 0
  /\ told' = told \cup ({RxTarget} \ {0})
  /\ UNCHANGED <<calls, heap, held, asker, caps, lost>>

-----------------------------------------------------------------------------
(* WalReleaseHwCapability frees every piece that is there. *)
WalReleaseHwCapability(h, blocks) == h \ blocks

MayQuery == net.attached /\ calls < MaxCalls

WalGetHwCapability ==
  /\ MayQuery
  /\ calls' = calls + 1
  /\ LET blocks == Pieces({"capability", "band", "rates"})
     IN  heap' = heap \cup blocks /\ caps' = caps \cup blocks
  /\ UNCHANGED <<held, asker, told, lost>>

(* It runs out of memory for the band or for the rates. *)
WalGetHwCapabilityNoMemory ==
  /\ MayQuery
  /\ calls' = calls + 1
  /\ \E kinds \in {{"capability"}, {"capability", "band"}} :
       heap' = WalReleaseHwCapability(heap \cup Pieces(kinds), Pieces(kinds))
  /\ UNCHANGED <<held, asker, told, caps, lost>>

(* The framework calls the capability's Release. *)
ReleaseCapability ==
  /\ \E i \in 1..calls :
       LET blocks == {b \in caps : b[2] = i}
       IN  /\ blocks # {}
           /\ caps' = caps \ blocks
           /\ heap' = WalReleaseHwCapability(heap, blocks)
  /\ UNCHANGED <<calls, held, asker, told, lost>>

ScanNext ==
  \/ ScanRejected
  \/ ScanRefused
  \/ ScanStarted
  \/ ScanDone
  \/ WalAbortScan
  \/ InformBssFrame
  \/ WalGetHwCapability
  \/ WalGetHwCapabilityNoMemory
  \/ ReleaseCapability

-----------------------------------------------------------------------------
ScanTypeOK ==
  /\ calls \in 0..MaxCalls
  /\ {heap, held, caps, lost} \subseteq SUBSET Blocks
  /\ asker \in 0..MaxLives
  /\ told \subseteq 1..MaxLives

(* Every block is in exactly one hand: the driver's while it scans, the      *)
(* framework's while it holds a capability, or nobody's if its call was      *)
(* rejected before the driver saw it (WalStartScan does not free then).      *)
(* Refused scans and calls that ran out of memory leave nothing, and nobody  *)
(* is left with memory that was freed.                                       *)
EveryBlockHasOneOwner ==
  /\ heap = held \cup caps \cup lost
  /\ held \cap (caps \cup lost) = {} /\ caps \cap lost = {}

(* The results of a scan are reported to the device it was started on and to *)
(* no other, in particular to none of an earlier life.                       *)
ResultsFindAsker == told \subseteq {asker}
=============================================================================
