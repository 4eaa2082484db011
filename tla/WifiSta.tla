------------------------------ MODULE WifiSta ------------------------------
(***************************************************************************)
(* The station side of the XR829 HDF adapter (hdf_mac80211.c): Connect     *)
(* (WalAuthenticate), the driver's authentication callback                 *)
(* (inform_auth_result, which calls WalAssociate), Disconnect and the      *)
(* creation of global_param.                                               *)
(*                                                                         *)
(* global_param is one record shared by the HDF service thread, which runs *)
(* Connect and Disconnect, and the driver's receive thread, which runs the *)
(* callback. No lock protects it. A handler is cut where it calls the      *)
(* driver (auth, assoc), and the other thread may run there.               *)
(*                                                                         *)
(* Every Connect that passes the channel check is numbered. A field of     *)
(* global_param holds the number of the Connect whose argument it is (0:   *)
(* the zeroes of kzalloc), and the information-element buffer allocated by *)
(* Connect c is buffer c.                                                  *)
(***************************************************************************)
EXTENDS Naturals, FiniteSets

CONSTANTS
  Freqs,        (* the channels a Connect can name, by frequency             *)
  Unspecified,  (* WLAN_FREQ_NOT_SPECFIED                                    *)
  AnyChannel,   (* the NULL channel of cfg80211_get_bss: no channel filter   *)
  Wild,         (* a channel pointer that points at no channel               *)
  Idle,         (* a thread that is not inside the driver                    *)
  MaxConnects   (* bound: numbered Connects                                  *)

ASSUME StaAssumption ==
  /\ MaxConnects \in Nat \ {0}
  /\ Unspecified \notin Freqs
  /\ AnyChannel \notin Freqs
  /\ Wild \notin Freqs \cup {Unspecified, AnyChannel}

VARIABLES
  ready,    (* global_param # NULL, hence staOps are installed               *)
  gp,       (* *global_param                                                 *)
  n,        (* number of the latest Connect that passed the channel check    *)
  freqOf,   (* the centerFreq argument of each Connect                       *)
  heap,     (* the information-element buffers that are allocated            *)
  svc,      (* HDF thread: Idle, or the arguments of the auth() it is in     *)
  rx,       (* receive thread: Idle, or the request of the assoc() it is in  *)
  air,      (* Connects whose authentication answer may still be reported    *)
  enabled,  (* channels of the wiphy without the DISABLED flag               *)
  link,     (* driver: the Connect whose AP is associated, 0 if none         *)
  late,     (* of the driver, fixed: does it report answers of superseded
               Connects, or one answer twice?                                *)
  used,     (* history: buffers handed to assoc()                            *)
  failed,   (* history: Connects whose caller was told of a failure          *)
  tried,    (* history: Connects whose association has come to its end       *)
  crossed   (* history: Connects made while assoc() was running              *)

history == <<used, failed, tried, crossed>>
vars    == <<ready, gp, n, freqOf, heap, svc, rx, air, enabled, link, late, history>>

Calls   == 1..MaxConnects
NoBuf   == 0
Params  == [freq: 0..MaxConnects, bssid: 0..MaxConnects, ssid: 0..MaxConnects,
            ieLen: 0..MaxConnects, ie: 0..MaxConnects, crypto: 0..MaxConnects]
Channel == Freqs \cup {AnyChannel, Wild}
Request == [chan: Channel, freq: 0..MaxConnects,
            bssid: 0..MaxConnects, ie: 0..MaxConnects, ieLen: 0..MaxConnects,
            crypto: 0..MaxConnects, answered: Calls]

ASSUME IdleAssumption == Idle \notin Request /\ Idle \notin [chan: Channel]

Init ==
  /\ ready = FALSE
  /\ gp = [freq |-> 0, bssid |-> 0, ssid |-> 0, ieLen |-> 0, ie |-> NoBuf,
           crypto |-> 0]
  /\ n = 0
  /\ freqOf = [c \in 0..MaxConnects |-> Unspecified]
  /\ heap = {}
  /\ svc = Idle
  /\ rx = Idle
  /\ air = {}
  /\ enabled \in SUBSET Freqs
  /\ link = 0
  /\ late \in BOOLEAN
  /\ used = {} /\ failed = {} /\ tried = {} /\ crossed = {}

(***************************************************************************)
(* XrMac80211Init. The operation tables are installed only when            *)
(* global_param exists; a second call keeps the record it finds.           *)
(***************************************************************************)
XrMac80211Init ==
  /\ ~ready
  /\ ready' = TRUE
  /\ UNCHANGED <<gp, n, freqOf, heap, svc, rx, air, enabled, link, late, history>>

(* Mutant: the unspecified frequency itself is used as the channel. *)
MutantChannelFor(f) == {f}

(***************************************************************************)
(* The channel handed to cfg80211_get_bss for frequency f. The local       *)
(* `channel' is assigned only when f is specified: otherwise it holds      *)
(* whatever is on the stack, a channel of the wiphy or not.                *)
(***************************************************************************)
ChannelFor(f) == IF f = Unspecified THEN Channel ELSE {f}

(* WalGetChannel finds a channel for f and it is not disabled. *)
LegalChannel(f) == f = Unspecified \/ f \in enabled

(* Mutant: the buffer is not freed. *)
MutantKfree(b) == heap

(* kfree(NULL) does nothing. *)
Kfree(b) == heap \ {b}

(* A thread runs one handler at a time, whatever the other thread is in. *)
MayEnterSvc == svc = Idle
MayEnterRx  == rx = Idle
Crossing(c) == crossed' = IF rx = Idle THEN crossed ELSE crossed \cup {c}

(* Mutant: the channel of the previous Connect is kept. *)
MutantOverwriteFreq(c, b, crypto) ==
  gp' = [freq |-> gp.freq, bssid |-> c, ssid |-> c, ieLen |-> c, ie |-> b,
         crypto |-> crypto]

(***************************************************************************)
(* WalAuthenticate up to its call of auth(): the parameters replace those  *)
(* of the previous Connect, the buffer the record holds is freed and a new *)
(* one allocated.                                                          *)
(***************************************************************************)
Overwrite(c, b, crypto) ==
  gp' = [freq |-> c, bssid |-> c, ssid |-> c, ieLen |-> c, ie |-> b,
         crypto |-> crypto]

WalAuthenticate(f) ==
  /\ ready /\ MayEnterSvc
  /\ n < MaxConnects
  /\ LegalChannel(f)
  /\ n' = n + 1
  /\ freqOf' = [freqOf EXCEPT ![n + 1] = f]
  /\ Overwrite(n + 1, n + 1, n + 1)
  /\ heap' = Kfree(gp.ie) \cup {n + 1}
  /\ \E ch \in ChannelFor(f) : svc' = [chan |-> ch]
  /\ air' = air \cup {n + 1}
  /\ Crossing(n + 1)
  /\ UNCHANGED <<ready, rx, enabled, link, late, used, failed, tried>>

(* kzalloc fails: the record already carries the new frequency, BSSID, SSID
   and length, and still the crypto settings of an earlier Connect. *)
WalAuthenticateNoMemory(f) ==
  /\ ready /\ MayEnterSvc
  /\ n < MaxConnects
  /\ LegalChannel(f)
  /\ n' = n + 1
  /\ freqOf' = [freqOf EXCEPT ![n + 1] = f]
  /\ Overwrite(n + 1, NoBuf, gp.crypto)
  /\ heap' = Kfree(gp.ie)
  /\ failed' = failed \cup {n + 1}
  /\ Crossing(n + 1)
  /\ UNCHANGED <<ready, svc, rx, air, enabled, link, late, used, tried>>

(* Mutant: the buffer is freed as soon as auth() returns. *)
MutantAuthReturns ==
  /\ svc # Idle
  /\ svc' = Idle
  /\ heap' = Kfree(gp.ie)
  /\ gp' = [gp EXCEPT !.ie = NoBuf]
  /\ UNCHANGED <<ready, n, freqOf, rx, air, enabled, link, late, history>>

(* auth() returns; a negative result frees the buffer the record holds now. *)
AuthReturns ==
  /\ svc # Idle
  /\ svc' = Idle
  /\ UNCHANGED <<ready, gp, n, freqOf, heap, rx, air, enabled, link, late, history>>

AuthFails ==
  /\ svc # Idle
  /\ svc' = Idle
  /\ heap' = Kfree(gp.ie)
  /\ gp' = [gp EXCEPT !.ie = NoBuf]
  /\ air' = air \ {n}
  /\ failed' = failed \cup {n}
  /\ UNCHANGED <<ready, n, freqOf, rx, enabled, link, late, used, tried, crossed>>

(***************************************************************************)
(* The driver reports the answer to Connect c, or it never will. The       *)
(* callback does not look at the BSSID the answer came from.               *)
(***************************************************************************)
Reported(c) ==
  /\ c \in air
  /\ late \/ c = n
  /\ air' = air \ {c} \/ (late /\ air' = air)

AuthRefused(c) ==
  /\ MayEnterRx
  /\ Reported(c)
  /\ UNCHANGED <<ready, gp, n, freqOf, heap, svc, rx, enabled, link, late, history>>

(* WalAssociate up to its call of assoc(): the request is read from the
   record. *)
WalAssociate(c) ==
  /\ MayEnterRx
  /\ Reported(c)
  /\ LegalChannel(freqOf[gp.freq])
  /\ \E ch \in ChannelFor(freqOf[gp.freq]) :
       rx' = [chan |-> ch, freq |-> gp.freq, bssid |-> gp.bssid, ie |-> gp.ie,
              ieLen |-> gp.ieLen, crypto |-> gp.crypto, answered |-> c]
  /\ used' = used \cup ({gp.ie} \ {NoBuf})
  /\ UNCHANGED <<ready, gp, n, freqOf, heap, svc, enabled, link, late, failed, tried,
                 crossed>>

(* Mutant: the association leaves the buffer for the next Connect to free. *)
MutantDropIe == UNCHANGED <<heap, gp>>

(* The label `end' of WalAssociate: the buffer goes, its length stays. *)
DropIe ==
  /\ heap' = Kfree(gp.ie)
  /\ gp' = [gp EXCEPT !.ie = NoBuf]

(* The channel was disabled since the Connect: no request, straight to end. *)
WalAssociateIllegal(c) ==
  /\ MayEnterRx
  /\ Reported(c)
  /\ ~LegalChannel(freqOf[gp.freq])
  /\ DropIe
  /\ tried' = tried \cup {gp.bssid}
  /\ UNCHANGED <<ready, n, freqOf, svc, rx, enabled, link, late, used, failed, crossed>>

(* assoc() returns, successfully or not; its result is only logged. *)
AssocReturns ==
  /\ rx # Idle
  /\ rx' = Idle
  /\ DropIe
  /\ link' \in {link, rx.bssid}
  /\ tried' = tried \cup {rx.bssid}
  /\ UNCHANGED <<ready, n, freqOf, svc, air, enabled, late, used, failed, crossed>>

(***************************************************************************)
(* WalDisconnect asks the driver to deauthenticate the BSSID in the        *)
(* record, whichever AP it is associated with.                             *)
(***************************************************************************)
WalDisconnect ==
  /\ ready /\ MayEnterSvc
  /\ link' = IF link = gp.bssid THEN 0 ELSE link
  /\ UNCHANGED <<ready, gp, n, freqOf, heap, svc, rx, air, enabled, late, history>>

(* The regulatory code of the stack changes the flags of a channel. *)
RegulatoryChange(f) ==
  /\ enabled' = IF f \in enabled THEN enabled \ {f} ELSE enabled \cup {f}
  /\ UNCHANGED <<ready, gp, n, freqOf, heap, svc, rx, air, link, late, history>>

Next ==
  \/ XrMac80211Init
  \/ \E f \in Freqs \cup {Unspecified} : WalAuthenticate(f)
  \/ \E f \in Freqs \cup {Unspecified} : WalAuthenticateNoMemory(f)
  \/ AuthReturns
  \/ AuthFails
  \/ \E c \in Calls : AuthRefused(c)
  \/ \E c \in Calls : WalAssociate(c)
  \/ \E c \in Calls : WalAssociateIllegal(c)
  \/ AssocReturns
  \/ WalDisconnect
  \/ \E f \in Freqs : RegulatoryChange(f)

Spec == Init /\ [][Next]_vars

(***************************************************************************)
(* auth() and assoc() are function calls the driver returns from. Nothing  *)
(* obliges clients to connect or disconnect, or an access point to answer. *)
(***************************************************************************)
DriverReturns == WF_vars(AuthReturns \/ AuthFails) /\ WF_vars(AssocReturns)

FairSpec == Spec /\ DriverReturns

-----------------------------------------------------------------------------
(***************************************************************************)
(* Properties.                                                             *)
(***************************************************************************)

(* Every variable has its type. The channel pointer handed to the driver is  *)
(* a channel of the wiphy, NULL, or, without a frequency, anything at all.   *)
TypeOK ==
  /\ ready \in BOOLEAN
  /\ gp \in Params
  /\ n \in 0..MaxConnects
  /\ freqOf \in [0..MaxConnects -> Freqs \cup {Unspecified}]
  /\ heap \in SUBSET Calls
  /\ svc \in {Idle} \cup [chan: Channel]
  /\ rx \in {Idle} \cup Request
  /\ air \in SUBSET Calls
  /\ enabled \in SUBSET Freqs
  /\ link \in 0..MaxConnects
  /\ late \in BOOLEAN
  /\ used \in SUBSET Calls
  /\ failed \in SUBSET (0..MaxConnects)
  /\ tried \in SUBSET (0..MaxConnects)
  /\ crossed \in SUBSET Calls

(* The one buffer that is allocated is the one global_param->ie points to:   *)
(* across every order of Connect, callback, failure and driver call none is  *)
(* leaked, and the pointer never dangles, so no kfree of it frees twice.     *)
IeLedger == heap = {gp.ie} \ {NoBuf}

(* Whichever answer started it, and whatever ran meanwhile, an association   *)
(* is the request of one Connect, b: its channel, BSSID and length are of b, *)
(* and so are the crypto settings unless the caller of b was told that b     *)
(* failed (kzalloc fails between the first fields and the crypto settings).  *)
(* It comes without b's information elements only if b failed, if b was      *)
(* associated before, or if an association was running when b was made.      *)
OneConnect ==
  rx # Idle =>
    LET b == rx.bssid
    IN  /\ rx.freq = b /\ rx.ieLen = b /\ rx.ie \in {b, NoBuf}
        /\ freqOf[b] # Unspecified => rx.chan = freqOf[b]
        /\ b \notin failed => rx.crypto = b
        /\ b \notin failed \cup tried \cup crossed => rx.ie = b

(* The information elements of one Connect are handed to assoc() at most     *)
(* once, although the driver may report one answer several times.            *)
IeUsedOnce == [][rx' # rx /\ rx' # Idle => rx'.ie \notin used]_vars

(* The information elements assoc() reads stay allocated until it returns,   *)
(* although the HDF thread frees the same pointer, unless a later Connect    *)
(* was made or the auth() of this one failed after its answer was reported.  *)
DriverBufferLive ==
  rx # Idle /\ rx.ie # NoBuf => \/ rx.ie \in heap
                               \/ rx.ie # n
                               \/ rx.ie \in failed

(* If the driver reports every answer once and only for the latest Connect,  *)
(* each association carries the complete parameters of the Connect whose     *)
(* answer started it, unless that Connect was made while the association of  *)
(* an earlier one was running: the end of that one drops its buffer.         *)
AssocIsComplete ==
  ~late /\ rx # Idle /\ rx.answered \notin crossed =>
    \A field \in {"freq", "bssid", "ie", "ieLen", "crypto"} : rx[field] = rx.answered

(* Information elements handed to assoc() are eventually freed, even when    *)
(* the answer was late or repeated, another Connect replaced them meanwhile, *)
(* or the two threads ran at once: no later Connect is needed for it.        *)
HandedIsFreed == \A c \in Calls : c \in used ~> c \notin heap

(* hdf_mac80211.c:70-72: "If this parameter is not specified, the connection *)
(* channel is automatically obtained from the scan result": with no          *)
(* frequency the scan results are searched on every channel.                 *)
UnspecifiedSearchesAll ==
  rx # Idle => (freqOf[rx.freq] = Unspecified => rx.chan = AnyChannel)

=============================================================================
