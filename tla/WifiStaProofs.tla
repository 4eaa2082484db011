--------------------------- MODULE WifiStaProofs ---------------------------
(***************************************************************************)
(* Theorems about WifiSta, for any set of channels and any number of       *)
(* Connects. The two threads interleave at every driver call, and answers  *)
(* may be late or repeated except where the property itself excludes it.   *)
(***************************************************************************)
EXTENDS WifiSta, TLAPS

USE DEF Calls, NoBuf, StaAssumption, IdleAssumption, history, Crossing

(* The record is that of the latest Connect, but for the crypto settings and *)
(* the buffer of one that failed. A buffer is missing only if it was freed   *)
(* by a failure or by the end of an association, of this Connect or of the   *)
(* one that was running when this Connect was made. The buffers handed to    *)
(* assoc() are gone, but for the one of the association in progress.         *)
Latest ==
  /\ gp.bssid = n /\ gp.freq = n /\ gp.ieLen = n /\ gp.ie \in {NoBuf, n}
  /\ n # 0 /\ n \notin failed => gp.crypto = n
  /\ n # 0 /\ n \notin failed \cup tried \cup crossed => gp.ie = n
  /\ air \subseteq 1..n /\ used \subseteq 1..n
  /\ failed \subseteq 1..n /\ tried \subseteq 1..n /\ crossed \subseteq 1..n
  /\ gp.ie \in used => rx # Idle /\ rx.ie = gp.ie
  /\ svc # Idle => n # 0
  /\ rx # Idle => /\ rx.bssid \in 1..n
                  /\ rx.bssid # n => n \in crossed

IInv == TypeOK /\ IeLedger /\ OneConnect /\ DriverBufferLive /\ Latest

(* A request of the type Request is never mistaken for Idle. *)
LEMMA NotIdle == \A r \in Request : r # Idle
BY IdleAssumption

(* Whatever the frequency, the pointer passed on has the type of a channel   *)
(* pointer; with a frequency it is the channel of that frequency.            *)
LEMMA ChannelForType ==
  ASSUME NEW f \in Freqs \cup {Unspecified}
  PROVE  /\ ChannelFor(f) \subseteq Channel
         /\ f # Unspecified => ChannelFor(f) = {f}
BY DEF ChannelFor, Channel

(* WalAssociate hands assoc() a well-formed request. *)
LEMMA AssocRequest ==
  ASSUME TypeOK, NEW c \in Calls, WalAssociate(c)
  PROVE  rx' \in Request /\ rx' # Idle
<1>1. freqOf[gp.freq] \in Freqs \cup {Unspecified}
  BY DEF TypeOK, Params
<1>2. rx' \in Request
  BY <1>1, ChannelForType DEF TypeOK, WalAssociate, Request, Params
<1>3. QED
  BY <1>2, NotIdle

(* The types of the variables hold initially and after every step. *)
LEMMA TypeInit == Init => TypeOK
<1> SUFFICES ASSUME Init PROVE TypeOK
  OBVIOUS
<1>1. 0 \in 0..MaxConnects
  BY StaAssumption
<1>2. freqOf \in [0..MaxConnects -> Freqs \cup {Unspecified}]
  BY DEF Init
<1>3. QED
  BY <1>1, <1>2 DEF Init, TypeOK, Params

LEMMA TypeStep == TypeOK /\ [Next]_vars => TypeOK'
<1> SUFFICES ASSUME TypeOK, [Next]_vars PROVE TypeOK'
  OBVIOUS
<1> USE StaAssumption DEF TypeOK
<1>1. CASE XrMac80211Init
  BY <1>1 DEF XrMac80211Init
<1>2. ASSUME NEW f \in Freqs \cup {Unspecified}, WalAuthenticate(f)
      PROVE  TypeOK'
  <2>1. n + 1 \in Calls /\ n + 1 \in 0..MaxConnects
    BY <1>2 DEF WalAuthenticate
  <2>2. svc' \in [chan: Channel]
    BY <1>2, ChannelForType DEF WalAuthenticate
  <2>3. heap' \in SUBSET Calls /\ air' \in SUBSET Calls
    BY <1>2, <2>1 DEF WalAuthenticate, Kfree
  <2>4. gp' \in Params
    BY <1>2, <2>1 DEF WalAuthenticate, Overwrite, Params
  <2>5. QED
    BY <1>2, <2>1, <2>2, <2>3, <2>4 DEF WalAuthenticate
<1>3. ASSUME NEW f \in Freqs \cup {Unspecified}, WalAuthenticateNoMemory(f)
      PROVE  TypeOK'
  <2>1. n + 1 \in Calls /\ n + 1 \in 0..MaxConnects
    BY <1>3 DEF WalAuthenticateNoMemory
  <2>2. gp' \in Params
    BY <1>3, <2>1 DEF WalAuthenticateNoMemory, Overwrite, Params
  <2>3. QED
    BY <1>3, <2>1, <2>2 DEF WalAuthenticateNoMemory, Kfree
<1>4. CASE AuthReturns
  BY <1>4 DEF AuthReturns
<1>5. CASE AuthFails
  <2>1. gp' \in Params
    <3>1. gp' = [gp EXCEPT !.ie = NoBuf] /\ gp \in Params
      BY <1>5 DEF AuthFails
    <3>2. QED
      BY ONLY <3>1, StaAssumption DEF Params, NoBuf
  <2>2. heap' \in SUBSET Calls /\ air' \in SUBSET Calls /\ svc' = Idle
    BY <1>5 DEF AuthFails, Kfree
  <2>3. QED
    BY <1>5, <2>1, <2>2 DEF AuthFails
<1>6. ASSUME NEW c \in Calls, AuthRefused(c) PROVE TypeOK'
  BY <1>6 DEF AuthRefused, Reported
<1>7. ASSUME NEW c \in Calls, WalAssociate(c) PROVE TypeOK'
  <2>1. rx' \in Request
    BY <1>7, AssocRequest
  <2>2. {gp.ie} \ {NoBuf} \subseteq Calls
    <3>1. gp.ie \in 0..MaxConnects
      BY DEF Params
    <3>2. QED
      BY <3>1
  <2>3. QED
    BY <1>7, <2>1, <2>2 DEF WalAssociate, Reported
<1>8. ASSUME NEW c \in Calls, WalAssociateIllegal(c) PROVE TypeOK'
  <2>1. gp' \in Params
    <3>1. gp' = [gp EXCEPT !.ie = NoBuf] /\ gp \in Params
      BY <1>8 DEF WalAssociateIllegal, DropIe
    <3>2. QED
      BY ONLY <3>1, StaAssumption DEF Params, NoBuf
  <2>2. /\ heap' \in SUBSET Calls /\ air' \in SUBSET Calls
        /\ tried' \in SUBSET (0..MaxConnects)
    BY <1>8 DEF WalAssociateIllegal, Reported, DropIe, Kfree, Params
  <2>3. QED
    BY <1>8, <2>1, <2>2 DEF WalAssociateIllegal, DropIe
<1>9. CASE AssocReturns
  <2>1. rx.bssid \in 0..MaxConnects
    BY <1>9 DEF AssocReturns, Request
  <2>2. gp' \in Params
    <3>1. gp' = [gp EXCEPT !.ie = NoBuf] /\ gp \in Params
      BY <1>9 DEF AssocReturns, DropIe
    <3>2. QED
      BY ONLY <3>1, StaAssumption DEF Params, NoBuf
  <2>3. /\ heap' \in SUBSET Calls /\ link' \in 0..MaxConnects
        /\ tried' \in SUBSET (0..MaxConnects)
    BY <1>9, <2>1 DEF AssocReturns, DropIe, Kfree
  <2>4. QED
    BY <1>9, <2>2, <2>3 DEF AssocReturns
<1>10. CASE WalDisconnect
  BY <1>10 DEF WalDisconnect
<1>11. ASSUME NEW f \in Freqs, RegulatoryChange(f) PROVE TypeOK'
  BY <1>11 DEF RegulatoryChange
<1>12. CASE UNCHANGED vars
  BY <1>12 DEF vars
<1>13. QED
  BY <1>1, <1>2, <1>3, <1>4, <1>5, <1>6, <1>7, <1>8, <1>9, <1>10, <1>11, <1>12
     DEF Next

(* Every reachable state is well typed: WifiSta's Spec implies []TypeOK. *)
THEOREM TypeCorrect == Spec => []TypeOK
BY TypeInit, TypeStep, PTL DEF Spec

(* The conjuncts of IInv hold initially and each is preserved by every step. *)
LEMMA InvInit == Init => IInv
<1> SUFFICES ASSUME Init PROVE IInv
  OBVIOUS
<1>1. TypeOK
  BY TypeInit
<1>2. IeLedger /\ OneConnect /\ DriverBufferLive /\ Latest
  BY DEF Init, IeLedger, OneConnect, DriverBufferLive, Latest
<1>3. QED
  BY <1>1, <1>2 DEF IInv

LEMMA InvStep == IInv /\ [Next]_vars => IInv'
<1> SUFFICES ASSUME IInv, [Next]_vars PROVE IInv'
  OBVIOUS
<1>1. TypeOK /\ TypeOK'
  BY TypeStep DEF IInv
<1>2. /\ gp \in Params /\ n \in 0..MaxConnects /\ used \in SUBSET Calls
      /\ freqOf \in [0..MaxConnects -> Freqs \cup {Unspecified}]
  BY <1>1 DEF TypeOK
<1>3. gp.ie \in Nat /\ n \in Nat
  BY <1>2 DEF Params
<1> DEFINE Rest == IeLedger /\ OneConnect /\ DriverBufferLive /\ Latest
<1>4. Rest
  BY DEF IInv
<1> SUFFICES Rest'
  BY <1>1 DEF IInv
<1> USE <1>2, <1>3, <1>4 DEF IeLedger, OneConnect, DriverBufferLive, Latest, Params
<1>5. CASE XrMac80211Init
  BY <1>5 DEF XrMac80211Init
<1>6. ASSUME NEW f \in Freqs \cup {Unspecified}, WalAuthenticate(f)
      PROVE  Rest'
  <2>1. n + 1 \notin used /\ rx' = rx /\ failed' = failed /\ tried' = tried
    BY <1>6 DEF WalAuthenticate
  <2>2. rx # Idle => freqOf'[rx.bssid] = freqOf[rx.bssid] /\ n + 1 \in crossed'
    BY <1>6 DEF WalAuthenticate
  <2>3. OneConnect' /\ DriverBufferLive'
    BY <1>6, <2>1, <2>2 DEF WalAuthenticate
  <2>4. Latest' /\ IeLedger'
    <3>1. /\ gp' = [freq |-> n + 1, bssid |-> n + 1, ssid |-> n + 1, ieLen |-> n + 1,
                    ie |-> n + 1, crypto |-> n + 1]
          /\ n' = n + 1 /\ heap' = (heap \ {gp.ie}) \cup {n + 1}
          /\ air' = air \cup {n + 1} /\ used' = used
      BY <1>6 DEF WalAuthenticate, Overwrite, Kfree
    <3>2. crossed' = crossed \/ crossed' = crossed \cup {n + 1}
      BY <1>6 DEF WalAuthenticate
    <3>3. gp'.ie \notin used' /\ heap' = {gp'.ie} \ {NoBuf}
      BY <3>1, <2>1
    <3>4. /\ air' \subseteq 1..n' /\ used' \subseteq 1..n' /\ failed' \subseteq 1..n'
          /\ tried' \subseteq 1..n' /\ crossed' \subseteq 1..n'
      <4>1. /\ air \subseteq 1..n /\ used \subseteq 1..n /\ failed \subseteq 1..n
            /\ tried \subseteq 1..n /\ crossed \subseteq 1..n
        OBVIOUS
      <4>2. QED
        <5>1. n' = n + 1 /\ n \in Nat
          BY <3>1
        <5>2. 1..n \subseteq 1..n' /\ n + 1 \in 1..n'
          BY ONLY <5>1
        <5>3. /\ air' = air \cup {n + 1} /\ used' = used /\ tried' = tried
              /\ failed' = failed
          BY <3>1, <2>1
        <5>4. QED
          BY ONLY <5>2, <5>3, <4>1, <3>2
    <3>5. rx' # Idle => rx'.bssid \in 1..n' /\ n' \in crossed'
      BY <3>1, <2>1, <2>2
    <3>6. QED
      BY <3>1, <3>3, <3>4, <3>5
  <2>5. QED
    BY <2>3, <2>4
<1>7. ASSUME NEW f \in Freqs \cup {Unspecified}, WalAuthenticateNoMemory(f)
      PROVE  Rest'
  <2>1. rx' = rx /\ failed' = failed \cup {n + 1} /\ tried' = tried
    BY <1>7 DEF WalAuthenticateNoMemory
  <2>2. rx # Idle => freqOf'[rx.bssid] = freqOf[rx.bssid] /\ n + 1 \in crossed'
    BY <1>7 DEF WalAuthenticateNoMemory
  <2>3. OneConnect' /\ DriverBufferLive'
    BY <1>7, <2>1, <2>2 DEF WalAuthenticateNoMemory
  <2>4. Latest' /\ IeLedger'
    BY <1>7, <2>1, <2>2 DEF WalAuthenticateNoMemory, Overwrite, Kfree
  <2>5. QED
    BY <2>3, <2>4
<1>8. CASE AuthReturns
  BY <1>8 DEF AuthReturns
<1>9. CASE AuthFails
  <2>1. /\ rx' = rx /\ n' = n /\ failed' = failed \cup {n} /\ freqOf' = freqOf
        /\ UNCHANGED <<used, tried, crossed>>
    BY <1>9 DEF AuthFails
  <2>2. OneConnect' /\ DriverBufferLive'
    BY <1>9, <2>1 DEF AuthFails, Kfree
  <2>3. Latest' /\ IeLedger'
    BY <1>9, <2>1 DEF AuthFails, Kfree
  <2>4. QED
    BY <2>2, <2>3
<1>10. ASSUME NEW c \in Calls, AuthRefused(c) PROVE Rest'
  BY <1>10 DEF AuthRefused, Reported
<1>11. ASSUME NEW c \in Calls, WalAssociate(c) PROVE Rest'
  <2>1. rx' # Idle
    BY <1>1, <1>11, AssocRequest
  <2>2. /\ rx = Idle /\ n # 0
        /\ UNCHANGED <<gp, heap, n, svc, freqOf, failed, tried, crossed>>
        /\ air' \subseteq air
        /\ used' = used \cup ({gp.ie} \ {NoBuf})
    BY <1>11 DEF WalAssociate, Reported, MayEnterRx
  <2>3. /\ rx'.freq = gp.freq /\ rx'.bssid = gp.bssid /\ rx'.ie = gp.ie
        /\ rx'.ieLen = gp.ieLen /\ rx'.crypto = gp.crypto
        /\ rx'.chan \in ChannelFor(freqOf[gp.freq])
    BY <1>11 DEF WalAssociate
  <2>4. freqOf[n] # Unspecified => rx'.chan = freqOf[n]
    BY <2>3, ChannelForType
  <2>5. used' \subseteq 1..n
    <3>1. used \subseteq 1..n /\ {gp.ie} \ {NoBuf} \subseteq 1..n
      BY <2>2
    <3>2. QED
      BY ONLY <3>1, <2>2
  <2>6. OneConnect' /\ DriverBufferLive'
    BY <2>1, <2>2, <2>3, <2>4
  <2>7. IeLedger'
    BY <2>2
  <2>8. air' \subseteq 1..n'
    BY <2>2
  <2>9. Latest'
    <3>1. UNCHANGED <<gp, n, svc, failed, tried, crossed>>
      BY <2>2
    <3>2. rx'.bssid = n /\ rx'.ie = gp.ie /\ n \in 1..n
      BY <2>2, <2>3
    <3>3. QED
      BY <3>1, <3>2, <2>1, <2>2, <2>5, <2>8
  <2>10. QED
    BY <2>6, <2>7, <2>9
<1>12. ASSUME NEW c \in Calls, WalAssociateIllegal(c) PROVE Rest'
  <2>1. n # 0 /\ tried' = tried \cup {n} /\ rx = Idle /\ rx' = Idle
    BY <1>12 DEF WalAssociateIllegal, Reported, MayEnterRx
  <2>2. QED
    BY <1>12, <2>1 DEF WalAssociateIllegal, Reported, DropIe, Kfree
<1>13. CASE AssocReturns
  BY <1>13 DEF AssocReturns, DropIe, Kfree
<1>14. CASE WalDisconnect
  BY <1>14 DEF WalDisconnect
<1>15. ASSUME NEW f \in Freqs, RegulatoryChange(f) PROVE Rest'
  BY <1>15 DEF RegulatoryChange
<1>16. CASE UNCHANGED vars
  BY <1>16 DEF vars
<1>17. QED
  BY <1>5, <1>6, <1>7, <1>8, <1>9, <1>10, <1>11, <1>12, <1>13, <1>14, <1>15,
     <1>16 DEF Next

THEOREM Inductive == Spec => []IInv
BY InvInit, InvStep, PTL DEF Spec

(* No buffer of information elements is leaked and global_param->ie never    *)
(* dangles, however the two threads interleave at the driver's calls.        *)
THEOREM Ledger == Spec => []IeLedger
BY Inductive, PTL DEF IInv

(* Every association, late and overlapping ones included, is the request of  *)
(* one Connect, and what may be missing or foreign in it is of a Connect     *)
(* that failed, was used up or was made under another association.           *)
THEOREM Coherence == Spec => []OneConnect
BY Inductive, PTL DEF IInv

(* Only a later Connect, or the failure of its own auth(), frees the         *)
(* information elements assoc() is reading.                                  *)
THEOREM LiveWhileInDriver == Spec => []DriverBufferLive
BY Inductive, PTL DEF IInv

(* The information elements of a Connect serve at most one association.      *)
THEOREM UsedOnce == Spec => IeUsedOnce
<1> DEFINE Fresh == rx' # rx /\ rx' # Idle => rx'.ie \notin used
<1>1. IInv /\ [Next]_vars => [Fresh]_vars
  <2> SUFFICES ASSUME IInv, Next, rx' # rx, rx' # Idle PROVE rx'.ie \notin used
    OBVIOUS
  <2>1. PICK c \in Calls : WalAssociate(c)
    BY DEF Next, XrMac80211Init, WalAuthenticate, WalAuthenticateNoMemory,
           AuthReturns, AuthFails, AuthRefused, WalAssociateIllegal,
           AssocReturns, WalDisconnect, RegulatoryChange
  <2>2. rx = Idle /\ rx'.ie = gp.ie
    BY <2>1 DEF WalAssociate, MayEnterRx
  <2>3. QED
    BY <2>2 DEF IInv, Latest
<1>2. QED
  BY <1>1, Inductive, PTL DEF Spec, IeUsedOnce

(***************************************************************************)
(* What needs a driver that reports every answer once and in time.         *)
(***************************************************************************)

(* An answer that is still to come belongs to a record that is complete, but *)
(* for the buffer dropped by an association that was running, and the        *)
(* association it starts uses it up.                                         *)
Orderly ==
  ~late =>
    /\ n \in air => gp.crypto = n /\ (gp.ie = n \/ n \in crossed)
    /\ rx # Idle => rx.answered = rx.bssid /\ rx.answered \notin air
    /\ AssocIsComplete

LEMMA OrderlyStep == IInv /\ Orderly /\ [Next]_vars => Orderly'
<1> SUFFICES ASSUME IInv, Orderly, [Next]_vars, ~late' PROVE Orderly'
  BY DEF Orderly
<1>1. /\ TypeOK /\ gp \in Params /\ n \in Nat
      /\ air \subseteq 1..n
  BY StaAssumption DEF IInv, TypeOK, Latest
<1>2. /\ gp.bssid = n /\ gp.freq = n /\ gp.ieLen = n
      /\ rx # Idle => rx.bssid \in 1..n /\ (rx.bssid # n => n \in crossed)
  BY DEF IInv, Latest
<1> USE <1>1, <1>2 DEF Orderly, AssocIsComplete
<1>3. CASE XrMac80211Init
  BY <1>3 DEF XrMac80211Init
<1>4. ASSUME NEW f \in Freqs \cup {Unspecified}, WalAuthenticate(f)
      PROVE  Orderly'
  <2>1. /\ ~late /\ rx' = rx /\ crossed \subseteq crossed'
        /\ gp'.ie = n' /\ gp'.crypto = n' /\ n' = n + 1 /\ air' = air \cup {n + 1}
    BY <1>4 DEF WalAuthenticate, Overwrite
  <2>2. QED
    BY <2>1
<1>5. ASSUME NEW f \in Freqs \cup {Unspecified}, WalAuthenticateNoMemory(f)
      PROVE  Orderly'
  <2>1. ~late /\ rx' = rx /\ crossed \subseteq crossed' /\ n' \notin air' /\ air' = air
    BY <1>5 DEF WalAuthenticateNoMemory
  <2>2. QED
    BY <2>1
<1>6. CASE AuthReturns
  BY <1>6 DEF AuthReturns
<1>7. CASE AuthFails
  BY <1>7 DEF AuthFails
<1>8. ASSUME NEW c \in Calls, AuthRefused(c) PROVE Orderly'
  BY <1>8 DEF AuthRefused, Reported, MayEnterRx
<1>9. ASSUME NEW c \in Calls, WalAssociate(c) PROVE Orderly'
  <2>1. /\ ~late /\ c = n /\ n \in air /\ n \notin air'
        /\ UNCHANGED <<n, gp, crossed>>
    BY <1>9 DEF WalAssociate, Reported
  <2>2. gp.crypto = n /\ (gp.ie = n \/ n \in crossed)
    BY <2>1
  <2>3. /\ rx'.freq = gp.freq /\ rx'.bssid = gp.bssid /\ rx'.ie = gp.ie
        /\ rx'.ieLen = gp.ieLen /\ rx'.crypto = gp.crypto /\ rx'.answered = c
    BY <1>9 DEF WalAssociate
  <2>4. QED
    BY <2>1, <2>2, <2>3
<1>10. ASSUME NEW c \in Calls, WalAssociateIllegal(c) PROVE Orderly'
  BY <1>10 DEF WalAssociateIllegal, Reported, MayEnterRx, DropIe
<1>11. CASE AssocReturns
  <2>1. /\ rx # Idle /\ rx' = Idle /\ gp'.crypto = gp.crypto
        /\ UNCHANGED <<n, air, crossed, late>>
    BY <1>11 DEF AssocReturns, DropIe, Params
  <2>2. n \in air => n \in crossed
    BY <2>1
  <2>3. QED
    BY <2>1, <2>2
<1>12. CASE WalDisconnect
  BY <1>12 DEF WalDisconnect
<1>13. ASSUME NEW f \in Freqs, RegulatoryChange(f) PROVE Orderly'
  BY <1>13 DEF RegulatoryChange
<1>14. CASE UNCHANGED vars
  BY <1>14 DEF vars
<1>15. QED
  BY <1>3, <1>4, <1>5, <1>6, <1>7, <1>8, <1>9, <1>10, <1>11, <1>12, <1>13,
     <1>14 DEF Next

(* With one answer per Connect an association carries all the parameters of  *)
(* the Connect whose answer started it, and no others, unless that Connect   *)
(* was made under the association of an earlier one.                         *)
THEOREM Complete == Spec => []AssocIsComplete
<1>1. Init => Orderly
  BY DEF Init, Orderly, AssocIsComplete
<1>2. Orderly => AssocIsComplete
  BY DEF Orderly, AssocIsComplete
<1>3. QED
  BY <1>1, <1>2, OrderlyStep, Inductive, PTL DEF Spec
=============================================================================
