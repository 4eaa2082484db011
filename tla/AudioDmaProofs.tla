--------------------------- MODULE AudioDmaProofs ---------------------------
(***************************************************************************)
(* Theorems about AudioDma, for any addresses, buffer sizes, frame sizes   *)
(* and number of channel requests. Only the two about which buffer is      *)
(* whose assume what the code relies on: that the framework sets virtAddr  *)
(* to NULL once it has freed a buffer.                                     *)
(***************************************************************************)
EXTENDS AudioDma, FiniteSetTheorems, TLAPS

USE DmaAssumption

(* Channels are handed out in order and once, and there is room for the      *)
(* attempt that succeeds.                                                    *)
Channels ==
  \E k \in 0..MaxRequests :
    /\ owned = 1..k
    /\ ~ready => k + 2 <= MaxRequests
    /\ chan \in [Streams -> 0..k]
    /\ chan["render"] = chan["capture"] => chan["render"] = 0

(* A stream that came past its configuration, or whose transfer has not ended *)
(* yet, has a channel, and keeps it.                                         *)
InUse(s) == fw[s] \in {"open", "submitted", "running", "paused"} \/ ending[s] # {}

HeldChannel == \A s \in Streams : InUse(s) => ready /\ chan[s] # 0

(* The last burst of a terminated transfer is over the present buffer.       *)
Bursts ==
  /\ ending \in [Streams -> SUBSET Addr] /\ astray \subseteq Addr
  /\ \A s \in Streams : ending[s] \subseteq {virt[s]}

(* A stream the framework holds open has a buffer.                           *)
OpenHasBuffer == \A s \in Streams : fw[s] # "closed" => virt[s] # Null

(* The engine holds exactly the descriptor of the stream's present buffer,   *)
(* while the stream is submitted or running.                                 *)
Engine ==
  \A s \in Streams :
    /\ queued[s] = IF fw[s] = "submitted" THEN <<Descriptor(s)>> ELSE <<>>
    /\ active[s] = IF fw[s] = "running" THEN <<Descriptor(s)>> ELSE <<>>
    /\ residue[s] \in 0..size[s]
    /\ fw[s] # "running" => residue[s] = 0

(* The variables the buffers and the engine are about.                       *)
Shapes ==
  /\ virt \in [Streams -> Addr \cup {Null}]
  /\ heap \subseteq Addr
  /\ size \in [Streams -> Sizes] /\ frame \in [Streams -> Frames \cup {0}]
  /\ fw \in [Streams -> {"closed", "open", "submitted", "running", "paused", "dead"}]
  /\ queued \in [Streams -> Seq(Descriptors)] /\ active \in [Streams -> Seq(Descriptors)]
  /\ residue \in [Streams -> Nat]

IInv == Shapes /\ OpenHasBuffer /\ Engine

(* The next channel is one past those handed out.                            *)
LEMMA NextChannel ==
  ASSUME NEW k \in Nat
  PROVE  RequestChannel(1..k) = {0, k + 1}
<1>1. 1 \in Int /\ k \in Int
  OBVIOUS
<1>2. Cardinality(1..k) = IF 1 > k THEN 0 ELSE k - 1 + 1
  BY ONLY <1>1, FS_Interval
<1>3. Cardinality(1..k) = k
  BY <1>2
<1>4. QED
  BY <1>3 DEF RequestChannel, NewChan

(* One more request: what is then handed out.                                *)
LEMMA Granted ==
  ASSUME NEW k \in Nat, NEW c \in RequestChannel(1..k)
  PROVE  \E j \in {k, k + 1} :
           /\ (1..k) \cup ({c} \ {0}) = 1..j
           /\ c \in 0..j
           /\ c # 0 => c = k + 1 /\ j = k + 1
<1>1. c \in {0, k + 1}
  BY NextChannel
<1>2. CASE c = 0
  <2>1. (1..k) \cup ({c} \ {0}) = 1..k /\ c \in 0..k
    BY <1>2
  <2>2. QED
    BY <1>2, <2>1
<1>3. CASE c = k + 1
  <2>1. {c} \ {0} = {k + 1}
    BY <1>3
  <2>2. (1..k) \cup ({c} \ {0}) = 1..(k + 1) /\ c \in 0..(k + 1)
    BY <1>3, <2>1
  <2>3. QED
    BY <1>3, <2>2
<1>4. QED
  BY <1>1, <1>2, <1>3

LEMMA ChannelsInit == Init => Channels
<1> SUFFICES ASSUME Init PROVE Channels
  OBVIOUS
<1>1. 0 \in 0..MaxRequests /\ 0 + 2 <= MaxRequests
  OBVIOUS
<1>2. owned = 1..0 /\ chan \in [Streams -> 0..0] /\ chan["render"] = 0
  BY DEF Init, Streams
<1>3. QED
  BY <1>1, <1>2 DEF Channels

LEMMA ChannelsStep == Channels /\ [Next]_vars => Channels'
<1> SUFFICES ASSUME Channels, [Next]_vars PROVE Channels'
  OBVIOUS
<1>1. PICK k \in 0..MaxRequests :
        /\ owned = 1..k
        /\ ~ready => k + 2 <= MaxRequests
        /\ chan \in [Streams -> 0..k]
        /\ chan["render"] = chan["capture"] => chan["render"] = 0
  BY DEF Channels
<1>2. k \in Nat
  BY <1>1
<1>3. CASE DeviceInit
  <2>11. PICK tx \in RequestChannel(owned) :
           \E rx \in RequestChannel(owned \cup ({tx} \ {0})) :
             /\ chan' = [render |-> tx, capture |-> rx]
             /\ owned' = owned \cup ({tx, rx} \ {0})
    BY <1>3 DEF DeviceInit
  <2>1. PICK rx \in RequestChannel(owned \cup ({tx} \ {0})) :
          /\ chan' = [render |-> tx, capture |-> rx]
          /\ owned' = owned \cup ({tx, rx} \ {0})
    BY <2>11
  <2>2. PICK j \in {k, k + 1} :
          /\ owned \cup ({tx} \ {0}) = 1..j
          /\ tx \in 0..j
          /\ tx # 0 => tx = k + 1 /\ j = k + 1
    BY <1>1, <1>2, <2>11, Granted
  <2>3. j \in Nat
    BY <1>2, <2>2
  <2>4. PICK i \in {j, j + 1} :
          /\ (1..j) \cup ({rx} \ {0}) = 1..i
          /\ rx \in 0..i
          /\ rx # 0 => rx = j + 1 /\ i = j + 1
    <3>1. rx \in RequestChannel(1..j)
      BY <2>1, <2>2
    <3>2. QED
      BY <2>3, <3>1, Granted
  <2>5. owned' = 1..i
    BY <2>1, <2>2, <2>4
  <2>6. i \in 0..MaxRequests /\ tx \in 0..i /\ rx \in 0..i
    BY <1>1, <1>2, <1>3, <2>2, <2>3, <2>4 DEF DeviceInit
  <2>7. tx = rx => tx = 0
    BY <1>2, <2>2, <2>3, <2>4
  <2>8. chan' \in [Streams -> 0..i] /\ chan'["render"] = tx /\ chan'["capture"] = rx /\ ready'
    BY <1>3, <2>1, <2>6 DEF DeviceInit, Streams
  <2>9. QED
    BY <2>5, <2>6, <2>7, <2>8 DEF Channels
<1>4. CASE DeviceInitNoHub
  <2>1. PICK tx \in RequestChannel(owned) :
          /\ chan' = [chan EXCEPT !["render"] = tx]
          /\ owned' = owned \cup ({tx} \ {0})
    BY <1>4 DEF DeviceInitNoHub
  <2>2. PICK j \in {k, k + 1} :
          /\ owned \cup ({tx} \ {0}) = 1..j
          /\ tx \in 0..j
          /\ tx # 0 => tx = k + 1 /\ j = k + 1
    BY <1>1, <1>2, <2>1, Granted
  <2>3. NewChan(owned) = k + 1
    <3>1. NewChan(1..k) \in RequestChannel(1..k) /\ NewChan(1..k) # 0
      <4>1. Cardinality(1..k) \in Nat
        <5>1. IsFiniteSet(1..k)
          BY <1>2, FS_Interval
        <5>2. QED
          BY <5>1, FS_CardinalityType
      <4>2. QED
        BY <4>1 DEF RequestChannel, NewChan
    <3>2. QED
      BY <1>1, <1>2, <3>1, NextChannel
  <2>4. j \in 0..MaxRequests /\ j + 2 <= MaxRequests
    BY <1>2, <1>4, <2>2, <2>3 DEF DeviceInitNoHub
  <2>5. chan' \in [Streams -> 0..j] /\ chan'["render"] = tx
        /\ chan'["capture"] = chan["capture"] /\ chan["capture"] \in 0..k
    BY <1>1, <1>2, <2>1, <2>2 DEF Streams
  <2>6. tx = chan["capture"] => tx = 0
    BY <1>2, <2>2, <2>5
  <2>7. QED
    BY <2>1, <2>2, <2>4, <2>5, <2>6 DEF Channels
<1>5. CASE UNCHANGED <<ready, chan, owned>>
  BY <1>1, <1>5 DEF Channels
<1>6. QED
  BY <1>3, <1>4, <1>5
     DEF Next, HwParams, HwParamsNoMemory, BufFree, Submit, Pending, Pause, Resume,
         Transfer, BurstEnds, StrayBurstEnds, vars

-----------------------------------------------------------------------------
LEMMA InvInit == Init => IInv
<1> SUFFICES ASSUME Init PROVE IInv
  OBVIOUS
<1>1. <<>> \in Seq(Descriptors)
  OBVIOUS
<1>2. Shapes
  BY <1>1 DEF Init, Shapes
<1>4. OpenHasBuffer
  BY DEF Init, OpenHasBuffer
<1>5. Engine
  <2>1. \A s \in Streams : size[s] \in Nat
    BY DEF Init
  <2>2. QED
    BY <2>1 DEF Init, Engine
<1>6. QED
  BY <1>2, <1>4, <1>5 DEF IInv

(* The descriptor of an open stream is one.                                  *)
LEMMA DescriptorType ==
  ASSUME Shapes, OpenHasBuffer, NEW s \in Streams, fw[s] # "closed"
  PROVE  Descriptor(s) \in Descriptors
BY DEF Shapes, OpenHasBuffer, Descriptor, Descriptors

(* HwParams and BufFree: streams with no descriptor in the engine.           *)
LEMMA HwParamsStep ==
  ASSUME IInv, NEW s \in Streams, NEW sz \in Sizes, NEW fr \in Frames, NEW w \in {16, 24},
         HwParams(s, sz, fr, w)
  PROVE  IInv'
<1> USE DEF IInv
<1>1. /\ fw[s] \in {"closed", "open"}
      /\ size' = [size EXCEPT ![s] = sz] /\ frame' = [frame EXCEPT ![s] = fr]
      /\ UNCHANGED <<queued, active, residue>>
  BY DEF HwParams
<1>7. PICK f \in {"open", "closed", "dead"} : fw' = [fw EXCEPT ![s] = f]
  BY DEF HwParams, Configured
<1>2. /\ virt' \in [Streams -> Addr \cup {Null}] /\ heap' \subseteq Addr /\ virt'[s] # Null
      /\ \A t \in Streams \ {s} : virt'[t] = virt[t]
  <2>1. CASE KeepsBuffer(s)
    <3>1. UNCHANGED <<virt, heap>> /\ virt[s] # Null
      BY <2>1 DEF HwParams, KeepsBuffer
    <3>2. QED
      BY ONLY <3>1, Shapes DEF Shapes
  <2>2. CASE ~KeepsBuffer(s)
    <3>1. PICK a \in Addr \ heap : virt' = [virt EXCEPT ![s] = a] /\ heap' = heap \cup {a}
      BY <2>2 DEF HwParams
    <3>2. QED
      BY <3>1 DEF Shapes
  <2>3. QED
    BY <2>1, <2>2
<1>3. Shapes'
  <2>1. fw' \in [Streams -> {"closed", "open", "submitted", "running", "paused", "dead"}]
    BY ONLY <1>7, Shapes DEF Shapes
  <2>2. size' \in [Streams -> Sizes] /\ frame' \in [Streams -> Frames \cup {0}]
    BY ONLY <1>1, Shapes, sz \in Sizes, fr \in Frames DEF Shapes
  <2>3. QED
    BY ONLY <1>1, <1>2, <2>1, <2>2, Shapes DEF Shapes
<1>4. OpenHasBuffer'
  BY <1>7, <1>2 DEF OpenHasBuffer, Shapes
<1>5. Engine'
  <2>1. SUFFICES ASSUME NEW t \in Streams
                 PROVE  /\ queued'[t] = IF fw'[t] = "submitted" THEN <<Descriptor(t)'>> ELSE <<>>
                        /\ active'[t] = IF fw'[t] = "running" THEN <<Descriptor(t)'>> ELSE <<>>
                        /\ residue'[t] \in 0..size'[t]
                        /\ fw'[t] # "running" => residue'[t] = 0
    BY DEF Engine
  <2>2. CASE t = s
    BY <2>2, <1>1, <1>7 DEF Engine, Shapes
  <2>3. CASE t # s
    BY <2>3, <1>1, <1>2, <1>7 DEF Engine, Shapes, Descriptor
  <2>4. QED
    BY <2>2, <2>3
<1>6. QED
  BY <1>2, <1>3, <1>4, <1>5

LEMMA NoMemoryStep ==
  ASSUME IInv, NEW s \in Streams, NEW sz \in Sizes, NEW fr \in Frames,
         HwParamsNoMemory(s, sz, fr)
  PROVE  IInv'
<1> USE DEF IInv
<1>1. /\ fw[s] \in {"closed", "open"} /\ virt[s] = Null
      /\ size' = [size EXCEPT ![s] = sz] /\ frame' = [frame EXCEPT ![s] = fr]
      /\ UNCHANGED <<virt, heap, fw, queued, active, residue>>
  BY DEF HwParamsNoMemory, KeepsBuffer
<1>2. Shapes'
  <2>1. size' \in [Streams -> Sizes] /\ frame' \in [Streams -> Frames \cup {0}]
    BY ONLY <1>1, Shapes, s \in Streams, sz \in Sizes, fr \in Frames DEF Shapes
  <2>2. QED
    BY ONLY <1>1, <2>1, Shapes DEF Shapes
<1>3. OpenHasBuffer'
  BY <1>1 DEF OpenHasBuffer
<1>4. Engine'
  BY <1>1 DEF Engine, Shapes, Descriptor
<1>5. QED
  BY <1>2, <1>3, <1>4

LEMMA BufFreeStep ==
  ASSUME IInv, NEW s \in Streams, BufFree(s)
  PROVE  IInv'
<1> USE DEF IInv
<1>1. /\ fw[s] \in {"closed", "open"}
      /\ virt' \in {virt, [virt EXCEPT ![s] = Null]} /\ heap' = heap \ {virt[s]}
      /\ fw' = [fw EXCEPT ![s] = "closed"]
      /\ UNCHANGED <<size, frame, queued, active, residue>>
  BY DEF BufFree
<1>2. Shapes' /\ OpenHasBuffer'
  BY <1>1 DEF Shapes, OpenHasBuffer
<1>3. Engine'
  BY <1>1 DEF Engine, Shapes, Descriptor
<1>4. QED
  BY <1>2, <1>3

(* The dmaengine's queue and its active transfer as sequences.               *)
LEMMA Singleton ==
  ASSUME NEW S, NEW d \in S
  PROVE  /\ Append(<<>>, d) = <<d>> /\ Head(<<d>>) = d /\ <<d>>[1] = d
         /\ <<d>> # <<>> /\ <<d>> \in Seq(S) /\ <<>> \in Seq(S)
OBVIOUS

(* A step that gives one stream the state f, with the queue, the transfer    *)
(* and the residue r that fit it, and leaves the buffers alone.              *)
Moves(s, f, r) ==
  /\ f \in {"closed", "open", "submitted", "running", "paused", "dead"}
  /\ r \in 0..size[s]
  /\ f # "closed" => fw[s] # "closed"
  /\ f # "running" => r = 0
  /\ UNCHANGED <<virt, heap, size, frame>>
  /\ fw' = [fw EXCEPT ![s] = f]
  /\ queued' = [queued EXCEPT ![s] = IF f = "submitted" THEN <<Descriptor(s)>> ELSE <<>>]
  /\ active' = [active EXCEPT ![s] = IF f = "running" THEN <<Descriptor(s)>> ELSE <<>>]
  /\ residue' = [residue EXCEPT ![s] = r]

LEMMA OneStream ==
  ASSUME Shapes, OpenHasBuffer, Engine, NEW s \in Streams, NEW f, NEW r,
         Moves(s, f, r)
  PROVE  IInv'
<1> USE DEF Moves
<1>1. f # "closed" => Descriptor(s) \in Descriptors
  BY DescriptorType
<1>2. <<>> \in Seq(Descriptors) /\ (f # "closed" => <<Descriptor(s)>> \in Seq(Descriptors))
  BY <1>1
<1>3. size[s] \in Nat /\ r \in Nat
  <2>1. size[s] \in Nat /\ r \in 0..size[s]
    BY DEF Shapes
  <2>2. QED
    BY <2>1
<1>4. Shapes'
  <2>1. /\ queued' \in [Streams -> Seq(Descriptors)]
        /\ active' \in [Streams -> Seq(Descriptors)]
    <3>1. (IF f = "submitted" THEN <<Descriptor(s)>> ELSE <<>>) \in Seq(Descriptors)
      BY <1>2
    <3>2. (IF f = "running" THEN <<Descriptor(s)>> ELSE <<>>) \in Seq(Descriptors)
      BY <1>2
    <3>3. QED
      BY <3>1, <3>2 DEF Shapes
  <2>2. residue' \in [Streams -> Nat]
    BY <1>3 DEF Shapes
  <2>3. fw' \in [Streams -> {"closed", "open", "submitted", "running", "paused", "dead"}]
    BY DEF Shapes
  <2>4. QED
    BY <2>1, <2>2, <2>3 DEF Shapes
<1>5. OpenHasBuffer'
  BY DEF OpenHasBuffer, Shapes
<1>6. Engine'
  <2>1. ASSUME NEW t \in Streams
        PROVE  /\ queued'[t] = IF fw'[t] = "submitted" THEN <<Descriptor(t)>> ELSE <<>>
               /\ active'[t] = IF fw'[t] = "running" THEN <<Descriptor(t)>> ELSE <<>>
               /\ residue'[t] \in 0..size[t]
               /\ fw'[t] # "running" => residue'[t] = 0
    BY DEF Shapes, Engine
  <2>2. \A t \in Streams : Descriptor(t)' = Descriptor(t)
    BY DEF Descriptor
  <2>3. QED
    BY <2>1, <2>2 DEF Engine
<1>7. QED
  BY <1>4, <1>5, <1>6 DEF IInv

(* The steps that start and stop transfers.                                  *)
LEMMA EngineStep ==
  ASSUME IInv, NEW s \in Streams,
         Submit(s) \/ Pending(s) \/ Pause(s) \/ Resume(s) \/ Transfer(s)
  PROVE  IInv'
<1>1. Shapes /\ OpenHasBuffer /\ Engine
  BY DEF IInv
<1>2. UNCHANGED <<virt, heap, size, frame>>
  BY DEF Submit, Pending, Pause, Resume, Transfer
<1>3. /\ queued[s] = IF fw[s] = "submitted" THEN <<Descriptor(s)>> ELSE <<>>
      /\ active[s] = IF fw[s] = "running" THEN <<Descriptor(s)>> ELSE <<>>
      /\ residue[s] \in 0..size[s] /\ (fw[s] # "running" => residue[s] = 0)
      /\ size[s] \in Nat /\ Descriptor(s).len = size[s]
  BY <1>1 DEF Engine, Shapes, Descriptor
<1>4. fw[s] # "closed" => Descriptor(s) \in Descriptors
  BY <1>1, DescriptorType
<1>5. active = [active EXCEPT ![s] = @] /\ queued = [queued EXCEPT ![s] = @]
      /\ residue = [residue EXCEPT ![s] = @] /\ fw = [fw EXCEPT ![s] = @]
  BY <1>1 DEF Shapes
<1>6. CASE Submit(s)
  <2>1. fw[s] = "open"
    BY <1>6 DEF Submit
  <2>2. Append(queued[s], Descriptor(s)) = <<Descriptor(s)>>
    BY <1>3, <1>4, <2>1, Singleton
  <2>3. queued' = [queued EXCEPT ![s] = <<Descriptor(s)>>] /\ UNCHANGED <<active, residue>>
        /\ fw' = [fw EXCEPT ![s] = "submitted"]
    BY <1>6, <2>2 DEF Submit
  <2>4. active' = [active EXCEPT ![s] = <<>>] /\ residue' = [residue EXCEPT ![s] = 0]
    BY <1>3, <1>5, <2>1, <2>3
  <2>5. Moves(s, "submitted", 0)
    BY <1>2, <1>3, <2>1, <2>3, <2>4 DEF Moves
  <2>6. QED
    BY <1>1, <2>5, OneStream
<1>7. CASE Pending(s)
  <2>1. fw[s] = "submitted"
    BY <1>7 DEF Pending
  <2>2. queued[s] = <<Descriptor(s)>> /\ active[s] = <<>> /\ queued[s] # <<>>
        /\ Head(queued[s]) = Descriptor(s)
    BY <1>3, <1>4, <2>1, Singleton
  <2>3. active' = [active EXCEPT ![s] = <<Descriptor(s)>>]
        /\ residue' = [residue EXCEPT ![s] = size[s]]
    BY <1>3, <1>7, <2>2 DEF Pending, Issue
  <2>4. queued' = [queued EXCEPT ![s] = <<>>] /\ fw' = [fw EXCEPT ![s] = "running"]
    BY <1>7 DEF Pending
  <2>5. Moves(s, "running", size[s])
    BY <1>2, <1>3, <2>1, <2>3, <2>4 DEF Moves
  <2>6. QED
    BY <1>1, <2>5, OneStream
<1>8. CASE Pause(s)
  <2>1. PICK f \in {"paused", "open"} : fw' = [fw EXCEPT ![s] = f]
    BY <1>8 DEF Pause
  <2>2. fw[s] # "closed" /\ active' = [active EXCEPT ![s] = <<>>]
        /\ queued' = [queued EXCEPT ![s] = <<>>] /\ residue' = [residue EXCEPT ![s] = 0]
    BY <1>8 DEF Pause, Terminate
  <2>3. Moves(s, f, 0)
    <3>1. 0 \in 0..size[s]
      BY <1>3
    <3>2. f # "submitted" /\ f # "running"
      OBVIOUS
    <3>3. QED
      BY <1>2, <2>1, <2>2, <3>1, <3>2 DEF Moves
  <2>4. QED
    BY <1>1, <2>3, OneStream
<1>9. CASE Resume(s)
  <2>1. fw[s] = "paused"
    BY <1>9 DEF Resume
  <2> DEFINE q == Append(queued[s], Descriptor(s))
  <2>2. q = <<Descriptor(s)>> /\ active[s] = <<>> /\ q # <<>> /\ Head(q) = Descriptor(s)
    BY <1>3, <1>4, <2>1, Singleton
  <2>3. active' = [active EXCEPT ![s] = <<Descriptor(s)>>]
        /\ residue' = [residue EXCEPT ![s] = size[s]]
    BY <1>3, <1>9, <2>2 DEF Resume, Issue
  <2>4. queued' = [queued EXCEPT ![s] = <<>>] /\ fw' = [fw EXCEPT ![s] = "running"]
    BY <1>9 DEF Resume
  <2>5. Moves(s, "running", size[s])
    BY <1>2, <1>3, <2>1, <2>3, <2>4 DEF Moves
  <2>6. QED
    BY <1>1, <2>5, OneStream
<1>10. CASE Transfer(s)
  <2>1. fw[s] = "running" /\ active[s] = <<Descriptor(s)>>
    BY <1>3, <1>10 DEF Transfer
  <2>2. active[s][1].len = size[s]
    BY <1>3, <1>4, <2>1, Singleton
  <2>3. PICK r \in 0..size[s] : residue' = [residue EXCEPT ![s] = r]
    <3>1. (IF residue[s] = 0 THEN size[s] ELSE residue[s] - 1) \in 0..size[s]
      BY <1>3
    <3>2. residue' = [residue EXCEPT ![s] = IF residue[s] = 0 THEN size[s] ELSE residue[s] - 1]
      BY <1>10, <2>2 DEF Transfer
    <3>3. QED
      BY <3>1, <3>2
  <2>4. UNCHANGED <<fw, queued, active>> /\ queued[s] = <<>>
    BY <1>3, <1>10, <2>1 DEF Transfer
  <2>5. fw' = [fw EXCEPT ![s] = "running"] /\ queued' = [queued EXCEPT ![s] = <<>>]
        /\ active' = [active EXCEPT ![s] = <<Descriptor(s)>>]
    BY <1>5, <2>1, <2>4
  <2>6. Moves(s, "running", r)
    BY <1>2, <2>1, <2>3, <2>5 DEF Moves
  <2>7. QED
    BY <1>1, <2>6, OneStream
<1>11. QED
  BY <1>6, <1>7, <1>8, <1>9, <1>10

LEMMA InvStep ==
  ASSUME IInv, [Next]_vars
  PROVE  IInv'
<1>1. ASSUME UNCHANGED <<virt, heap, size, frame, fw, queued, active, residue>> PROVE IInv'
  BY <1>1 DEF IInv, Shapes, OpenHasBuffer, Engine, Descriptor
<1>2. \/ DeviceInit \/ DeviceInitNoHub \/ StrayBurstEnds \/ UNCHANGED vars
      \/ (\E s \in Streams : BurstEnds(s))
      => UNCHANGED <<virt, heap, size, frame, fw, queued, active, residue>>
  BY DEF DeviceInit, DeviceInitNoHub, BurstEnds, StrayBurstEnds, vars
<1>3. QED
  BY <1>1, <1>2, HwParamsStep, NoMemoryStep, BufFreeStep, EngineStep DEF Next

(* IInv is what every reachable state satisfies, whether or not the framework *)
(* clears virtAddr.                                                          *)
LEMMA Inductive == Spec => []IInv
<1>1. IInv /\ [Next]_vars => IInv'
  BY InvStep
<1>2. QED
  BY InvInit, <1>1, PTL DEF Spec

-----------------------------------------------------------------------------
(* What the engine still does for a terminated transfer. A buffer is only    *)
(* allocated for a description that has none, so it has no burst either.     *)
LEMMA BurstsInit == Init => Bursts
BY DEF Init, Bursts

LEMMA BurstsStep ==
  ASSUME IInv, Bursts, [Next]_vars
  PROVE  Bursts'
<1> USE DEF Bursts
<1>1. ASSUME UNCHANGED <<virt, ending, astray>> PROVE Bursts'
  BY <1>1
<1>2. ASSUME NEW s \in Streams, NEW sz \in Sizes, NEW fr \in Frames, NEW w \in {16, 24},
             HwParams(s, sz, fr, w)
      PROVE  Bursts'
  <2>1. UNCHANGED <<ending, astray>>
    BY <1>2 DEF HwParams
  <2>2. CASE KeepsBuffer(s)
    BY <1>1, <1>2, <2>1, <2>2 DEF HwParams
  <2>3. CASE ~KeepsBuffer(s)
    <3>1. virt[s] = Null /\ ending[s] = {}
      BY <2>3 DEF KeepsBuffer
    <3>2. \A t \in Streams \ {s} : virt'[t] = virt[t]
      BY <1>2, <2>3 DEF HwParams, IInv, Shapes
    <3>3. QED
      BY <2>1, <3>1, <3>2
  <2>4. QED
    BY <2>2, <2>3
<1>3. ASSUME NEW s \in Streams, BufFree(s) PROVE Bursts'
  <2>1. /\ virt' \in {virt, [virt EXCEPT ![s] = Null]}
        /\ ending' = [ending EXCEPT ![s] = ending[s] \ {virt[s]}]
        /\ astray' = astray \cup (ending[s] \cap {virt[s]})
    BY <1>3 DEF BufFree
  <2>2. ending'[s] = {} /\ \A t \in Streams \ {s} : ending'[t] = ending[t] /\ virt'[t] = virt[t]
    BY <2>1 DEF IInv, Shapes
  <2>3. ending' \in [Streams -> SUBSET Addr] /\ astray' \subseteq Addr
    BY <2>1
  <2>4. QED
    BY <2>2, <2>3
<1>4. ASSUME NEW s \in Streams, Pause(s) PROVE Bursts'
  <2>1. /\ UNCHANGED <<virt, astray>>
        /\ ending' = [ending EXCEPT ![s] = ending[s] \cup LastBurst(s)]
    BY <1>4 DEF Pause, Terminate
  <2>2. LastBurst(s) \subseteq {virt[s]} /\ LastBurst(s) \subseteq Addr
    <3>1. active[s] = <<>> \/ active[s] = <<Descriptor(s)>>
      BY DEF IInv, Engine
    <3>2. LastBurst(s) \subseteq {virt[s]}
      BY <3>1 DEF LastBurst, Descriptor
    <3>3. virt[s] \in Addr
      BY <1>4 DEF Pause, IInv, Shapes, OpenHasBuffer
    <3>4. QED
      BY <3>2, <3>3
  <2>3. QED
    BY <2>1, <2>2
<1>5. ASSUME NEW s \in Streams, BurstEnds(s) PROVE Bursts'
  <2>1. UNCHANGED <<virt, astray>> /\ ending' = [ending EXCEPT ![s] = {}]
    BY <1>5 DEF BurstEnds
  <2>2. QED
    BY <2>1
<1>6. CASE StrayBurstEnds
  BY <1>6 DEF StrayBurstEnds
<1>7. QED
  BY <1>1, <1>2, <1>3, <1>4, <1>5, <1>6
     DEF Next, DeviceInit, DeviceInitNoHub, HwParamsNoMemory, Submit, Pending, Resume,
         Transfer, vars

LEMMA BurstsInductive == Spec => []Bursts
<1>1. IInv /\ Bursts /\ [Next]_vars => Bursts'
  BY BurstsStep
<1>2. QED
  BY Inductive, BurstsInit, <1>1, PTL DEF Spec

(* A stream gets past its configuration, or has a burst to come, only with a *)
(* channel: the channels change only before the first stream is opened.      *)
LEMMA HeldStep ==
  ASSUME IInv, Bursts, HeldChannel, [Next]_vars
  PROVE  HeldChannel'
<1> USE DEF HeldChannel, InUse
<1>1. ASSUME UNCHANGED <<ready, chan, fw>>,
             \A s \in Streams : ending'[s] # {} => InUse(s)
      PROVE  HeldChannel'
  BY <1>1
<1>2. CASE DeviceInit \/ DeviceInitNoHub
  BY <1>2 DEF DeviceInit, DeviceInitNoHub
<1>3. ASSUME NEW s \in Streams, UNCHANGED <<ready, chan>>,
             NEW f, fw' = [fw EXCEPT ![s] = f],
             \A t \in Streams : ending'[t] # {} => InUse(t),
             f \in {"closed", "dead"} \/ (ready /\ chan[s] # 0)
      PROVE  HeldChannel'
  <2>1. SUFFICES ASSUME NEW t \in Streams, InUse(t)' PROVE ready' /\ chan'[t] # 0
    OBVIOUS
  <2>2. CASE ending'[t] # {}
    BY <1>3, <2>2
  <2>3. CASE t # s /\ ending'[t] = {}
    <3>1. fw'[t] = fw[t]
      BY <1>3, <2>3 DEF IInv, Shapes
    <3>2. QED
      BY <1>3, <2>1, <2>3, <3>1
  <2>4. CASE t = s /\ ending'[t] = {}
    <3>1. fw'[t] = f
      BY <1>3, <2>4 DEF IInv, Shapes
    <3>2. QED
      BY <1>3, <2>1, <2>4, <3>1
  <2>5. QED
    BY <2>2, <2>3, <2>4
<1>4. ASSUME NEW s \in Streams, NEW sz \in Sizes, NEW fr \in Frames, NEW w \in {16, 24},
             HwParams(s, sz, fr, w)
      PROVE  HeldChannel'
  <2>1. PICK f \in Configured(s, w) : fw' = [fw EXCEPT ![s] = f]
    BY <1>4 DEF HwParams
  <2>2. f \in {"closed", "dead"} \/ (ready /\ chan[s] # 0)
    BY <1>4, <2>1 DEF HwParams, Configured
  <2>3. UNCHANGED <<ready, chan, ending>>
    BY <1>4 DEF HwParams
  <2>4. QED
    BY <1>3, <2>1, <2>2, <2>3
<1>5. ASSUME NEW s \in Streams, BufFree(s) PROVE HeldChannel'
  <2>1. UNCHANGED <<ready, chan>> /\ fw' = [fw EXCEPT ![s] = "closed"]
        /\ ending' = [ending EXCEPT ![s] = ending[s] \ {virt[s]}]
    BY <1>5 DEF BufFree
  <2>2. \A t \in Streams : ending'[t] # {} => InUse(t)
    BY <1>5, <2>1 DEF Bursts
  <2>3. QED
    BY <1>3, <2>1, <2>2
<1>6. ASSUME NEW s \in Streams, Pause(s) PROVE HeldChannel'
  <2>1. UNCHANGED <<ready, chan>> /\ InUse(s) /\ \E f : fw' = [fw EXCEPT ![s] = f]
    BY <1>6 DEF Pause
  <2>2. ending' = [ending EXCEPT ![s] = ending[s] \cup LastBurst(s)]
    BY <1>6 DEF Pause, Terminate
  <2>3. \A t \in Streams : ending'[t] # {} => InUse(t)
    BY <2>1, <2>2 DEF Bursts
  <2>4. QED
    BY <1>3, <2>1, <2>3
<1>7. ASSUME NEW s \in Streams, Submit(s) \/ Pending(s) \/ Resume(s) PROVE HeldChannel'
  <2>1. UNCHANGED <<ready, chan, ending>> /\ InUse(s) /\ \E f : fw' = [fw EXCEPT ![s] = f]
    BY <1>7 DEF Submit, Pending, Resume
  <2>2. QED
    BY <1>3, <2>1
<1>8. ASSUME NEW s \in Streams, BurstEnds(s) PROVE HeldChannel'
  <2>1. UNCHANGED <<ready, chan, fw>> /\ ending' = [ending EXCEPT ![s] = {}]
    BY <1>8 DEF BurstEnds
  <2>2. QED
    BY <1>1, <2>1 DEF Bursts
<1>9. CASE UNCHANGED <<ready, chan, fw, ending>>
  BY <1>1, <1>9
<1>10. QED
  BY <1>2, <1>4, <1>5, <1>6, <1>7, <1>8, <1>9
     DEF Next, HwParamsNoMemory, Transfer, StrayBurstEnds, vars

LEMMA HeldInductive == Spec => []HeldChannel
<1>1. Init => HeldChannel
  BY DEF Init, HeldChannel, InUse
<1>2. IInv /\ Bursts /\ HeldChannel /\ [Next]_vars => HeldChannel'
  BY HeldStep
<1>3. QED
  BY Inductive, BurstsInductive, <1>1, <1>2, PTL DEF Spec

-----------------------------------------------------------------------------
(* Who owns the buffers. Only here does it matter that the framework clears  *)
(* virtAddr: otherwise a description names a buffer that was freed.          *)
LEMMA LedgerStep ==
  ASSUME FrameworkClears, IInv, BufferLedger, [Next]_vars
  PROVE  BufferLedger'
<1>1. CASE UNCHANGED <<virt, heap>>
  BY <1>1 DEF BufferLedger
<1>2. ASSUME NEW s \in Streams, NEW sz \in Sizes, NEW fr \in Frames, NEW w \in {16, 24},
             HwParams(s, sz, fr, w)
      PROVE  BufferLedger'
  <2>1. CASE KeepsBuffer(s)
    BY <1>1, <1>2, <2>1 DEF HwParams
  <2>2. CASE ~KeepsBuffer(s)
    <3>1. PICK a \in Addr \ heap : virt' = [virt EXCEPT ![s] = a] /\ heap' = heap \cup {a}
      BY <1>2, <2>2 DEF HwParams
    <3>2. virt[s] = Null
      BY <2>2 DEF KeepsBuffer
    <3>3. QED
      BY <3>1, <3>2 DEF BufferLedger, IInv, Shapes, Streams
  <2>3. QED
    BY <2>1, <2>2
<1>3. ASSUME NEW s \in Streams, BufFree(s) PROVE BufferLedger'
  <2>1. /\ virt[s] # Null /\ heap' = heap \ {virt[s]} /\ virt' = [virt EXCEPT ![s] = Null]
    BY <1>3 DEF BufFree
  <2>2. QED
    BY <2>1 DEF BufferLedger, IInv, Shapes, Streams
<1>4. QED
  BY <1>1, <1>2, <1>3
     DEF Next, DeviceInit, DeviceInitNoHub, HwParamsNoMemory, Submit, Pending, Pause, Resume,
         Transfer, BurstEnds, StrayBurstEnds, vars

-----------------------------------------------------------------------------
(* Every variable has its type, for any number of channel requests, those    *)
(* that return NULL included.                                                *)
THEOREM TypeCorrect == Spec => []TypeOK
<1>1. Channels => owned \subseteq 1..MaxRequests /\ chan \in [Streams -> owned \cup {0}]
  BY DEF Channels
<1>2. Spec => [](ready \in BOOLEAN)
  <2>1. Init => ready \in BOOLEAN
    BY DEF Init
  <2>2. ready \in BOOLEAN /\ [Next]_vars => (ready \in BOOLEAN)'
    BY DEF Next, DeviceInit, DeviceInitNoHub, HwParams, HwParamsNoMemory, BufFree, Submit,
           Pending, Pause, Resume, Transfer, BurstEnds, StrayBurstEnds, vars
  <2>3. QED
    BY <2>1, <2>2, PTL DEF Spec
<1>3. Channels /\ IInv /\ Bursts /\ ready \in BOOLEAN => TypeOK
  BY <1>1 DEF IInv, Shapes, Bursts, TypeOK
<1>4. QED
  BY Inductive, BurstsInductive, ChannelsInit, ChannelsStep, <1>2, <1>3, PTL DEF Spec

(* The allocated buffers are those of the two descriptions, one each, over   *)
(* any sequence of opens, failures and closes, if the framework clears       *)
(* virtAddr.                                                                 *)
THEOREM BuffersOwned ==
  ASSUME FrameworkClears
  PROVE  Spec => []BufferLedger
<1>1. Init => BufferLedger
  BY DEF Init, BufferLedger, Streams
<1>2. IInv /\ BufferLedger /\ [Next]_vars => BufferLedger'
  BY LedgerStep
<1>3. QED
  BY Inductive, <1>1, <1>2, PTL DEF Spec

(* A running stream has one transfer, any other none, whatever the framework *)
(* does with virtAddr.                                                       *)
THEOREM OneTransfer == Spec => []EngineAgrees
<1>1. \A s \in Streams : Len(<<Descriptor(s)>>) = 1
  OBVIOUS
<1>2. Len(<<>>) = 0
  OBVIOUS
<1>3. ASSUME IInv, NEW s \in Streams
      PROVE  /\ Len(active[s]) = IF fw[s] = "running" THEN 1 ELSE 0
             /\ Len(queued[s]) = IF fw[s] = "submitted" THEN 1 ELSE 0
  <2>1. /\ queued[s] = IF fw[s] = "submitted" THEN <<Descriptor(s)>> ELSE <<>>
        /\ active[s] = IF fw[s] = "running" THEN <<Descriptor(s)>> ELSE <<>>
    BY <1>3 DEF IInv, Engine
  <2>2. QED
    BY <1>1, <1>2, <2>1
<1>4. IInv => EngineAgrees
  BY <1>3 DEF EngineAgrees
<1>5. QED
  BY Inductive, <1>4, PTL

(* What the engine has queued, in progress or to finish lies in the          *)
(* allocated buffer of its own stream, but for the last burst of a transfer  *)
(* whose buffer was freed at once, which is astray.                          *)
THEOREM OwnBuffer ==
  ASSUME FrameworkClears
  PROVE  Spec => []DmaTouchesOwnBuffer
<1>1. ASSUME IInv, BufferLedger, NEW s \in Streams, NEW q \in {queued[s], active[s]},
             NEW i \in DOMAIN q
      PROVE  q[i].buf = virt[s] /\ q[i].buf \in heap
  <2>1. q = <<Descriptor(s)>> /\ fw[s] # "closed"
    <3>1. q # <<>>
      BY <1>1
    <3>2. \/ q = IF fw[s] = "submitted" THEN <<Descriptor(s)>> ELSE <<>>
          \/ q = IF fw[s] = "running" THEN <<Descriptor(s)>> ELSE <<>>
      BY <1>1 DEF IInv, Engine
    <3>3. QED
      BY <3>1, <3>2
  <2>2. q[i] = Descriptor(s)
    BY <2>1
  <2>3. virt[s] # Null /\ virt[s] \in heap
    BY <1>1, <2>1 DEF IInv, OpenHasBuffer, BufferLedger
  <2>4. QED
    BY <2>2, <2>3 DEF Descriptor
<1>2. ASSUME Bursts, BufferLedger, NEW s \in Streams
      PROVE  ending[s] \subseteq {virt[s]} \cap heap
  BY <1>2 DEF Bursts, BufferLedger
<1>3. IInv /\ Bursts /\ BufferLedger => DmaTouchesOwnBuffer
  BY <1>1, <1>2 DEF DmaTouchesOwnBuffer
<1>4. QED
  BY Inductive, BurstsInductive, BuffersOwned, <1>3, PTL

(* Whatever requests failed, were repeated or returned NULL, the engine      *)
(* works for a stream only on a channel granted to that stream alone.        *)
THEOREM OwnChannel == Spec => []ChannelsApart
<1>1. ASSUME IInv, HeldChannel, Channels, NEW s \in Streams,
             queued[s] # <<>> \/ active[s] # <<>> \/ ending[s] # {}
      PROVE  chan[s] \in owned /\ \A t \in Streams \ {s} : chan[t] # chan[s]
  <2>1. InUse(s)
    BY <1>1 DEF IInv, Engine, InUse
  <2>2. chan[s] # 0
    BY <1>1, <2>1 DEF HeldChannel
  <2>3. PICK k \in 0..MaxRequests :
          /\ owned = 1..k
          /\ chan \in [Streams -> 0..k]
          /\ chan["render"] = chan["capture"] => chan["render"] = 0
    BY <1>1 DEF Channels
  <2>4. chan[s] \in owned
    BY <2>2, <2>3
  <2>5. \A t \in Streams \ {s} : chan[t] # chan[s]
    BY <2>2, <2>3 DEF Streams
  <2>6. QED
    BY <2>4, <2>5
<1>2. IInv /\ HeldChannel /\ Channels => ChannelsApart
  BY <1>1 DEF ChannelsApart
<1>3. QED
  BY Inductive, HeldInductive, ChannelsInit, ChannelsStep, <1>2, PTL DEF Spec

(* Whole frames never exceed the bytes they were counted from.               *)
LEMMA WholeFrames ==
  ASSUME NEW b \in Nat, NEW f \in Nat \ {0}
  PROVE  (b \div f) * f <= b
OBVIOUS

(* The position reported stays inside the buffer, for any buffer and frame   *)
(* size, also when one is no multiple of the other.                          *)
THEOREM PositionInside == Spec => []PointerInBuffer
<1>1. ASSUME IInv, NEW s \in Streams, frame[s] # 0
      PROVE  Pointer(s) * frame[s] < size[s]
  <2>1. size[s] \in Nat \ {0} /\ residue[s] \in Nat /\ frame[s] \in Nat \ {0}
    BY <1>1 DEF IInv, Shapes
  <2>2. Position(s) \in Nat /\ Position(s) < size[s]
    BY <2>1 DEF Position
  <2>3. CASE Position(s) = 0
    BY <2>1, <2>3 DEF Pointer, BytesToFrames
  <2>4. CASE Position(s) # 0
    <3>1. Pointer(s) = Position(s) \div frame[s]
      BY <2>1, <2>4 DEF Pointer, BytesToFrames
    <3>2. Pointer(s) * frame[s] <= Position(s)
      BY <2>1, <2>2, <3>1, WholeFrames
    <3>3. Pointer(s) \in Nat /\ Pointer(s) * frame[s] \in Nat
      BY <2>1, <2>2, <3>1
    <3>4. QED
      BY <2>1, <2>2, <3>2, <3>3
  <2>5. QED
    BY <2>3, <2>4
<1>2. IInv => PointerInBuffer
  BY <1>1 DEF PointerInBuffer
<1>3. QED
  BY Inductive, <1>2, PTL
=============================================================================
