------------------------------ MODULE AudioDma ------------------------------
(***************************************************************************)
(* The audio DMA of the T507 (t507_dma_ops.c): one cyclic transfer per     *)
(* stream between a coherent buffer and the FIFO of the codec (render) or  *)
(* of the audio hub (capture).                                             *)
(*                                                                         *)
(* Three parties share the state. The HDF audio framework holds            *)
(* PlatformData (the buffer descriptions) and calls the operations; `fw'   *)
(* is what it believes each stream to be. The dmaengine keeps a queue of   *)
(* submitted descriptors and an active transfer per channel. The code in   *)
(* between only keeps channels and cookies (g_prtd), and trusts both.      *)
(***************************************************************************)
EXTENDS Naturals, Sequences, FiniteSets

CONSTANTS
  Addr,             (* addresses a coherent buffer can have                  *)
  Null,             (* NULL                                                  *)
  Sizes,            (* cirBufSize, in bytes                                  *)
  Frames,           (* frameSize, in bytes; 0 until the framework sets it    *)
  FrameworkClears,  (* does the framework set virtAddr to NULL after
                       DmaBufFree? The operation itself does not.            *)
  MaxRequests       (* bound: channel requests                               *)

Streams == {"render", "capture"}

ASSUME DmaAssumption ==
  /\ Null \notin Addr
  /\ Sizes \subseteq Nat \ {0}
  /\ Frames \subseteq Nat
  /\ FrameworkClears \in BOOLEAN
  /\ MaxRequests \in Nat \ {0, 1}

VARIABLES
  ready,    (* platformInitFlag                                              *)
  chan,     (* g_prtd.dma_chan: number of the channel, 0 for NULL            *)
  owned,    (* dmaengine: the channels handed out                            *)
  virt,     (* virtAddr of each buffer description                           *)
  heap,     (* the coherent buffers allocated                                *)
  size,     (* cirBufSize of each description                                *)
  frame,    (* frameSize of each stream                                      *)
  fw,       (* what the framework believes: closed, open, submitted, running
               or paused; dead if an operation did not return                *)
  queued,   (* dmaengine: submitted, not yet issued, of each channel         *)
  active,   (* dmaengine: the transfer in progress, <<>> if none             *)
  residue,  (* dmaengine: bytes left of the current pass over the buffer     *)
  ending,   (* dmaengine: buffers of terminated transfers whose last burst is
               not over                                                      *)
  astray    (* memory freed under such a burst                               *)

vars == <<ready, chan, owned, virt, heap, size, frame, fw, queued, active, residue,
          ending, astray>>

Init ==
  /\ ready = FALSE
  /\ chan = [s \in Streams |-> 0]
  /\ owned = {}
  /\ virt = [s \in Streams |-> Null]
  /\ heap = {}
  /\ size \in [Streams -> Sizes]
  /\ frame = [s \in Streams |-> 0]
  /\ fw = [s \in Streams |-> "closed"]
  /\ queued = [s \in Streams |-> <<>>]
  /\ active = [s \in Streams |-> <<>>]
  /\ residue = [s \in Streams |-> 0]
  /\ ending = [s \in Streams |-> {}]
  /\ astray = {}

(* What snd_dmaengine_pcm_request_channel gets when the channels `taken' are
   in use: a new channel, or NULL. *)
NewChan(taken) == Cardinality(taken) + 1

RequestChannel(taken) == {0, NewChan(taken)}

(***************************************************************************)
(* T507AudioDmaDeviceInit, until it succeeds once: the device and channel  *)
(* of render, then those of capture. A device may not be there yet; that a *)
(* channel was not granted is not noticed.                                 *)
(***************************************************************************)
DeviceInit ==
  /\ ~ready
  /\ \E tx \in RequestChannel(owned) :
       \E rx \in RequestChannel(owned \cup ({tx} \ {0})) :
         /\ chan' = [render |-> tx, capture |-> rx]
         /\ owned' = owned \cup ({tx, rx} \ {0})
  /\ ready' = TRUE
  /\ UNCHANGED <<virt, heap, size, frame, fw, queued, active, residue, ending, astray>>

(* Mutant: the channel of render is released, the pointer to it stays. *)
MutantDeviceInitNoHub ==
  /\ ~ready /\ NewChan(owned) + 2 <= MaxRequests
  /\ \E tx \in RequestChannel(owned) : chan' = [chan EXCEPT !["render"] = tx]
  /\ UNCHANGED <<ready, owned, virt, heap, size, frame, fw, queued, active, residue,
                 ending, astray>>

(* The audio hub is missing: the channel of render stays requested. At the
   bound there is room for one more attempt. *)
DeviceInitNoHub ==
  /\ ~ready /\ NewChan(owned) + 2 <= MaxRequests
  /\ \E tx \in RequestChannel(owned) :
       /\ chan' = [chan EXCEPT !["render"] = tx]
       /\ owned' = owned \cup ({tx} \ {0})
  /\ UNCHANGED <<ready, virt, heap, size, frame, fw, queued, active, residue, ending,
                 astray>>

(* Mutant: a buffer is allocated although there is one. *)
MutantKeepsBuffer(s) == FALSE

(* T507AudioDmaBufAlloc allocates only when the description has no buffer. *)
KeepsBuffer(s) == virt[s] # Null

(***************************************************************************)
(* The framework's HwParams of a stream: it sets the sizes, then calls     *)
(* T507AudioDmaBufAlloc and T507AudioDmaConfigChannel. A width the channel *)
(* does not have fails after the buffer was allocated, the engine may      *)
(* refuse the configuration, and dmaengine_slave_config does not return    *)
(* when it is given a NULL channel.                                        *)
(***************************************************************************)
ConfigAccepts(bitWidth) == bitWidth \in {8, 16, 32}

(* Mutant: the engine is not asked. *)
MutantConfigured(s, bitWidth) == IF ConfigAccepts(bitWidth) THEN {"open"} ELSE {"closed"}

Configured(s, bitWidth) ==
  IF ~ConfigAccepts(bitWidth) THEN {"closed"}
  ELSE IF chan[s] = 0 THEN {"dead"} ELSE {"open", "closed"}

HwParams(s, sz, fr, bitWidth) ==
  /\ ready /\ fw[s] \in {"closed", "open"}
  /\ size' = [size EXCEPT ![s] = sz]
  /\ frame' = [frame EXCEPT ![s] = fr]
  /\ IF KeepsBuffer(s)
     THEN UNCHANGED <<virt, heap>>
     ELSE \E a \in Addr \ heap : virt' = [virt EXCEPT ![s] = a] /\ heap' = heap \cup {a}
  /\ \E f \in Configured(s, bitWidth) : fw' = [fw EXCEPT ![s] = f]
  /\ UNCHANGED <<ready, chan, owned, queued, active, residue, ending, astray>>

(* dma_alloc_wc fails. *)
HwParamsNoMemory(s, sz, fr) ==
  /\ ready /\ fw[s] \in {"closed", "open"}
  /\ ~KeepsBuffer(s)
  /\ size' = [size EXCEPT ![s] = sz]
  /\ frame' = [frame EXCEPT ![s] = fr]
  /\ UNCHANGED <<ready, chan, owned, virt, heap, fw, queued, active, residue, ending, astray>>

(* T507AudioDmaBufFree, when the framework closes a stream it has stopped. It
   does not wait for the last burst of the transfer that was terminated. *)
BufFree(s) ==
  /\ fw[s] \in {"closed", "open"}
  /\ virt[s] # Null
  /\ heap' = heap \ {virt[s]}
  /\ virt' = IF FrameworkClears THEN [virt EXCEPT ![s] = Null] ELSE virt
  /\ fw' = [fw EXCEPT ![s] = "closed"]
  /\ ending' = [ending EXCEPT ![s] = @ \ {virt[s]}]
  /\ astray' = astray \cup (ending[s] \cap {virt[s]})
  /\ UNCHANGED <<ready, chan, owned, size, frame, queued, active, residue>>

(***************************************************************************)
(* T507AudioDmaSubmit queues one cyclic descriptor over the buffer; it may *)
(* fail to get the descriptor.                                             *)
(***************************************************************************)
Descriptor(s) == [buf |-> virt[s], len |-> size[s]]

Submit(s) ==
  /\ fw[s] = "open"
  /\ queued' = [queued EXCEPT ![s] = Append(@, Descriptor(s))]
  /\ fw' = [fw EXCEPT ![s] = "submitted"]
  /\ UNCHANGED <<ready, chan, owned, virt, heap, size, frame, active, residue, ending, astray>>

(* The dmaengine starts the first issued descriptor of an idle channel. *)
Issue(s, q) ==
  IF active[s] = <<>> /\ q # <<>>
  THEN /\ active' = [active EXCEPT ![s] = <<Head(q)>>]
       /\ residue' = [residue EXCEPT ![s] = Head(q).len]
  ELSE UNCHANGED <<active, residue>>

(* T507AudioDmaPending. *)
Pending(s) ==
  /\ fw[s] = "submitted"
  /\ Issue(s, queued[s])
  /\ queued' = [queued EXCEPT ![s] = <<>>]
  /\ fw' = [fw EXCEPT ![s] = "running"]
  /\ UNCHANGED <<ready, chan, owned, virt, heap, size, frame, ending, astray>>

(* The buffer of the transfer in progress: its last burst is yet to come. *)
LastBurst(s) == {active[s][i].buf : i \in DOMAIN active[s]}

(* Mutants: only the active transfer, or only the queue, is terminated. *)
MutantTerminateActive(s) ==
  /\ active' = [active EXCEPT ![s] = <<>>]
  /\ ending' = [ending EXCEPT ![s] = @ \cup LastBurst(s)]
  /\ UNCHANGED queued

MutantTerminateQueue(s) ==
  /\ queued' = [queued EXCEPT ![s] = <<>>]
  /\ UNCHANGED <<active, ending>>

(* dmaengine_terminate_async drops the queue and asks the active transfer to
   stop, which it does at the end of a burst: the call does not wait. *)
Terminate(s) ==
  /\ active' = [active EXCEPT ![s] = <<>>]
  /\ queued' = [queued EXCEPT ![s] = <<>>]
  /\ ending' = [ending EXCEPT ![s] = @ \cup LastBurst(s)]

(* T507AudioDmaPause is used to pause and to stop. *)
Pause(s) ==
  /\ fw[s] \in {"submitted", "running", "paused"}
  /\ Terminate(s)
  /\ residue' = [residue EXCEPT ![s] = 0]
  /\ \E f \in {"paused", "open"} : fw' = [fw EXCEPT ![s] = f]
  /\ UNCHANGED <<ready, chan, owned, virt, heap, size, frame, astray>>

(* The engine comes to the end of the last burst of a terminated transfer. *)
BurstEnds(s) ==
  /\ ending[s] # {}
  /\ ending' = [ending EXCEPT ![s] = {}]
  /\ UNCHANGED <<ready, chan, owned, virt, heap, size, frame, fw, queued, active,
                 residue, astray>>

StrayBurstEnds ==
  /\ astray # {}
  /\ astray' = {}
  /\ UNCHANGED <<ready, chan, owned, virt, heap, size, frame, fw, queued, active,
                 residue, ending>>

(* T507AudioDmaResume submits and issues a new descriptor. *)
Resume(s) ==
  /\ fw[s] = "paused"
  /\ Issue(s, Append(queued[s], Descriptor(s)))
  /\ queued' = [queued EXCEPT ![s] = <<>>]
  /\ fw' = [fw EXCEPT ![s] = "running"]
  /\ UNCHANGED <<ready, chan, owned, virt, heap, size, frame, ending, astray>>

(* The engine moves data. The residue passes through 0 at the end of the
   buffer before it starts again. *)
Transfer(s) ==
  /\ active[s] # <<>>
  /\ residue' = [residue EXCEPT ![s] = IF @ = 0 THEN active[s][1].len ELSE @ - 1]
  /\ UNCHANGED <<ready, chan, owned, virt, heap, size, frame, fw, queued, active, ending,
                 astray>>

(* Mutant: a residue of 0 is taken for the end of the buffer. *)
MutantPosition(s) ==
  IF active[s] # <<>> /\ residue[s] <= size[s] THEN size[s] - residue[s] ELSE 0

(***************************************************************************)
(* T507AudioDmaPointer: bytes played or recorded, then whole frames.       *)
(***************************************************************************)
Position(s) ==
  IF active[s] # <<>> /\ residue[s] \in 1..size[s] THEN size[s] - residue[s] ELSE 0

BytesToFrames(frameSize, bytes) ==
  IF frameSize = 0 \/ bytes = 0 THEN 0 ELSE bytes \div frameSize

Pointer(s) == BytesToFrames(frame[s], Position(s))

Next ==
  \/ DeviceInit
  \/ DeviceInitNoHub
  \/ \E s \in Streams, sz \in Sizes, fr \in Frames, w \in {16, 24} : HwParams(s, sz, fr, w)
  \/ \E s \in Streams, sz \in Sizes, fr \in Frames : HwParamsNoMemory(s, sz, fr)
  \/ \E s \in Streams : BufFree(s)
  \/ \E s \in Streams : Submit(s)
  \/ \E s \in Streams : Pending(s)
  \/ \E s \in Streams : Pause(s)
  \/ \E s \in Streams : Resume(s)
  \/ \E s \in Streams : Transfer(s)
  \/ \E s \in Streams : BurstEnds(s)
  \/ StrayBurstEnds

Spec == Init /\ [][Next]_vars

-----------------------------------------------------------------------------
Descriptors == [buf: Addr, len: Sizes]

(* Every variable has its type: in particular a stream's channel is NULL or  *)
(* one of those that were handed out, and what the engine holds are          *)
(* descriptors of allocated buffers or of buffers freed since.               *)
TypeOK ==
  /\ ready \in BOOLEAN
  /\ owned \subseteq 1..MaxRequests
  /\ chan \in [Streams -> owned \cup {0}]
  /\ virt \in [Streams -> Addr \cup {Null}]
  /\ heap \subseteq Addr
  /\ size \in [Streams -> Sizes] /\ frame \in [Streams -> Frames \cup {0}]
  /\ fw \in [Streams -> {"closed", "open", "submitted", "running", "paused", "dead"}]
  /\ queued \in [Streams -> Seq(Descriptors)] /\ active \in [Streams -> Seq(Descriptors)]
  /\ residue \in [Streams -> Nat]
  /\ ending \in [Streams -> SUBSET Addr] /\ astray \subseteq Addr

(* Coherent memory is neither leaked nor shared: over any sequence of opens, *)
(* failures and closes of the two streams, the allocated buffers are exactly *)
(* those of the descriptions, one each.                                      *)
BufferLedger ==
  /\ heap = {virt[s] : s \in Streams} \ {Null}
  /\ virt["render"] = virt["capture"] => virt["render"] = Null

(* What the engine has queued, has in progress or has not finished since it  *)
(* was terminated lies in the allocated buffer of its own stream, over any   *)
(* order of stop, free and reopening. The one exception is a buffer freed    *)
(* before the last burst of its terminated transfer is over, which the code  *)
(* does not wait for: that burst is astray.                                  *)
DmaTouchesOwnBuffer ==
  \A s \in Streams :
    /\ \A q \in {queued[s], active[s]} : \A i \in DOMAIN q :
         q[i].buf = virt[s] /\ q[i].buf \in heap
    /\ ending[s] \subseteq {virt[s]} \cap heap

(* A stream has descriptors, a transfer or a last burst only on a channel    *)
(* that was granted to it alone, whichever requests failed, were repeated or *)
(* returned NULL before: a NULL channel is never noticed, but no stream gets *)
(* past its configuration.                                                   *)
ChannelsApart ==
  \A s \in Streams :
    queued[s] # <<>> \/ active[s] # <<>> \/ ending[s] # {} =>
      chan[s] \in owned /\ \A t \in Streams \ {s} : chan[t] # chan[s]

(* The framework's view of a stream and the engine's agree: a running stream *)
(* has the one transfer that was submitted for it and none behind it, any    *)
(* other stream has none.                                                    *)
EngineAgrees ==
  \A s \in Streams :
    /\ Len(active[s]) = IF fw[s] = "running" THEN 1 ELSE 0
    /\ Len(queued[s]) = IF fw[s] = "submitted" THEN 1 ELSE 0

(* The frame number reported to the framework stays inside the buffer, at    *)
(* the wrap-around too.                                                      *)
PointerInBuffer ==
  \A s \in Streams : frame[s] # 0 => Pointer(s) * frame[s] < size[s]
=============================================================================
