----------------------------- MODULE FrameChannel -----------------------------
(***************************************************************************)
(* What a host that waits for its answer may expect of the link to the     *)
(* bootloader: one payload at a time is carried, what is delivered is that *)
(* payload, as far as the receiver reads it, and it is delivered once.     *)
(***************************************************************************)
CONSTANTS Payloads, Expected(_)

VARIABLES carried, delivered  \* <<>> when there is none

ChannelInit == carried = <<>> /\ delivered = <<>>

Send ==
  /\ carried = <<>> /\ carried' \in Payloads
  /\ UNCHANGED delivered

Deliver ==
  /\ carried # <<>> /\ carried' = <<>>
  /\ delivered' = Expected(carried)

\* The callback has returned.
Forget == delivered' = <<>> /\ UNCHANGED carried

ChannelNext == Send \/ Deliver \/ Forget

ChannelSpec == ChannelInit /\ [][ChannelNext]_<<carried, delivered>>
==============================================================================
