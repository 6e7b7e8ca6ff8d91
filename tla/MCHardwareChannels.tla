------------------------ MODULE MCHardwareChannels ------------------------
(***************************************************************************)
(* HardwareChannels on its own.  It is instantiated, and its faults are    *)
(* renamed, so that NativeProofs can extend this module beside RaplTune.   *)
(***************************************************************************)
EXTENDS Naturals

CONSTANTS MaxCalls, MaxChannelFaults
ASSUME ChannelsAssumption == MaxCalls \in Nat /\ MaxChannelFaults \in Nat

VARIABLES calls, callQueue, begun, pending, inbox, executing, outbox, worker, failure,
          closed, result, cleanup, channelFaults

HC == INSTANCE HardwareChannels WITH MaxFaults <- MaxChannelFaults, faults <- channelFaults

ChannelSpec == HC!FairSpec

-----------------------------------------------------------------------------
\* After a failure or the cleanup nothing new reaches the hardware: the WMI
\* thread starts no call, the CPU thread only one whose request was given up.
FailureStopsCalls == HC!FailureStopsCalls

\* A worker is stopped in the middle of a native call only because it failed,
\* and the CPU worker never.
WorkersEndQuietly == HC!WorkersEndQuietly

\* Every call settles, even when the hardware never answers.
EveryCallSettles == HC!EveryCallSettles
=============================================================================
