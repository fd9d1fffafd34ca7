----------------------------- MODULE MCAudioFifo -----------------------------
(***************************************************************************)
(* AudioFifo for TLC.  A buffer is the two pages it is on Linux (4096      *)
(* samples of 16 bits), so a write can be cut; the FIFO holds two buffers  *)
(* instead of eight: it can be empty, half full and full.                  *)
(***************************************************************************)
EXTENDS AudioFifo

MCFramePages   == 2
MCFifoFrames   == 2
MCMaxOverflows == 3
=============================================================================
