------------------------------- MODULE FileLoop -------------------------------
(***************************************************************************)
(* A file source that plays in a loop (apps-common/src/                    *)
(* deepstream_source_bin.c, seek_decode and restart_stream_buf_prob).  The *)
(* probe on the decoder's sink pad swallows the end of the stream, seeks   *)
(* back to the start from the main loop and shifts the time stamps of each *)
(* further round, so that what follows sees one stream without an end.     *)
(* The demuxer, and the basesrc that answers an EOS sent to it, are        *)
(* GStreamer's.                                                            *)
(***************************************************************************)
EXTENDS Naturals, Sequences

CONSTANTS
  LoopOptions, (* file-loop on or off: values of loop                      *)
  FrameCount,  (* frames of the file, one tick apart                       *)
  SegmentStop, (* segment->stop: the duration of the file                  *)
  MaxFrames    (* bound: frames                                            *)

\* Assumed by StreamPath.
FileAssumption ==
  /\ LoopOptions \subseteq BOOLEAN
  /\ FrameCount \in Nat \ {0} /\ MaxFrames \in Nat
  /\ SegmentStop \in Nat /\ SegmentStop >= FrameCount

VARIABLES
  loop,    (* file-loop is set and the uri is a file: the probe is there    *)
  demux,   (* "segment": about to send a new segment, "frames", "ended"    *)
  pos,     (* frames of the file already sent                              *)
  closing, (* destroy_pipeline has sent an EOS to the source               *)
  accumulatedBase, prevAccumulatedBase,
  seeks,   (* timers of seek_decode that have not fired                    *)
  seekFailed, (* history: the last seek in this pipeline has failed        *)
  pts      (* history: the time stamps of the frames sent on, in order     *)

seekVars == <<seeks, seekFailed>>
vars == <<loop, demux, pos, closing, accumulatedBase, prevAccumulatedBase,
          seekVars, pts>>

TypeOK ==
  /\ loop \in BOOLEAN
  /\ demux \in {"segment", "frames", "ended"}
  /\ pos \in 0..FrameCount /\ closing \in BOOLEAN
  /\ accumulatedBase \in Nat /\ prevAccumulatedBase \in Nat /\ seeks \in Nat
  /\ seekFailed \in BOOLEAN /\ pts \in Seq(Nat)

Init ==
  /\ loop \in LoopOptions
  /\ demux = "segment" /\ pos = 0 /\ closing = FALSE
  /\ accumulatedBase = 0 /\ prevAccumulatedBase = 0
  /\ seeks = 0 /\ seekFailed = FALSE /\ pts = << >>

\* restart_stream_buf_prob on a SEGMENT event
Segment ==
  /\ demux = "segment"
  /\ demux' = "frames" /\ pos' = 0
  /\ IF loop
     THEN /\ prevAccumulatedBase' = accumulatedBase
          /\ accumulatedBase' = accumulatedBase + SegmentStop
     ELSE UNCHANGED <<accumulatedBase, prevAccumulatedBase>>
  /\ UNCHANGED <<loop, closing, seekVars, pts>>

\* Mutant: the time stamp is not shifted.
FrameUnshifted ==
  /\ demux = "frames" /\ pos < FrameCount /\ Len(pts) < MaxFrames
  /\ pos' = pos + 1 /\ pts' = Append(pts, pos)
  /\ UNCHANGED <<loop, demux, closing, accumulatedBase, prevAccumulatedBase>>
  /\ UNCHANGED seekVars
\* restart_stream_buf_prob on a buffer
Frame ==
  /\ demux = "frames" /\ pos < FrameCount
  /\ Len(pts) < MaxFrames
  /\ pos' = pos + 1
  /\ pts' = Append(pts, pos + prevAccumulatedBase)
  /\ UNCHANGED <<loop, demux, closing, accumulatedBase, prevAccumulatedBase>>
  /\ UNCHANGED seekVars

AtEnd == demux = "frames" /\ (pos = FrameCount \/ closing)

\* Mutant: EOS is dropped, but no seek scheduled.
LoopEosOnly ==
  /\ loop /\ AtEnd
  /\ demux' = "ended"
  /\ UNCHANGED <<loop, pos, closing, accumulatedBase, prevAccumulatedBase, pts>>
  /\ UNCHANGED seekVars
\* restart_stream_buf_prob on EOS: it is dropped and a seek is scheduled.
LoopEos ==
  /\ loop /\ AtEnd
  /\ demux' = "ended" /\ seeks' = seeks + 1
  /\ UNCHANGED <<loop, pos, closing, accumulatedBase, prevAccumulatedBase, pts>>
  /\ UNCHANGED seekFailed

\* Without file-loop the probe is not installed and EOS goes downstream.
PassEos ==
  /\ ~loop /\ AtEnd
  /\ demux' = "ended"
  /\ UNCHANGED <<loop, pos, closing, accumulatedBase, prevAccumulatedBase, pts>>
  /\ UNCHANGED seekVars

\* The main loop runs seek_decode: the flushing seek restarts the demuxer
\* wherever it is; the flush events themselves are dropped by the probe, so
\* the frames already sent stay in the pipeline.  The id of the timer is kept
\* nowhere and outlives the pipeline.  A seek that fails is only logged, and
\* the timer does not come again.
SeekDecode ==
  /\ seeks > 0
  /\ seeks' = seeks - 1
  /\ \/ demux' = "segment" /\ seekFailed' = FALSE
     \/ demux' = demux /\ seekFailed' = TRUE
  /\ UNCHANGED <<loop, pos, closing, accumulatedBase, prevAccumulatedBase, pts>>

\* destroy_pipeline's EOS, and the new pipeline with the same NvDsSrcBin.
Close ==
  /\ ~closing
  /\ closing' = TRUE
  /\ UNCHANGED <<loop, demux, pos, accumulatedBase, prevAccumulatedBase,
                 seekVars, pts>>
Reopen ==
  /\ demux' = "segment" /\ pos' = 0 /\ closing' = FALSE
  /\ seekFailed' = FALSE
  /\ UNCHANGED <<loop, accumulatedBase, prevAccumulatedBase, seeks, pts>>

Next == Segment \/ Frame \/ LoopEos \/ PassEos \/ SeekDecode \/ Close \/ Reopen
Spec == Init /\ [][Next]_vars

-----------------------------------------------------------------------------
(* The time stamps that reach the decoder go forward over all rounds and    *)
(* recreations (deepstream_source_bin.c:343-346 says why they may not go    *)
(* back: the sinks' QoS would make the decoder drop frames).                *)
FrameTimesGoForward ==
  loop => \A i \in 2..Len(pts) : pts[i - 1] < pts[i]
=============================================================================
