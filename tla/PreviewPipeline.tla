--------------------------- MODULE PreviewPipeline ---------------------------
(***************************************************************************)
(* From the camera to the preview clients, up to the notification: the     *)
(* capture thread publishes into FrameStore (src/core/frame_store.cpp), the *)
(* encoder thread of VisionApplication (src/runtime/vision_application.cpp) *)
(* takes the latest frame, encodes it, publishes the JPEGs into             *)
(* EncodedPreviewCache (src/provider/http/encoded_preview_cache.cpp) and    *)
(* posts a notification to the provider's I/O thread.                      *)
(* Every lock of a store is one step; the encoder's steps between two locks *)
(* interleave with everything else.                                        *)
(***************************************************************************)
EXTENDS Naturals, Sequences

CONSTANTS
  Kinds,        \* the streams that are enabled
  Generations,  \* capture generations
  Numbers,      \* frame numbers
  None          \* no frame

ASSUME KindsAssumption == Kinds \subseteq {"COLOR", "DEPTH"} /\ None \notin Kinds
ASSUME IdentityAssumption == Generations \subseteq Nat /\ Numbers \subseteq Nat

VARIABLES
  latest,       \* FrameStore::m_latest_frame
  preview,      \* preview[k]: the identity in the cache's slot for k
  stale,        \* stale[k]: the slot is older than max_frame_age_ms
  encoder,      \* the encoder thread's next step
  encoded,      \* last_encoded_identity
  posted,       \* what has been posted to the I/O thread and not run yet
  started       \* ProviderHttpServer's m_started

pipelineVars == <<latest, preview, stale, encoder, encoded>>

Identities == [generation : Generations, number : Numbers]
EncoderSteps == [step : {"take", "invalidate", "publish", "notify"}, kind : {"COLOR", "DEPTH"}]
At(step, k) == [step |-> step, kind |-> k]

\* isNewerIdentity and isNewer, the same in all three files.
IsNewer(f, g) ==
  \/ f.generation > g.generation
  \/ f.generation = g.generation /\ f.number > g.number

\* None stands for the FrameIdentity the encoder starts with, which is older
\* than every frame.
Newer(f, g) == g # None => IsNewer(f, g)

PipelineInit ==
  /\ latest = None
  /\ preview = [k \in Kinds |-> None]
  /\ stale = [k \in Kinds |-> FALSE]
  /\ encoder = At("take", "COLOR")
  /\ encoded = None
  /\ posted = <<>>
  /\ started = TRUE

-----------------------------------------------------------------------------
\* publishFrame, called by the capture thread for every frame it reads: a
\* frame that is not newer is refused.
PublishFrame(f) ==
  /\ Newer(f, latest)
  /\ latest' = f
  /\ UNCHANGED <<preview, stale, encoder, encoded, posted, started>>

\* waitForFrameAfter returns a frame.
EncoderTakes ==
  /\ encoder = At("take", "COLOR")
  /\ latest # None /\ Newer(latest, encoded)
  /\ encoded' = latest
  /\ encoder' = At("invalidate", "COLOR")
  /\ UNCHANGED <<latest, preview, stale, posted, started>>

\* invalidateGeneration: previews of another generation leave the cache.
EncoderInvalidates ==
  /\ encoder = At("invalidate", "COLOR")
  /\ preview' = [k \in Kinds |->
       IF preview[k] # None /\ preview[k].generation # encoded.generation
       THEN None ELSE preview[k]]
  /\ encoder' = At("publish", "COLOR")
  /\ UNCHANGED <<latest, stale, encoded, posted, started>>

AfterKind(k) == IF k = "COLOR" THEN At("publish", "DEPTH") ELSE At("take", "COLOR")

\* encodeRgbJpeg and publishPreview for kind k.  Without a view of this kind (it
\* is disabled, or the frame lacks it), when encoding throws, or when the slot is
\* newer, there is no notification.
EncoderPublishes(k) ==
  /\ encoder = At("publish", k)
  /\ \/ /\ k \in Kinds
        /\ Newer(encoded, preview[k])
        /\ preview' = [preview EXCEPT ![k] = encoded]
        /\ stale' = [stale EXCEPT ![k] = FALSE]
        /\ encoder' = At("notify", k)
     \/ /\ encoder' = AfterKind(k)
        /\ UNCHANGED <<preview, stale>>
  /\ UNCHANGED <<latest, encoded, posted, started>>

\* ProviderHttpServer::notifyStreamFrame.
EncoderNotifies(k) ==
  /\ encoder = At("notify", k)
  /\ posted' = IF started THEN Append(posted, k) ELSE posted
  /\ encoder' = AfterKind(k)
  /\ UNCHANGED <<latest, preview, stale, encoded, started>>

\* The preview in a slot gets too old to be served.
PreviewAges(k) ==
  /\ preview[k] # None /\ ~stale[k]
  /\ stale' = [stale EXCEPT ![k] = TRUE]
  /\ UNCHANGED <<latest, preview, encoder, encoded, posted, started>>

\* acquireFreshPreview.
AcquireFreshPreview(k) == IF stale[k] THEN None ELSE preview[k]

PipelineNext ==
  \/ \E f \in Identities : PublishFrame(f)
  \/ EncoderTakes
  \/ EncoderInvalidates
  \/ \E k \in {"COLOR", "DEPTH"} : EncoderPublishes(k)
  \/ \E k \in Kinds : EncoderNotifies(k) \/ PreviewAges(k)

PipelineTypeOK ==
  /\ latest \in Identities \cup {None}
  /\ preview \in [Kinds -> Identities \cup {None}]
  /\ stale \in [Kinds -> BOOLEAN]
  /\ encoder \in EncoderSteps
  /\ encoded \in Identities \cup {None}
  /\ started \in BOOLEAN
=============================================================================
