---------------------------- MODULE VoicePreview ----------------------------
(***************************************************************************)
(* Choosing a voice: the list of voices (useTTSVoices) and the sample the  *)
(* user listens to (VoiceSelector), which shares the loudspeaker with the  *)
(* narrator through the lease of tts-audio-focus.                          *)
(*                                                                         *)
(* A sample is one session of handlePreview; its stage is the await it has *)
(* reached.  The narrator is only its lease and whether it sounds.         *)
(***************************************************************************)
EXTENDS ClientEvents, FiniteSets

CONSTANTS MaxSamples, Voices, Fallback, Attempts
VARIABLES preview, voices

previewVars == <<preview, voices, events>>

ASSUME VoiceAssumption ==
    MaxSamples \in Nat /\ Fallback \subseteq Voices /\ Fallback # {} /\ Attempts \in Nat \ {0}

Samples == 1 .. MaxSamples
Narrator == -1
NoLease == 0

NewSample == [stage |-> "none", disposed |-> FALSE, url |-> FALSE, audio |-> FALSE,
              sounds |-> FALSE, timer |-> FALSE]

PreviewInit ==
    /\ preview = [current |-> 0,                        \* previewRef
                  sample |-> [i \in Samples |-> NewSample],
                  used |-> 0,
                  lease |-> NoLease,                     \* activeLease
                  narrating |-> FALSE,
                  previewing |-> FALSE,                 \* isPreviewing
                  error |-> FALSE,
                  mounted |-> TRUE]
    /\ \E v \in Voices :
         voices = [list |-> Fallback \cup {v}, preferred |-> v, ref |-> v, merging |-> FALSE,
                   attempt |-> 0, stage |-> "idle", loading |-> FALSE, error |-> FALSE,
                   mounted |-> TRUE]

(******************************** Samples **********************************)

Active(s, i) == s.current = i /\ ~s.sample[i].disposed

(* finishPreview. *)
FinishPreview(s, i) ==
    IF s.sample[i].disposed THEN s
    ELSE [s EXCEPT !.sample[i] = [@ EXCEPT !.disposed = TRUE, !.url = FALSE, !.audio = FALSE,
                                           !.sounds = FALSE, !.timer = FALSE],
                   !.lease = IF @ = i THEN NoLease ELSE @,
                   !.current = IF @ = i THEN 0 ELSE @,
                   !.previewing = @ /\ ~(s.current = i /\ s.mounted)]

StopPreview(s) == IF s.current # 0 THEN FinishPreview(s, s.current) ELSE s

(* claimTTSAudioFocus: the new lease is there before the old owner learns of its loss. *)
ClaimTTSAudioFocus(s, owner) ==
    LET claimed == [s EXCEPT !.lease = owner]
    IN  CASE s.lease \in {NoLease, owner} -> claimed
          [] s.lease = Narrator -> [claimed EXCEPT !.narrating = FALSE]
          [] OTHER -> StopPreview(claimed)

(* handlePreview up to its first await; a second press stops the sample. *)
HandlePreview ==
    /\ External
    /\ preview.mounted
    /\ IF preview.current # 0 THEN preview' = StopPreview(preview)
       ELSE /\ preview.used < MaxSamples
            /\ LET i == preview.used + 1
                   opened == [preview EXCEPT !.current = i, !.used = i, !.previewing = TRUE,
                                             !.error = FALSE,
                                             !.sample[i] = [NewSample EXCEPT !.stage = "fetch",
                                                                             !.timer = TRUE]]
                   claimed == ClaimTTSAudioFocus(opened, i)
               IN  preview' = [claimed EXCEPT !.narrating = FALSE]
    /\ UNCHANGED voices

(* Failure of an active sample: its message, and the session ends. *)
SampleFails(s, i) ==
    LET ended == [s EXCEPT !.sample[i].stage = "over"]
    IN  IF Active(s, i) THEN [FinishPreview(ended, i) EXCEPT !.error = TRUE] ELSE ended

FetchSettles(i) ==
    /\ preview.sample[i].stage = "fetch"
    /\ \/ preview' = SampleFails(preview, i)
       \/ preview' = [preview EXCEPT !.sample[i].stage =
                        IF Active(preview, i) THEN "blob" ELSE "over"]
    /\ Internal
    /\ UNCHANGED voices

(* Mutant: the audio is made for a session that has ended. *)
BlobArrivesLate(i) ==
    preview' = [preview EXCEPT !.sample[i] = [@ EXCEPT !.stage = "play", !.url = TRUE,
                                                       !.audio = TRUE, !.timer = FALSE]]

(* response.blob() resolves: the object URL and the element exist from here on. *)
BlobArrives(i) ==
    preview' = IF Active(preview, i)
               THEN [preview EXCEPT !.sample[i] = [@ EXCEPT !.stage = "play", !.url = TRUE,
                                                            !.audio = TRUE, !.timer = FALSE]]
               ELSE [preview EXCEPT !.sample[i].stage = "over"]

BlobSettles(i) ==
    /\ preview.sample[i].stage = "blob"
    /\ BlobArrives(i) \/ preview' = SampleFails(preview, i)
    /\ Internal
    /\ UNCHANGED voices

(* audio.play() resolves, perhaps after the session was cancelled: then it is paused. *)
PlaySettles(i) ==
    /\ preview.sample[i].stage = "play"
    /\ \/ preview' = [preview EXCEPT !.sample[i] = [@ EXCEPT !.stage = "over",
                                                              !.sounds = Active(preview, i)]]
       \/ preview' = SampleFails(preview, i)
    /\ Internal
    /\ UNCHANGED voices

(* onended and onerror, which finishPreview takes off the element. *)
SampleEnds(i) ==
    /\ preview.sample[i].audio
    /\ \/ preview' = FinishPreview(preview, i)
       \/ preview' = [FinishPreview(preview, i) EXCEPT !.error = @ \/ Active(preview, i)]
    /\ Internal
    /\ UNCHANGED voices

(* Thirty seconds without the audio: the abort listener. *)
SampleTimesOut(i) ==
    /\ preview.sample[i].timer
    /\ preview' = IF Active(preview, i) THEN [FinishPreview(preview, i) EXCEPT !.error = TRUE]
                  ELSE preview
    /\ Internal
    /\ UNCHANGED voices

(* The narrator plays (BackendTTS.playAudio claims the lease first), and it stops. *)
NarratorPlays ==
    /\ External
    /\ ~preview.narrating
    /\ preview' = [ClaimTTSAudioFocus(preview, Narrator) EXCEPT !.narrating = TRUE]
    /\ UNCHANGED voices

NarratorStops ==
    /\ External
    /\ preview.narrating
    /\ preview' = [preview EXCEPT !.narrating = FALSE,
                                  !.lease = IF @ = Narrator THEN NoLease ELSE @]
    /\ UNCHANGED voices

(* The selector goes away: its clean-up stops the sample. *)
SelectorUnmounts ==
    /\ External
    /\ preview.mounted
    /\ preview' = StopPreview([preview EXCEPT !.mounted = FALSE])
    /\ UNCHANGED voices

(******************************* Voice list ********************************)

MergeVoicesWithFallback(list, preferred) == Fallback \cup list \cup {preferred}

(* loadVoices: one load at a time, whoever asks. *)
LoadVoices ==
    /\ External
    /\ voices.mounted /\ voices.stage = "idle" /\ ~voices.loading
    /\ voices' = [voices EXCEPT !.stage = "request", !.attempt = 0, !.loading = TRUE,
                                !.error = FALSE]
    /\ UNCHANGED preview

(* Left mounted or not, the load's promise is over. *)
LoadEnds(v) == [v EXCEPT !.stage = "idle", !.loading = @ /\ ~v.mounted]

VoicesAnswer ==
    /\ voices.stage = "request"
    /\ \/ \E l \in SUBSET Voices :
            voices' = LoadEnds(IF voices.mounted
                               THEN [voices EXCEPT !.list = MergeVoicesWithFallback(l, voices.ref),
                                                   !.error = FALSE]
                               ELSE voices)
       \/ voices' = LoadEnds(voices)                                             \* 401
       \/ /\ voices.mounted /\ voices.attempt + 1 = Attempts
          /\ voices' = LoadEnds([voices EXCEPT
                                   !.list = MergeVoicesWithFallback(@, voices.ref),
                                   !.error = TRUE])
       \/ /\ voices.mounted /\ voices.attempt + 1 < Attempts
          /\ voices' = [voices EXCEPT !.stage = "wait"]
       \/ ~voices.mounted /\ voices' = LoadEnds(voices)
    /\ Internal
    /\ UNCHANGED preview

VoicesRetry ==
    /\ voices.stage = "wait"
    /\ voices' = IF voices.mounted THEN [voices EXCEPT !.stage = "request", !.attempt = @ + 1]
                 ELSE LoadEnds(voices)
    /\ Internal
    /\ UNCHANGED preview

(* handleVoiceChange: the setting changes, which stops the sample and, in a *)
(* microtask, merges the voice into the list.                               *)
HandleVoiceChange ==
    /\ External
    /\ voices.mounted
    /\ \E v \in Voices \ {voices.preferred} :
         voices' = [voices EXCEPT !.preferred = v, !.ref = v, !.merging = TRUE]
    /\ preview' = StopPreview(preview)

PreferredMerges ==
    /\ voices.merging
    /\ voices' = [voices EXCEPT !.merging = FALSE,
                                !.list = MergeVoicesWithFallback(@, voices.preferred)]
    /\ Internal
    /\ UNCHANGED preview

ReaderUnmounts ==
    /\ External
    /\ voices.mounted
    /\ voices' = [voices EXCEPT !.mounted = FALSE]
    /\ UNCHANGED preview

PreviewNext ==
    \/ HandlePreview \/ NarratorPlays \/ NarratorStops \/ SelectorUnmounts
    \/ \E i \in Samples :
         FetchSettles(i) \/ BlobSettles(i) \/ PlaySettles(i) \/ SampleEnds(i) \/ SampleTimesOut(i)
    \/ LoadVoices \/ VoicesAnswer \/ VoicesRetry \/ HandleVoiceChange \/ PreferredMerges
    \/ ReaderUnmounts

-----------------------------------------------------------------------------
(* At most one of the narrator and the samples sounds, and it is the one      *)
(* that holds the lease: a press, the narrator's next chunk, or a play() that *)
(* settles late never makes two voices speak at once (VoiceSelector.tsx,      *)
(* tts-audio-focus.ts).                                                       *)
OneVoice ==
    /\ preview.narrating => preview.lease = Narrator
    /\ \A i \in Samples : preview.sample[i].sounds => preview.lease = i /\ ~preview.narrating

(* Nothing outlives its session: an object URL, an audio element or the lease *)
(* of a sample belongs to the sample that is current.                         *)
SampleReleased ==
    \A i \in Samples :
      (preview.sample[i].url \/ preview.sample[i].audio \/ preview.lease = i) => preview.current = i

(* The selected voice can be found in the list, though the list is replaced   *)
(* by an answer asked for before the voice was chosen (useTTSVoices.ts).      *)
PreferredListed == voices.merging \/ voices.preferred \in voices.list

(* A load in progress shows as such, and a finished one does not: three       *)
(* attempts, a lost session and an unmounted reader all end it.               *)
LoadingShown == voices.mounted => (voices.loading <=> voices.stage # "idle")

(* Together: one voice at a time, nothing left of a sample that has ended, and *)
(* a list of voices that holds the selected one.                               *)
PreviewSafe == OneVoice /\ SampleReleased /\ PreferredListed /\ LoadingShown
=============================================================================
