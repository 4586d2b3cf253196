------------------------------ MODULE Clipboard -------------------------------
(***************************************************************************)
(* The clipboard between Android and the wayland desktop.  The one binder   *)
(* thread serves sendClipboardData: Android's text goes to                  *)
(* display->clipboard and to a wl_data_source of ours.  Two threads         *)
(* dispatch the wayland events, all of one queue: the wayland thread in its *)
(* main loop, SurfaceFlinger's in the roundtrips of window::create, which   *)
(* is whenever it likes.  The thread that meets a new selection reads it    *)
(* into display->clipboard: read_selection asks for the text, runs a nested *)
(* event loop (wl_display_roundtrip) and then blocks in read() until the    *)
(* source has written all and closed the pipe, and that source may be our   *)
(* own, whose send handler needs one of the two threads.                    *)
(* Texts fit into a pipe: data_source_handle_send does not block.           *)
(***************************************************************************)
EXTENDS Naturals, Sequences, SequencesExt

CONSTANT MaxSources   (* BOUND: selections made by anybody *)

NoSource == 0

(* Every selection has a source and a text of its own, both its number.     *)
Sources == 1..MaxSources

Threads == {"wayland", "flinger"}

VARIABLES
  clipboard,  (* display->clipboard, as the texts appended to it             *)
  mimeTypes,  (* display->clipboard_offer_mime_types: "text" for one of      *)
              (* MIME_TYPES, "other"                                         *)
  reads,      (* the calls of read_selection in the order they began: the    *)
              (* thread, the source, the step, and of the pipe the text in   *)
              (* it and whether the write end is open                        *)
  slow,       (* the thread that took the first event off the queue and has  *)
              (* not run its handler yet, or "nobody"                        *)
  binder,     (* the source sendClipboardData is about to set, or NoSource   *)
  requests,   (* our requests, flushed at the latest when they are taken     *)
  events,     (* the compositor's events for us, with the one in slow's hands*)
  selection,  (* the source of the selection, or NoSource                    *)
  owner,      (* who made a source: "nobody" yet, "android", "desktop" with  *)
              (* text or "image" without                                     *)
  asked,      (* the reads whose pipe a desktop client has to write to       *)
  overtaken   (* history: the handlers of the last selection ran while an    *)
              (* earlier event was in another thread's hands or a read ran   *)

stringVars == <<clipboard, mimeTypes>>
desktopVars == <<selection, owner, asked>>
clipboardVars ==
  <<stringVars, reads, slow, binder, requests, events, desktopVars, overtaken>>

Unmade == {s \in Sources : owner[s] = "nobody"}

NewSource == CHOOSE s \in Unmade : \A t \in Unmade : s <= t

-----------------------------------------------------------------------------
(* The binder thread.                                                       *)

(* sendClipboardData, its first line.                                       *)
SendClipboardData ==
  /\ binder = NoSource
  /\ Unmade # {}
  /\ binder' = NewSource
  /\ clipboard' = <<NewSource>>
  /\ owner' = [owner EXCEPT ![NewSource] = "android"]
  /\ UNCHANGED <<mimeTypes, reads, slow, requests, events, selection, asked, overtaken>>

(* The rest of it; nothing is flushed.                                      *)
SetSelection ==
  /\ binder # NoSource
  /\ requests' = Append(requests, [kind |-> "set", source |-> binder])
  /\ binder' = NoSource
  /\ UNCHANGED <<stringVars, reads, slow, events, desktopVars, overtaken>>

(* getClipboardData hands out display->clipboard, read or not read yet.     *)
GetClipboardData ==
  /\ binder = NoSource
  /\ UNCHANGED clipboardVars

-----------------------------------------------------------------------------
(* The two threads that dispatch.                                           *)

Running == {r \in DOMAIN reads : reads[r].step # "ended"}

(* The reads thread t is in, of which the innermost goes on.                *)
Innermost(t, r) ==
  /\ r \in Running
  /\ reads[r].thread = t
  /\ \A q \in Running : reads[q].thread = t => q <= r

InnermostAt(t, r, step) == Innermost(t, r) /\ reads[r].step = step

(* No events are read from the socket while a thread sleeps on it.  A read  *)
(* dispatches in its roundtrip: until its callback came, and whatever was   *)
(* read from the socket with it.                                            *)
MayDispatch(t) ==
  /\ \A r \in DOMAIN reads : reads[r].step # "asleep"
  /\ \A r \in DOMAIN reads : Innermost(t, r) => reads[r].step \in {"roundtrip", "clear"}

(* An event is taken off the queue, and its handler runs later: after those *)
(* of later events that the other thread takes.                             *)
TakeSlowly(t) ==
  /\ slow = "nobody"
  /\ events # << >>
  /\ MayDispatch(t)
  /\ slow' = t
  /\ UNCHANGED <<stringVars, reads, binder, requests, events, desktopVars, overtaken>>

(* The event whose handler thread t runs next.                              *)
Turn(t) == IF slow \in {"nobody", t} THEN 1 ELSE 2

Dispatch(t, kind) ==
  /\ MayDispatch(t)
  /\ Turn(t) <= Len(events)
  /\ events[Turn(t)].kind = kind
  /\ slow' = IF slow = t THEN "nobody" ELSE slow

EventsLeft(t) == RemoveAt(events, Turn(t))

(* data_device_handle_data_offer and data_offer_handle_offer                *)
HandleOffer(t) ==
  /\ Dispatch(t, "offer")
  /\ events' = EventsLeft(t)
  /\ mimeTypes' = mimeTypes \cup {events[Turn(t)].mime}
  /\ overtaken' = (slow # "nobody")
  /\ UNCHANGED <<clipboard, reads, binder, requests, desktopVars>>

StartRead(t, source, step, sync) ==
  /\ reads' = Append(reads, [thread |-> t, source |-> source, step |-> step,
                             text |-> << >>, open |-> TRUE])
  /\ requests' = requests \o
       <<[kind |-> "receive", source |-> source, read |-> Len(reads) + 1]>> \o sync

(* Mutant: no roundtrip, only a flush.                                      *)
ReadSelectionAtOnce(t, source) == StartRead(t, source, "read", << >>)

(* read_selection up to its roundtrip, which flushes.                       *)
ReadSelection(t, source) ==
  StartRead(t, source, "roundtrip",
            <<[kind |-> "sync", source |-> NoSource, read |-> Len(reads) + 1]>>)

(* data_device_handle_selection                                             *)
HandleSelection(t) ==
  /\ Dispatch(t, "selection")
  /\ events' = EventsLeft(t)
  /\ mimeTypes' = {}
  /\ overtaken' = \/ slow # "nobody"
                  \/ Running # {}
                  \/ overtaken /\ events[Turn(t)].source # NoSource
  /\ IF events[Turn(t)].source # NoSource /\ "text" \in mimeTypes
     THEN ReadSelection(t, events[Turn(t)].source) /\ UNCHANGED clipboard
     ELSE clipboard' = << >> /\ UNCHANGED <<reads, requests>>
  /\ UNCHANGED <<binder, desktopVars>>

TextOf(source) ==
  IF source = NoSource THEN << >> ELSE IF owner[source] = "image" THEN << >> ELSE <<source>>

(* data_source_handle_send writes the text and closes the pipe.             *)
HandleSend(t) ==
  /\ Dispatch(t, "send")
  /\ events' = EventsLeft(t)
  /\ reads' = [reads EXCEPT ![events[Turn(t)].read].text = TextOf(events[Turn(t)].source),
                            ![events[Turn(t)].read].open = FALSE]
  /\ UNCHANGED <<stringVars, binder, requests, desktopVars, overtaken>>

(* The other thread is about to write the text of the event in its hands.   *)
SendsOf(t, source) ==
  /\ slow \in Threads \ {t}
  /\ events[1].kind = "send"
  /\ events[1].source = source

(* data_source_handle_cancelled frees the source and its text; a thread     *)
(* that is about to write that text writes anything, or nothing.            *)
HandleCancelled(t) ==
  /\ Dispatch(t, "cancelled")
  /\ IF SendsOf(t, events[Turn(t)].source)
     THEN \E s \in Sources \cup {NoSource} : events' = [EventsLeft(t) EXCEPT ![1].source = s]
     ELSE events' = EventsLeft(t)
  /\ UNCHANGED <<stringVars, reads, binder, requests, desktopVars, overtaken>>

(* The callback of a roundtrip.  If the other thread runs it after the one  *)
(* in the roundtrip looked at `done` and before that sleeps in poll(), the  *)
(* sleep lasts until there is another event.                                *)
HandleDone(t) ==
  /\ Dispatch(t, "done")
  /\ events' = EventsLeft(t)
  /\ LET r == events[Turn(t)].read IN
     \E step \in {"clear", "asleep"} :
       /\ step = "asleep" => ~Innermost(t, r) /\ Innermost(reads[r].thread, r) /\ events' = << >>
       /\ reads' = [reads EXCEPT ![r].step = step]
  /\ UNCHANGED <<stringVars, binder, requests, desktopVars, overtaken>>

Wake(t) ==
  \E r \in DOMAIN reads :
    /\ InnermostAt(t, r, "asleep")
    /\ events # << >>
    /\ reads' = [reads EXCEPT ![r].step = "clear"]
    /\ UNCHANGED <<stringVars, slow, binder, requests, events, desktopVars, overtaken>>

(* The rest of read_selection, when the thread has no other handler to run. *)

(* Mutant: the new text is appended to the old one.                         *)
ClearNothing == UNCHANGED clipboard

ClearClipboard == clipboard' = << >>

RoundtripReturns(t) ==
  \E r \in DOMAIN reads :
    /\ slow # t
    /\ InnermostAt(t, r, "clear")
    /\ ClearClipboard
    /\ reads' = [reads EXCEPT ![r].step = "read"]
    /\ UNCHANGED <<mimeTypes, slow, binder, requests, events, desktopVars, overtaken>>

ReadText(t) ==
  \E r \in DOMAIN reads :
    /\ InnermostAt(t, r, "read")
    /\ reads[r].text # << >>
    /\ clipboard' = clipboard \o reads[r].text
    /\ reads' = [reads EXCEPT ![r].text = << >>]
    /\ UNCHANGED <<mimeTypes, slow, binder, requests, events, desktopVars, overtaken>>

(* Mutant: the first read() that finds the pipe empty is the last.          *)
ReadEndsEmpty(t) ==
  \E r \in DOMAIN reads :
    /\ InnermostAt(t, r, "read")
    /\ reads[r].text = << >>
    /\ reads' = [reads EXCEPT ![r].step = "ended"]
    /\ UNCHANGED <<stringVars, slow, binder, requests, events, desktopVars, overtaken>>

ReadEnds(t) ==
  \E r \in DOMAIN reads :
    /\ InnermostAt(t, r, "read")
    /\ reads[r].text = << >>
    /\ ~reads[r].open
    /\ reads' = [reads EXCEPT ![r].step = "ended"]
    /\ UNCHANGED <<stringVars, slow, binder, requests, events, desktopVars, overtaken>>

Handle(t) ==
  HandleOffer(t) \/ HandleSelection(t) \/ HandleSend(t) \/ HandleCancelled(t) \/ HandleDone(t)

GoOn(t) == Handle(t) \/ Wake(t) \/ RoundtripReturns(t) \/ ReadText(t) \/ ReadEnds(t)

-----------------------------------------------------------------------------
(* The compositor and the desktop's clients.  Our windows have the focus.   *)

(* The selection is source's: a source of ours that loses it is cancelled,  *)
(* and we hear of the new selection, our own too.                           *)
NewSelection(source, mime) ==
  /\ selection' = source
  /\ events' = events
       \o (IF selection # NoSource /\ owner[selection] = "android"
           THEN <<[kind |-> "cancelled", source |-> selection]>> ELSE << >>)
       \o (IF source # NoSource THEN <<[kind |-> "offer", mime |-> mime]>> ELSE << >>)
       \o <<[kind |-> "selection", source |-> source]>>

HandleRequest(kind) ==
  /\ requests # << >>
  /\ Head(requests).kind = kind
  /\ requests' = Tail(requests)

CompositorSets ==
  /\ HandleRequest("set")
  /\ NewSelection(Head(requests).source, "text")
  /\ UNCHANGED <<stringVars, reads, slow, binder, owner, asked, overtaken>>

(* The pipe is passed on to the source, or closed if its source is gone.    *)
CompositorAsks ==
  /\ HandleRequest("receive")
  /\ LET r == Head(requests) IN
     IF r.source # selection
     THEN reads' = [reads EXCEPT ![r.read].open = FALSE] /\ UNCHANGED <<events, asked>>
     ELSE IF owner[r.source] = "android"
     THEN events' = Append(events, [kind |-> "send", source |-> r.source, read |-> r.read])
          /\ UNCHANGED <<reads, asked>>
     ELSE asked' = asked \cup {r.read} /\ UNCHANGED <<reads, events>>
  /\ UNCHANGED <<stringVars, slow, binder, selection, owner, overtaken>>

CompositorSyncs ==
  /\ HandleRequest("sync")
  /\ events' = Append(events, [kind |-> "done", read |-> Head(requests).read])
  /\ UNCHANGED <<stringVars, reads, slow, binder, desktopVars, overtaken>>

(* A client asked for a text it does not have only closes the pipe.         *)
DesktopWrites ==
  \E r \in asked :
    /\ asked' = asked \ {r}
    /\ reads' = [reads EXCEPT ![r].text = TextOf(reads[r].source), ![r].open = FALSE]
    /\ UNCHANGED <<stringVars, slow, binder, requests, events, selection, owner, overtaken>>

DesktopCopies(kind) ==
  /\ Unmade # {}
  /\ owner' = [owner EXCEPT ![NewSource] = kind]
  /\ NewSelection(NewSource, IF kind = "desktop" THEN "text" ELSE "other")
  /\ UNCHANGED <<stringVars, reads, slow, binder, requests, asked, overtaken>>

DesktopClears ==
  /\ selection # NoSource
  /\ NewSelection(NoSource, "other")
  /\ UNCHANGED <<stringVars, reads, slow, binder, requests, owner, asked, overtaken>>

Compositor == CompositorSets \/ CompositorAsks \/ CompositorSyncs

-----------------------------------------------------------------------------
ClipboardInit ==
  /\ clipboard = << >> /\ mimeTypes = {}
  /\ reads = << >> /\ slow = "nobody"
  /\ binder = NoSource
  /\ requests = << >> /\ events = << >>
  /\ selection = NoSource /\ owner = [s \in Sources |-> "nobody"] /\ asked = {}
  /\ overtaken = FALSE

ClipboardNext ==
  \/ SendClipboardData \/ SetSelection \/ GetClipboardData
  \/ \E t \in Threads : TakeSlowly(t) \/ GoOn(t)
  \/ Compositor \/ DesktopWrites
  \/ \E kind \in {"desktop", "image"} : DesktopCopies(kind)
  \/ DesktopClears

ClipboardSpec == ClipboardInit /\ [][ClipboardNext]_clipboardVars

(* SurfaceFlinger's thread has a handler or a read to finish.               *)
Busy == slow = "flinger" \/ \E r \in Running : reads[r].thread = "flinger"

(* A roundtrip waits for its requests, and so has flushed them.             *)
Flushed == \E k \in DOMAIN requests : requests[k].kind \in {"receive", "sync"}

(* A thread with a handler or a read to finish goes on while it can, the    *)
(* wayland thread dispatches also without one; the compositor takes what    *)
(* was flushed, and a client that was asked for its text writes it.         *)
ClipboardFairness ==
  /\ WF_clipboardVars(GoOn("wayland"))
  /\ WF_clipboardVars(Busy /\ GoOn("flinger"))
  /\ WF_clipboardVars(Flushed /\ Compositor)
  /\ WF_clipboardVars(DesktopWrites)

ClipboardFairSpec == ClipboardSpec /\ ClipboardFairness

-----------------------------------------------------------------------------
(* Every variable has its type.                                             *)
ClipboardTypeOK ==
  /\ clipboard \in Seq(Sources)
  /\ mimeTypes \subseteq {"text", "other"}
  /\ reads \in Seq([thread : Threads, source : Sources,
                    step : {"roundtrip", "asleep", "clear", "read", "ended"},
                    text : Seq(Sources), open : BOOLEAN])
  /\ slow \in Threads \cup {"nobody"}
  /\ binder \in Sources \cup {NoSource}
  /\ selection \in Sources \cup {NoSource}
  /\ owner \in [Sources -> {"nobody", "android", "desktop", "image"}]
  /\ asked \subseteq Running

Quiet == Running = {} /\ binder = NoSource /\ requests = << >> /\ events = << >>

(* When everything sent has been handled, Android has the text of the       *)
(* desktop's selection, whoever made it and whichever threads handled it,   *)
(* and however the binder thread wrote between the steps of a read.         *)
(* Excepted are the handlers of two threads on the string at once and a     *)
(* selection that arrives within the roundtrip of another read: an older    *)
(* read may then go on and replace the text, or two put theirs together.    *)
(* The next selection that is handled alone repairs that.                   *)
ClipboardSettles == Quiet /\ ~overtaken => clipboard = TextOf(selection)

Reading(t) == \E r \in Running : reads[r].thread = t

(* The other thread ran the callback of t's roundtrip, and nothing is left  *)
(* that wakes t.                                                            *)
Stranded(t) == events = << >> /\ \E r \in DOMAIN reads : InnermostAt(t, r, "asleep")

(* A thread gets out of read_selection, whether it or the other one has to  *)
(* write the text it waits for, unless the other one took the callback of   *)
(* its roundtrip: then it may sleep until there is another event.           *)
ReadsReturn == \A t \in Threads : Reading(t) ~> ~Reading(t) \/ Stranded(t)
=============================================================================
