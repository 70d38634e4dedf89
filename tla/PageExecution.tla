---------------------------- MODULE PageExecution ----------------------------
(***************************************************************************)
(* How the auto-pager plays a page (auto-pager/src/pager.ts): the audio of *)
(* the page is converted by sox, written to one file that all pages share, *)
(* and played by Asterisk from that file when the device answers.  The     *)
(* library of audio files is kept by the endpoints of api.ts and the       *)
(* tables of db.ts.                                                        *)
(*                                                                         *)
(* "out" is the converted file sox writes: next to the uploaded file, kept *)
(* for later pages, or, for the default beep, a temporary file every page  *)
(* makes anew.  A file that is unlinked while sox writes it is lost: that  *)
(* writer is not "attached" any more.                                      *)
(***************************************************************************)
EXTENDS Integers, FiniteSets

CONSTANTS
    Wav,     \* audio files that may be uploaded
    Beep,    \* the default sound
    NoSound, \* null
    Mixed,   \* what is heard of a file that is rewritten while it is played
    Page     \* pages, each executed once

ASSUME PageExecutionAssumption ==
    /\ Beep \notin Wav
    /\ {NoSound, Mixed} \cap (Wav \cup {Beep}) = {}

Audio == Wav \cup {Beep}

VARIABLES
    row,         \* the files with a row in wav_files
    uploaded,    \* the files in the directory of uploads
    deleted,     \* files that were deleted: no upload gets the name of another
    queueWav,    \* wav_file_id of a monitored queue
    out,         \* the converted file of each sound: "none", "partial" or "whole"
    current,     \* _current_page.sln16
    ami,         \* the AMI connection of the pager in use: "none", "up" or "lost"
    pages,       \* the pages under way
    log,         \* how many entries the page log has for each (page_log)
    shared,      \* pages that another page met between begin and end (history)
    cut          \* sounds whose conversion a crash cut off (history)

libraryVars == <<row, uploaded, deleted, queueWav>>
pageVars == <<libraryVars, out, current, ami, pages, log, shared, cut>>

Content == [audio : Audio, whole : BOOLEAN]

Preparing == {"spawned", "converting"}
PageStages    == Preparing \cup {"new", "originating", "dialled", "playing", "played", "failed", "lost"}
NewPage   == [stage |-> "new", audio |-> NoSound, attached |-> FALSE, mine |-> FALSE, heard |-> NoSound]

PagesTypeOK ==
    /\ row \subseteq uploaded /\ uploaded \subseteq Wav
    /\ queueWav \in row \cup {NoSound}
    /\ deleted \subseteq Wav
    /\ out \in [Audio -> {"none", "partial", "whole"}]
    /\ current \in Content \cup {NoSound}
    /\ ami \in {"none", "up", "lost"}
    /\ pages \in [Page -> [stage : PageStages, audio : Audio \cup {NoSound}, attached : BOOLEAN,
                           mine : BOOLEAN, heard : Content \cup {NoSound, Mixed}]]
    /\ log \in [Page -> 0..1]
    /\ shared \subseteq Page /\ cut \subseteq Wav

-----------------------------------------------------------------------------
(* executePage()                                                           *)

UnderWay == {p \in Page : pages[p].stage \in Preparing \cup {"originating", "dialled", "playing"}}
Writers(a) == {p \in Page : pages[p].stage = "converting" /\ pages[p].audio = a /\ pages[p].attached}

\* addPageLog()
Logged(p) == log' = [log EXCEPT ![p] = @ + 1]

\* Writing the shared file also changes what is being played from it.
WriteCurrent(p, content, record) ==
    /\ current' = content
    /\ pages' = [r \in Page |-> IF r = p THEN record
                                ELSE IF pages[r].stage = "playing" /\ current' # pages[r].heard
                                THEN [pages[r] EXCEPT !.heard = Mixed]
                                ELSE pages[r]]

\* The rest of preparePageAudio() once there is a file to read, and the request that
\* originates the call: without a connection of its own the page fails.
Prepared(p, record, state) ==
    /\ WriteCurrent(p, [audio |-> record.audio, whole |-> state = "whole"],
                    [record EXCEPT !.stage = IF record.mine THEN "originating" ELSE "failed"])
    /\ IF record.mine THEN UNCHANGED log ELSE Logged(p)

PlaysBeforeConverted(p, a) ==   \* fault: the conversion is not awaited
    LET record == [NewPage EXCEPT !.audio = a, !.mine = TRUE] IN
    /\ pages[p].stage = "new"
    /\ ami = "up"
    /\ Prepared(p, record, out[a])
    /\ shared' = IF UnderWay = {} THEN shared ELSE shared \cup UnderWay \cup {p}
    /\ UNCHANGED <<libraryVars, out, ami, cut>>

\* executePage() up to its first await: a page without a connection is logged and
\* given up; a file that was converted before, or is just being converted, is read;
\* else sox is started.
BeginPage(p, a) ==
    LET record == [NewPage EXCEPT !.audio = a, !.mine = TRUE] IN
    /\ pages[p].stage = "new"
    /\ \/ /\ ami \in {"none", "lost"}
          /\ pages' = [pages EXCEPT ![p] = [record EXCEPT !.stage = "failed"]]
          /\ Logged(p)
          /\ UNCHANGED <<current, shared>>
       \/ /\ ami = "up"
          /\ shared' = IF UnderWay = {} THEN shared ELSE shared \cup UnderWay \cup {p}
          /\ IF a # Beep /\ out[a] # "none"
             THEN Prepared(p, record, out[a])
             ELSE /\ pages' = [pages EXCEPT ![p] = [record EXCEPT !.stage = "spawned"]]
                  /\ UNCHANGED <<current, log>>
    /\ UNCHANGED <<libraryVars, out, ami, cut>>

\* sox opens the uploaded file, then the one it writes; a deletion may come between.
SoxOpens(p) ==
    /\ pages[p].stage = "spawned"
    /\ out' = [out EXCEPT ![pages[p].audio] = "partial"]
    /\ pages' = [pages EXCEPT ![p].stage = "converting", ![p].attached = TRUE]
    /\ UNCHANGED <<libraryVars, current, ami, log, shared, cut>>

Detached(ps) == [p \in Page |-> IF p \in ps THEN [pages[p] EXCEPT !.attached = FALSE] ELSE pages[p]]

FailUnlogged(p) ==   \* fault: a failed preparation is not logged
    /\ pages[p].stage \in Preparing
    /\ out' = IF pages[p].stage = "converting" THEN [out EXCEPT ![pages[p].audio] = "none"] ELSE out
    /\ pages' = [Detached(Writers(pages[p].audio)) EXCEPT ![p].stage = "failed"]
    /\ UNCHANGED <<libraryVars, current, ami, log, shared, cut>>

\* sox fails and removes what it has written; the page is logged as failed.
SoxFails(p) ==
    /\ pages[p].stage \in Preparing
    /\ IF pages[p].stage = "converting"
       THEN /\ out' = [out EXCEPT ![pages[p].audio] = "none"]
            /\ pages' = [Detached(Writers(pages[p].audio)) EXCEPT ![p].stage = "failed"]
       ELSE /\ pages' = [pages EXCEPT ![p].stage = "failed"]
            /\ UNCHANGED out
    /\ Logged(p)
    /\ UNCHANGED <<libraryVars, current, ami, shared, cut>>

\* sox ends well.  The page reads the file, which another page may have removed or
\* may still be writing; a beep is removed when it has been read.
SoxEnds(p) ==
    LET a     == pages[p].audio
        state == IF pages[p].attached /\ Writers(a) = {p} THEN "whole" ELSE out[a]
    IN  /\ pages[p].stage = "converting"
        /\ IF state = "none"
           THEN /\ pages' = [pages EXCEPT ![p].stage = "failed", ![p].attached = FALSE]
                /\ Logged(p)
                /\ UNCHANGED <<out, current>>
           ELSE /\ out' = [out EXCEPT ![a] = IF a = Beep THEN "none" ELSE state]
                /\ Prepared(p, [pages[p] EXCEPT !.attached = FALSE], state)
        /\ UNCHANGED <<libraryVars, ami, shared, cut>>

\* Asterisk answers the request: the call is made, or refused.
Originated(p, ok) ==
    /\ pages[p].stage = "originating" /\ pages[p].mine /\ ami = "up"
    /\ pages' = [pages EXCEPT ![p].stage = IF ok THEN "dialled" ELSE "failed"]
    /\ Logged(p)
    /\ UNCHANGED <<libraryVars, out, current, ami, shared, cut>>

\* The device answers and Asterisk plays what the shared file holds by now.
Answered(p) ==
    /\ pages[p].stage = "dialled"
    /\ pages' = [pages EXCEPT ![p].stage = "playing", ![p].heard = current]
    /\ UNCHANGED <<libraryVars, out, current, ami, log, shared, cut>>

\* The end of the playback, or of the 30 seconds the device has to answer.
HungUp(p) ==
    /\ pages[p].stage \in {"dialled", "playing"}
    /\ pages' = [pages EXCEPT ![p].stage = "played"]
    /\ UNCHANGED <<libraryVars, out, current, ami, log, shared, cut>>

-----------------------------------------------------------------------------
(* The pager's connection, restarts and crashes.                           *)

\* connect() has succeeded, for a new pager.
PagerConnects ==
    /\ ami # "up"
    /\ ami' = "up"
    /\ UNCHANGED <<libraryVars, out, current, pages, log, shared, cut>>

\* 'error' or 'close': an answer that is still awaited never comes, and the page
\* that awaits it is neither logged nor given up.
AmiLost ==
    /\ ami = "up"
    /\ ami' = "lost"
    /\ pages' = [p \in Page |-> IF pages[p].stage = "originating"
                                THEN [pages[p] EXCEPT !.stage = "lost"] ELSE pages[p]]
    /\ UNCHANGED <<libraryVars, out, current, log, shared, cut>>

\* disconnect(), by a restart of the services: the pages under way belong to the old
\* pager, which has no connection any more.
PagerDisconnects ==
    /\ ami # "none"
    /\ ami' = "none"
    /\ pages' = [p \in Page |-> [pages[p] EXCEPT !.mine = FALSE,
                                   !.stage = IF @ = "originating" THEN "lost" ELSE @]]
    /\ UNCHANGED <<libraryVars, out, current, log, shared, cut>>

\* The process ends with its children; Asterisk's calls go on.
Crash ==
    /\ \E p \in Page : pages[p].stage \in Preparing \cup {"originating"}
    /\ cut' = cut \cup {a \in Wav : Writers(a) # {}}
    /\ pages' = [p \in Page |-> IF pages[p].stage \in Preparing \cup {"originating"}
                                THEN [pages[p] EXCEPT !.stage = "lost", !.attached = FALSE]
                                ELSE pages[p]]
    /\ ami' = "none"
    /\ UNCHANGED <<libraryVars, out, current, log, shared>>

-----------------------------------------------------------------------------
(* The library.                                                            *)

\* POST /wav-files: the upload is stored ...
StoreUpload(w) ==
    /\ w \notin uploaded \cup deleted
    /\ uploaded' = uploaded \cup {w}
    /\ UNCHANGED <<row, deleted, queueWav, out, current, ami, pages, log, shared, cut>>

\* ... and, when its duration is known, entered: addWavFile().
AddWavFile(w) ==
    /\ w \in uploaded \ row
    /\ row' = row \cup {w}
    /\ UNCHANGED <<uploaded, deleted, queueWav, out, current, ami, pages, log, shared, cut>>

\* DELETE /wav-files/:id: both files are unlinked, then the row and, by the foreign
\* key, the queue's reference to it.
DeleteWavFile(w) ==
    /\ w \in row
    /\ uploaded' = uploaded \ {w} /\ row' = row \ {w}
    /\ queueWav' = IF queueWav = w THEN NoSound ELSE queueWav
    /\ out' = [out EXCEPT ![w] = "none"]
    /\ pages' = Detached(Writers(w))
    /\ deleted' = deleted \cup {w}
    /\ UNCHANGED <<current, ami, log, shared, cut>>

\* POST or PATCH /monitored-queues
PutQueueWav(w) ==
    /\ w \in row \cup {NoSound} /\ w # queueWav
    /\ queueWav' = w
    /\ UNCHANGED <<row, uploaded, deleted, out, current, ami, pages, log, shared, cut>>

\* The handler of the monitor's 'page' event: the sound of the queue.
PageOfQueue(p) == BeginPage(p, IF queueWav = NoSound THEN Beep ELSE queueWav)

\* POST /test-page: any file of the library, or the beep.
TestPage(p, a) ==
    /\ ami # "none"
    /\ a \in row \cup {Beep}
    /\ BeginPage(p, a)

PagesInit ==
    /\ row = {} /\ uploaded = {} /\ deleted = {} /\ queueWav = NoSound
    /\ out = [a \in Audio |-> "none"]
    /\ current = NoSound
    /\ ami = "none"
    /\ pages = [p \in Page |-> NewPage]
    /\ log = [p \in Page |-> 0]
    /\ shared = {} /\ cut = {}

PagesNext ==
    \/ \E p \in Page :
         \/ PageOfQueue(p) \/ \E a \in Audio : TestPage(p, a)
         \/ SoxOpens(p) \/ SoxFails(p) \/ SoxEnds(p)
         \/ \E ok \in BOOLEAN : Originated(p, ok)
         \/ Answered(p) \/ HungUp(p)
    \/ PagerConnects \/ AmiLost \/ PagerDisconnects \/ Crash
    \/ \E w \in Wav : StoreUpload(w) \/ AddWavFile(w) \/ DeleteWavFile(w)
    \/ \E w \in Wav \cup {NoSound} : PutQueueWav(w)

PagesSpec == PagesInit /\ [][PagesNext]_pageVars

-----------------------------------------------------------------------------
(* What should hold.                                                       *)

\* A page that no other page met is heard as it should be, its own sound and all of
\* it, whatever is uploaded, deleted, disconnected or restarted meanwhile; unless a
\* crash has cut off the conversion of that sound, for what is left of it counts as
\* converted ever after.
LonePageIsHeardWhole ==
    \A p \in Page \ shared :
        pages[p].heard # NoSound /\ pages[p].audio \notin cut =>
            pages[p].heard = [audio |-> pages[p].audio, whole |-> TRUE]

\* Every page that comes to an end the program learns of leaves one entry in the log,
\* however it ends; pages that a lost connection or a crash took leave none.
PageIsLoggedOnce ==
    \A p \in Page :
        log[p] = IF pages[p].stage \in {"dialled", "playing", "played", "failed"} THEN 1 ELSE 0

=============================================================================
