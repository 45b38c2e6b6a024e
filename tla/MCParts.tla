------------------------------- MODULE MCParts -------------------------------
(***************************************************************************)
(* The parts of the server that share no state with each other, in one     *)
(* state space: focus picks the part that runs, the others stay where they *)
(* begin.  The pure parts run as "samples" (module Samples).               *)
(***************************************************************************)
EXTENDS Samples, StudioData, Sessions, PersistedQueries, RequestLoaders, Files, Reads,
        Notices, Paging

VARIABLE focus

\* Of the names of roles and apps, which lie within which.
MCContained == {<<"user", "superuser">>, <<"web", "website">>}

MCIdFilters == {None, {1, 2, 4}}

MCSubscribed == Sc!Events([events |-> {"*"}])

(* Two texts with one hash, another, and a mutation that asks for           *)
(* __typename; the manifest has the first.                                  *)
MCTexts == {"q", "q ", "p", "named"}
MCHashOf == [t \in MCTexts |-> IF t = "q " THEN "q" ELSE t]
MCWords == [t \in MCTexts |-> IF t = "named" THEN {"mutation", "__typename"} ELSE {"query"}]
MCManifest == {[hash |-> "q", text |-> "q"]}

Parts == {"samples", "paging", "studio", "sessions", "persisted", "loaders", "files", "reads",
          "notices"}

\* The first of the states a part may begin in, for the parts that do not run.
Init ==
    /\ focus \in Parts
    /\ SampleInit /\ ListInit /\ StudioInit /\ SessionInit /\ LoaderInit
    /\ PersistedInit
    /\ focus # "persisted" => ~only
    /\ FileInit
    /\ focus # "files" => ~isList
    /\ ReadInit
    /\ focus # "reads" => here = {} /\ there = {} /\ refs = <<>>
    /\ NoticeInit
    /\ focus # "notices" => ~memoizes

\* One step of the part in focus.
PartStep ==
    \/ /\ focus = "samples" /\ SampleNext
       /\ UNCHANGED <<listVars, studioVars, sessionVars, persistedVars, loaderVars,
                      fileVars, readVars, noticeVars>>
    \/ /\ focus = "paging" /\ ListNext
       /\ UNCHANGED <<sample, studioVars, sessionVars, persistedVars, loaderVars,
                      fileVars, readVars, noticeVars>>
    \/ /\ focus = "studio" /\ StudioNext
       /\ UNCHANGED <<sample, listVars, sessionVars, persistedVars, loaderVars,
                      fileVars, readVars, noticeVars>>
    \/ /\ focus = "sessions" /\ SessionNext
       /\ UNCHANGED <<sample, listVars, studioVars, persistedVars, loaderVars,
                      fileVars, readVars, noticeVars>>
    \/ /\ focus = "persisted" /\ PersistedNext
       /\ UNCHANGED <<sample, listVars, studioVars, sessionVars, loaderVars,
                      fileVars, readVars, noticeVars>>
    \/ /\ focus = "loaders" /\ LoaderNext
       /\ UNCHANGED <<sample, listVars, studioVars, sessionVars, persistedVars,
                      fileVars, readVars, noticeVars>>
    \/ /\ focus = "files" /\ FileNext
       /\ UNCHANGED <<sample, listVars, studioVars, sessionVars, persistedVars,
                      loaderVars, readVars, noticeVars>>
    \/ /\ focus = "reads" /\ ReadNext
       /\ UNCHANGED <<sample, listVars, studioVars, sessionVars, persistedVars,
                      loaderVars, fileVars, noticeVars>>
    \/ /\ focus = "notices" /\ NoticeNext
       /\ UNCHANGED <<sample, listVars, studioVars, sessionVars, persistedVars,
                      loaderVars, fileVars, readVars>>

Next == PartStep /\ UNCHANGED focus

Spec == Init /\ [][Next]_<<focus, sample, listVars, studioVars, sessionVars,
                          persistedVars, loaderVars, fileVars, readVars, noticeVars>>

=============================================================================
