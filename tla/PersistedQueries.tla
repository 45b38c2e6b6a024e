-------------------------- MODULE PersistedQueries --------------------------
(***************************************************************************)
(* Queries asked for by their hash: persistedQueries/index.js, on several  *)
(* servers that share nothing.  HashOf is the hash of the trimmed text,    *)
(* Words what the text has in it; Manifest lists the [hash, text] of the   *)
(* build, which loadManifest believes.  What is asked over a WebSocket     *)
(* (app.js:164-180) meets no plugin and is not among these requests.       *)
(***************************************************************************)
EXTENDS Common, FiniteSets, Functions

CONSTANTS Servers, Clients, Texts, HashOf, Words, Manifest

VARIABLES only,      \* only what is on the safelist may be asked for
          known,     \* what a server has: hash -> text
          safelist,  \* the hashes of its manifest
          asking,    \* the texts clients wait for: [text, server]
          ran        \* the last query that was executed

persistedVars == <<only, known, safelist, asking, ran>>

Nothing == [h \in {} |-> None]
Approved == {m.hash : m \in Manifest}

(* registerQuery: the later text of a hash replaces the earlier.            *)
Put(queries, hash, text) ==
    [h \in DOMAIN queries \cup {hash} |-> IF h = hash THEN text ELSE queries[h]]

(* loadManifest                                                             *)
Loaded == {q \in [Approved -> Texts] :
             \A h \in Approved : [hash |-> h, text |-> q[h]] \in Manifest}

PersistedInit ==
    /\ only \in BOOLEAN
    /\ known \in [Servers -> Loaded] /\ safelist = [s \in Servers |-> Approved]
    /\ asking = [c \in Clients |-> None] /\ ran = None

(* The process ends, and the next one reads the manifest.                   *)
Restart(s) ==
    /\ \E q \in Loaded : known' = [known EXCEPT ![s] = q]
    /\ safelist' = [safelist EXCEPT ![s] = Approved]
    /\ UNCHANGED <<only, asking, ran>>

Admits(s, hash) == ~only \/ hash \in safelist[s]

Executes(s, hash, text) == ran' = [server |-> s, hash |-> hash, text |-> text]

(* A request with a hash alone: what the server has, or "not found", after  *)
(* which the client sends the text as well.                                 *)
Ask(c, s, text) ==
    /\ asking[c] = None /\ Admits(s, HashOf[text])
    /\ IF HashOf[text] \in DOMAIN known[s]
       THEN Executes(s, HashOf[text], known[s][HashOf[text]]) /\ UNCHANGED asking
       ELSE asking' = [asking EXCEPT ![c] = text] /\ UNCHANGED ran
    /\ UNCHANGED <<only, known, safelist>>

(* Variant: the hash that was sent is believed. *)
RegistersAny(s, hash, text) ==
    /\ Admits(s, hash)
    /\ known' = [known EXCEPT ![s] = Put(@, hash, text)]
    /\ Executes(s, hash, text)

(* With the hash and the text: the hash is computed again.                  *)
Registers(s, hash, text) ==
    /\ Admits(s, hash) /\ HashOf[text] = hash
    /\ known' = [known EXCEPT ![s] = Put(@, hash, text)]
    /\ Executes(s, hash, text)

Retry(c, s) ==
    /\ asking[c] # None
    /\ Registers(s, HashOf[asking[c]], asking[c])
    /\ asking' = [asking EXCEPT ![c] = None]
    /\ UNCHANGED <<only, safelist>>

(* A client whose hash is that of another text.                             *)
Mistake(s, hash, text) ==
    /\ Registers(s, hash, text)
    /\ UNCHANGED <<only, safelist, asking>>

(* isIntrospection: the text includes __schema or __type, whatever it asks  *)
(* for besides - __typename is among the fields of many texts.              *)
IsIntrospection(text) == Words[text] \cap {"__schema", "__type", "__typename"} # {}

(* A request without the extension.                                         *)
Bare(s, text) ==
    /\ ~only \/ IsIntrospection(text)
    /\ Executes(s, HashOf[text], text)
    /\ UNCHANGED <<only, known, safelist, asking>>

(* clear *)
Clear(s) ==
    /\ known' = [known EXCEPT ![s] = Nothing]
    /\ safelist' = [safelist EXCEPT ![s] = {}]
    /\ UNCHANGED <<only, asking, ran>>

PersistedNext ==
    \/ \E s \in Servers : Restart(s) \/ Clear(s) \/ \E text \in Texts : Bare(s, text)
    \/ \E c \in Clients, s \in Servers :
          Retry(c, s) \/ \E text \in Texts : Ask(c, s, text)
    \/ \E s \in Servers, hash \in Range(HashOf), text \in Texts : Mistake(s, hash, text)

PersistedSpec == PersistedInit /\ [][PersistedNext]_persistedVars

-----------------------------------------------------------------------------
(* Whatever was registered, cleared and restarted meanwhile, a request that *)
(* gives a hash runs a text of that hash; and where only the safelist is    *)
(* allowed, what runs has a hash of the manifest or includes __schema or    *)
(* __type, as any text does that asks for __typename - provided that the    *)
(* manifest's own hashes are right.                                         *)
RunsWhatWasAsked ==
    (\A m \in Manifest : HashOf[m.text] = m.hash) /\ ran # None =>
        /\ HashOf[ran.text] = ran.hash
        /\ only /\ ~IsIntrospection(ran.text) => ran.hash \in Approved
=============================================================================
