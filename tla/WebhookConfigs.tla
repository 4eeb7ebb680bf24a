---- MODULE WebhookConfigs ----
(***************************************************************************)
(* FileWebhookConfigStore: the webhooks of one account, in memory and in    *)
(* webhooks.json, which every change writes anew, with nothing to keep two  *)
(* writes apart.                                                            *)
(***************************************************************************)
EXTENDS Naturals, FiniteSets, Functions

CONSTANTS
    Config,   \* the identities there are for webhooks: a bound on how many exist at once
    Url,      \* destinations
    Writer    \* the writes that may be under way at once

VARIABLES
    configs,  \* in memory: the webhooks by identity
    file,     \* webhooks.json: what it holds, when it can be parsed
    writes,   \* the writeFile() calls
    doubtful  \* history: since the last write that was alone, one failed or met another

configVars == <<configs, file, writes, doubtful>>

ASSUME ConfigAssumption == IsFiniteSet(Config)

Settings == [url : Url, enabled : BOOLEAN]

Configs == UNION {[C -> Settings] : C \in SUBSET Config}

None == [c \in {} |-> 0]

Torn == [whole |-> FALSE, content |-> None]

\* step: done, opening or writing; met: another write put something in the file meanwhile.
NoWrite == [step |-> "done", content |-> None, met |-> FALSE]

\* The process has loaded what the file holds; no file is no webhooks.
ConfigInit ==
    /\ configs \in Configs
    /\ file = [whole |-> TRUE, content |-> configs]
    /\ writes = [w \in Writer |-> NoWrite]
    /\ doubtful = FALSE

Busy == {w \in Writer : writes[w].step # "done"}

\* Which of the free ones a change takes makes no difference.
NextWriter == CHOOSE w \in Writer \ Busy : TRUE

---------------------------------------------------------------------------
\* The operations: memory first, then persist()

\* (slip) persist() serializes what there was before the change.
Change_WritesOld(new) ==
    /\ configs' = new
    /\ Busy # Writer
    /\ writes' = [writes EXCEPT ![NextWriter] = [NoWrite EXCEPT !.step = "opening", !.content = configs]]
    /\ doubtful' = (doubtful \/ Busy # {})
    /\ UNCHANGED file

Change(new) ==
    /\ configs' = new
    /\ Busy # Writer
    /\ writes' = [writes EXCEPT ![NextWriter] = [NoWrite EXCEPT !.step = "opening", !.content = new]]
    /\ doubtful' = (doubtful \/ Busy # {})
    /\ UNCHANGED file

Add(s) == \E c \in Config \ DOMAIN configs : Change([d \in DOMAIN configs \union {c} |->
                                                        IF d = c THEN s ELSE configs[d]])

Update(c, s) == Change([configs EXCEPT ![c] = s])

RemoveConfig(c) == Change(Restrict(configs, DOMAIN configs \ {c}))

RemoveByAccountId == configs # None /\ Change(None)

\* The singular PUT: a webhook that has the URL already is updated.
PutWebhook(s) ==
    LET same == {c \in DOMAIN configs : configs[c].url = s.url}
    IN  IF same = {} THEN Add(s) ELSE \E c \in same : Update(c, s)

---------------------------------------------------------------------------
\* writeFile(): opening cuts the file to nothing, then the content goes in

\* Whoever writes while another one does leaves a mixture, or only its own content.
WriteOpens(w) ==
    /\ writes[w].step = "opening"
    /\ writes' = [writes EXCEPT ![w].step = "writing", ![w].met = FALSE]
    /\ file' = Torn
    /\ UNCHANGED <<configs, doubtful>>

WriteEnds(w) ==
    /\ writes[w].step = "writing"
    /\ \E whole \in IF writes[w].met THEN BOOLEAN ELSE {TRUE} :
           file' = IF whole THEN [whole |-> TRUE, content |-> writes[w].content] ELSE Torn
    /\ writes' = [x \in Writer |->
                    IF x = w THEN NoWrite
                    ELSE [writes[x] EXCEPT !.met = @ \/ writes[x].step = "writing"]]
    /\ doubtful' = (doubtful /\ (Busy # {w} \/ writes[w].met \/ writes[w].content # configs))
    /\ UNCHANGED configs

\* The request answers 500 and memory stays changed; part of the content may be in the file.
WriteFails(w) ==
    /\ writes[w].step # "done"
    /\ \/ UNCHANGED file
       \/ writes[w].step = "writing" /\ file' = Torn
    /\ writes' = [x \in Writer |->
                    IF x = w THEN NoWrite
                    ELSE [writes[x] EXCEPT !.met = @ \/ writes[x].step = "writing"]]
    /\ doubtful' = TRUE
    /\ UNCHANGED configs

\* The process stops, perhaps in the middle of writing, and starts again. load(): a file that
\* cannot be parsed is no webhooks.
ConfigRestart ==
    /\ \/ UNCHANGED file
       \/ (\E w \in Writer : writes[w].step = "writing") /\ file' = Torn
    /\ configs' = file'.content
    /\ writes' = [w \in Writer |-> NoWrite]
    /\ doubtful' = ~file'.whole

ConfigStep ==
    \/ \E s \in Settings : Add(s) \/ PutWebhook(s) \/ \E c \in DOMAIN configs : Update(c, s)
    \/ \E c \in DOMAIN configs : RemoveConfig(c)
    \/ RemoveByAccountId
    \/ \E w \in Writer : WriteOpens(w) \/ WriteEnds(w) \/ WriteFails(w)

ConfigNext == ConfigStep \/ ConfigRestart

---------------------------------------------------------------------------
\* Properties

\* Changes that were saved one at a time are in the file, so a restart brings the same
\* webhooks back; a change saved alone also repairs what an earlier failure or an overlap left
\* in it. (persist, load.)
SavedWhenQuiet == (Busy = {} /\ ~doubtful) => file = [whole |-> TRUE, content |-> configs]
====
