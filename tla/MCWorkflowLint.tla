----------------------------- MODULE MCWorkflowLint ---------------------------
(***************************************************************************)
(* The documents of workflows that are linted, and run when they pass:     *)
(* three plain steps in every graph of dependencies, two steps of which    *)
(* one reads what is declared, and a step beside an event step and a       *)
(* trigger.                                                                *)
(***************************************************************************)
EXTENDS WorkflowLint

Pinned == [registry |-> TRUE, whole |-> TRUE, kind |-> "skill", version |-> "semver"]

Step(id, place, type, deps) ==
    [id |-> id, place |-> place, type |-> type, deps |-> deps, reads |-> {},
     outputs |-> {}, names |-> [n \in {"ref"} |-> Pinned], pattern |-> "none",
     migrated |-> "", endpoint |-> TRUE]

Plain ==
    {[steps |-> <<Step("a", "top", type, da), Step("b", p, "prompt", db),
                  Step("c", q, "skill", dc)>>,
      inputs |-> {}, triggers |-> <<>>] :
        type \in {"skill", "event-trigger"},
        p \in {"top", "nested", "deep"}, q \in {"top", "failure"},
        da \in SUBSET {"b", "c"}, db \in SUBSET {"a", "b", "c"},
        dc \in SUBSET {"a", "b", "z"}}

Refs == [registry : BOOLEAN, whole : {TRUE}, kind : {"mcp"},
         version : {"semver", "scope", "latest"}]
Reading == [kind : {"inputs", "steps", "triggers"}, of : {"i", "a", "t", "e"},
            field : {"x", "y"}]

Writers ==
    {[Step("a", "top", t, {}) EXCEPT !.outputs = o, !.names = [n \in ns |-> r]] :
        t \in {"llm", "mcp"}, o \in {{}, {"x"}}, r \in Refs,
        ns \in {{"ref", "tool"}, {"prompt_template", "model"}, {"prompt_template"}}}
Readers ==
    {[Step(id, "top", "skill", {"a"}) EXCEPT !.reads = {r}] :
        id \in {"a", "b"}, r \in Reading}

Event(p) == [Step("e", "top", "event-trigger", {}) EXCEPT !.pattern = p]
Trigger(t, topic) ==
    [id |-> "t", migrated |-> "", outputs |-> {"x"}, type |-> t, topic |-> topic]

Wired ==
    {[steps |-> <<w, r, Event("http")>>, inputs |-> {"i"},
      triggers |-> <<Trigger("event-bus", "deployment.completed.v1")>>] :
        w \in Writers, r \in Readers}

Started ==
    {[steps |-> <<Step("a", "top", "skill", {}), Event(p)>>, inputs |-> {},
      triggers |-> <<Trigger(t, topic)>>] :
        p \in {"none", "http", "deployment.completed.v1", "other"},
        t \in {"cron", "event-bus", "sms"},
        topic \in {"", "deployment.completed.v1", "other"}}

LintedDocuments == Plain \cup Wired \cup Started
=============================================================================
