---------------------------- MODULE MCTraces ----------------------------
(***************************************************************************)
(* An instance for TLC of Client with Traces, and of Otlp: four attempts,  *)
(* three of one provider and one of another that has an id of theirs, a    *)
(* malformed report, and deployments that each look at one difficulty; and *)
(* the exports of an instrumented application.  A behaviour takes the      *)
(* steps of one of the two.                                                *)
(***************************************************************************)
EXTENDS Traces, Otlp

VARIABLE via                \* the module that takes steps

viaVars == <<vars, otlpVars, via>>

Attempt(p, e) == [provider |-> p, event |-> e]

Report(p, e, final, time, request, session, success) ==
    [attempt |-> Attempt(p, e), final |-> final, time |-> time, request |-> request,
     session |-> session, success |-> success]

snap   == Report(1, 1, FALSE, 1, 1, 1, TRUE)
first  == Report(1, 1, TRUE, 1, 1, 1, FALSE)
fixed  == Report(1, 1, TRUE, 1, 1, 1, TRUE)     \* disagrees with first
second == Report(1, 2, TRUE, 2, 1, 2, TRUE)
moved  == Report(1, 2, TRUE, 2, 2, 1, TRUE)     \* second, in another request
other  == Report(2, 1, TRUE, 2, 1, 1, TRUE)
third  == Report(1, 3, TRUE, 3, 1, 1, TRUE)
broken == Report(2, 2, TRUE, 1, 2, 1, FALSE)

SomeReports == {snap, first, fixed, second, moved, third, other, broken}
SomeBad     == {broken}
Sizes       == [r \in SomeReports |-> IF r = other THEN 2 ELSE 1]

Mixture == <<snap, broken, second, first, other>>
SomeCalls ==
    {Mixture, <<broken, second, broken>>, <<snap, first>>, <<fixed, first>>,
     <<second, other>>, <<first, second>>, <<other>>, <<first>>, <<second>>}

Deploy(cs, corrections, statuses, listing, overlap) ==
    [calls |-> cs, corrections |-> corrections, statuses |-> statuses, listing |-> listing,
     overlap |-> overlap]

SomeDeployments ==
    {Deploy({Mixture, <<broken, second, broken>>}, {}, {"ok", "poison", "busy", "auth"},
            "requests", 0),
     Deploy({<<snap, first>>, <<fixed, first>>}, {fixed}, {"ok", "busy", "none"}, "attempts", 0),
     Deploy({<<first, second>>, <<other>>}, {moved}, {"ok", "busy"}, "sessions", 1),
     Deploy({<<first, second>>, <<second, other>>}, {}, {"ok", "other"}, "sessions", 0),
     Deploy({<<snap, first>>, <<second, other>>}, {}, {"ok", "none"}, "attempts", 0),
     Deploy({<<snap, first>>, <<second, other>>}, {moved}, {"ok", "none"}, "requests", 1),
     Deploy({<<first>>, <<second>>}, {third}, {"ok", "busy"}, "requests", 1)}

(* Otlp: a span that carries a prompt, the same one amended, one of another  *)
(* trace with its id, one with a key that looks like content, one where that *)
(* key has an array for a value, one that failed, one of no model, and what *)
(* refuses an export.                                                       *)
GoodSpan == [id |-> "b7ad", start |-> 1, finish |-> 3, system |-> "OpenAI", request |-> "m",
             response |-> Absent, tokens |-> 5, code |-> Absent, error |-> FALSE,
             others |-> {"gen_ai.prompt", "server.port", "finish_reasons"},
             compound |-> {"finish_reasons"}]
Amended   == [GoodSpan EXCEPT !.tokens = 7]
Message   == [GoodSpan EXCEPT !.others = {"user_message"}, !.compound = {}]
Parts     == [Message EXCEPT !.id = "odd", !.compound = {"user_message"}]
Failed    == [GoodSpan EXCEPT !.id = "odd", !.code = "STATUS_CODE_ERROR", !.finish = 0,
                              !.tokens = Absent, !.response = "m2"]
NoModel   == [GoodSpan EXCEPT !.system = "zai", !.request = Absent, !.finish = Absent]
Http      == [GoodSpan EXCEPT !.system = Absent]
Negative  == [GoodSpan EXCEPT !.tokens = -1]
NoStart   == [Http EXCEPT !.start = Absent]

SomeExports ==
    {<<GoodSpan, Http>>, <<Amended, Failed>>, <<Message, Failed>>, <<NoModel, NoStart>>,
     <<NoModel, GoodSpan, Amended>>, <<Negative>>, <<Parts>>}

Systems == [OpenAI |-> "openai", zai |-> "zai"]

-----------------------------------------------------------------------------
ViaInit ==
    /\ Init /\ OtlpInit
    /\ via \in {"client", "otlp"}
    /\ via # "client" => deployment = CHOOSE d \in Deployments : TRUE

ClientStepped == via = "client" /\ Next /\ UNCHANGED <<otlpVars, via>>
OtlpStepped   == via = "otlp" /\ OtlpNext /\ UNCHANGED <<vars, via>>

ViaSpec == ViaInit /\ [][ClientStepped \/ OtlpStepped]_viaVars
           /\ WF_vars(ClientProgress)
=============================================================================
