------------------------------ MODULE MCServices ------------------------------
(***************************************************************************)
(* Instances of the services, with names, documents and answers in which     *)
(* the cases their code tells apart occur.                                 *)
(***************************************************************************)
EXTENDS Services, SequencesExt

\* Policies of the gate, and the one "c1" has an approval under.
SomePolicies  == {[pin |-> "h1", effect |-> "allow"], [pin |-> "h1", effect |-> "ask"],
                  [pin |-> None, effect |-> "deny"]}
SomeApprovals == "c1" :> [pin |-> "h1", effect |-> "ask"] @@ "c2" :> None

-----------------------------------------------------------------------------
\* Two integrations with tools of the same name, with names that look qualified, with
\* tools that are hidden, that need a resource, or that are listed without a binding.
Tool(exposed, key)     == [exposed |-> exposed, key |-> key]
Tools(bound, offered)  == [bound |-> bound, offered |-> offered]
Plain     == <<"read">>
Put       == <<"put">>
Qualified == <<"web", ".", "read">>

FilesTools == { Tools(Plain :> Tool(TRUE, None), {Plain}),
                Tools(Plain :> Tool(FALSE, None), {Plain}),
                Tools(Plain :> Tool(TRUE, "path") @@ Put :> Tool(TRUE, None), {Plain, Put}),
                Tools(Qualified :> Tool(TRUE, None), {Qualified, Plain}) }
WebTools   == { Tools(Plain :> Tool(TRUE, "path"), {Plain}),
                Tools(Put :> Tool(TRUE, None), {Put, Plain}),
                Tools(<<>>, {Plain}) }

SomeGateways ==
    [tools : {"files" :> f @@ "web" :> w : f \in FilesTools, w \in WebTools}
             \cup {"files" :> f : f \in FilesTools},
     default : BOOLEAN,
     tokens : {<<>>, "t1" :> "ann"}]

SomeNames == {Plain, Put, Qualified, <<"nosuch">>, <<"files", ".", "read">>, <<"web", "/", "read">>,
              <<"files", "/", "put">>, <<"web", ".", "put">>, <<"files", ".", "web", ".", "read">>}

SomeArguments == { <<>>, "path" :> "p", "path" :> None, "_dmint_approval" :> "a1",
                   "dmint_approval" :> "a2" @@ "_dmint_approval" :> "a1" @@ "path" :> "p",
                   "agent_id" :> "ann" @@ "dmint_approval" :> "a2" }

SomeDatabases ==
    {None} \cup [scheme : {"sqlite", "postgresql", "mysql"}, host : {None, "db"},
                 path : {None, "x.db"}, driver : BOOLEAN]

-----------------------------------------------------------------------------
\* Webhooks of the platforms, a host that is allowed, and what a resolution may find.
URLOf(scheme, host, user) == [scheme |-> scheme, host |-> host, user |-> user]
Urls(slack, discord, teams) == [slack |-> slack, discord |-> discord, teams |-> teams]
Found(range, mapped) == [range |-> range, mapped |-> mapped]

SomeConfigs ==
    { [urls |-> Urls(URLOf("https", "hooks", FALSE), None, URLOf("http", "inside", FALSE)),
       allowed |-> {"inside"}],
      [urls |-> Urls(None, URLOf("https", "hooks", TRUE), URLOf("https", "inside", FALSE)),
       allowed |-> {}],
      [urls |-> Urls(URLOf("http", "hooks", FALSE), URLOf("https", "hooks", FALSE), None),
       allowed |-> {}] }

SomeRanges ==
    [host \in {"hooks", "inside"} |->
        {<<>>, <<Found("public", None)>>, <<Found("private", None)>>,
         <<Found("public", None), Found("public", "loopback")>>}]

SomeTexts == SeqOf({"url", "secret", "at", "everyone", "newline"}, 4)

Site(scheme, host) == [scheme |-> scheme, host |-> host]
SomeServers == {Site("https", "mcp"), Site("http", "lo")}
SomeURLs    == {Site("https", "as"), Site("https", "evil"), Site("http", "lo")}

OneAddress == [c \in Browsers |-> "ip"]

\* Browsers are alike, and so are the processes that keep credentials.
ServicesSymmetry == Permutations(Browsers) \cup Permutations(Procs)
=============================================================================
