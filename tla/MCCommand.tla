------------------------------ MODULE MCCommand ------------------------------
(***************************************************************************)
(* A small instance of Command: every target of up to four tokens typed    *)
(* alone, check with up to three words behind its name, and kube on nodes  *)
(* with up to two clusters and the kinds of certificate file.              *)
(***************************************************************************)
EXTENDS CommandDocs

Up(n, set) == UNION {[1..k -> set] : k \in 0..n}

Healthy == <<Bare(<<"name">>), Bare(<<"v4">>)>>
Plain   == [scheme |-> "http", rest |-> <<"name">>]
Broken  == Bare(<<"name", ":", "70000">>)
Server1 == [scheme |-> "https", rest |-> <<"v4", ":", "8443">>]
Server2 == [scheme |-> "https", rest |-> <<"[", "v6", "]", ":", "443">>]

MCIssuer == (Healthy[1] :> "system") @@ (Server1 :> "ca1") @@ (Server2 :> "ca2")

Fine == [port |-> 0, range |-> TRUE, forceTLS |-> FALSE, cas |-> <<>>]

NoKube == [distro |-> "auto", kubeconfig |-> "", certDirs |-> <<>>,
           skipLive |-> FALSE, skipCertScan |-> FALSE]

Missing(kind) == [kind |-> kind, lines |-> <<>>]
Dir(kind, files) == [kind |-> kind, files |-> files]

K3sDirs  == {"k3s/server/tls", "k3s/agent"}
Rke2Dirs == {"rke2/server/tls", "rke2/agent"}
Configs  == {"k3s.yaml", "rke2.yaml", "user.yaml"}

Node(config, kinds, files) ==
  [configs |-> [c \in Configs |-> IF c = config[1] THEN config[2] ELSE Missing("missing")],
   dirs    |-> [d \in K3sDirs \cup Rke2Dirs \cup {"tls"} |->
                  IF d \in DOMAIN kinds THEN Dir(kinds[d], files) ELSE Dir("missing", {})]]

Empty == Node(<<"", Missing("missing")>>, <<>>, {})

----------------------------------------------------------------------------
(* Command lines. *)

Scenario(l, out, opt) ==
  [line |-> l, stdout |-> out, copt |-> opt, kopt |-> NoKube, node |-> Empty]

Typed == {t \in [scheme : {""}, rest : Up(4, Tokens \ {"80"})]
                   \cup [scheme : {"http", "https"}, rest : Up(3, Tokens \ {"80"})] : Apart(t.rest)}
           \cup {f[1] : f \in Forms} \cup {[scheme |-> "ftp", rest |-> <<"name">>]}

Behind == {Healthy[1], Healthy[2], Plain, Broken, Gate, Word("--format=json"), Word("--format=xml"),
           Word("-h"), Word("--bogus"), Word("help")}

Options == {Fine, [Fine EXCEPT !.range = FALSE], [Fine EXCEPT !.forceTLS = TRUE],
            [Fine EXCEPT !.port = 8443]}

Lines == Up(3, Behind) \cup {<<Word("check")>> \o l : l \in Up(2, Behind)}
           \cup {<<c>> \o l : c \in Commands \ (KubeNames \cup {Word("check")}), l \in Up(1, Behind)}
           \cup {<<Gate, Healthy[1], Plain, Healthy[2]>>}

CheckScenarios ==
  {Scenario(<<t>>, "open", Fine) : t \in Typed}
    \cup {Scenario(l, out, Fine) : l \in Lines, out \in {"open", "full"}}
    \cup {Scenario(<<Gate, t>>, "open", o) : t \in {Plain, Healthy[1]}, o \in Options}

----------------------------------------------------------------------------
(* Nodes. *)

Line(n, key, value) == [cluster |-> n, key |-> key, value |-> value]
Server(n, value)    == Line(n, "server", value)
CA(n, value)        == Line(n, "certificate-authority-data", value)
CAFile(n, value)    == Line(n, "certificate-authority", value)

Kubeconfigs ==
  {<<Server(1, <<Server1>>), ca>> : ca \in {CA(1, <<v>>) : v \in {"ca1", "ca2", "garbled", "no_pem"}}
                                        \cup {CAFile(1, <<v>>) : v \in {"ca1", "lost"}}}
    \cup {<<CA(1, <<"ca1">>), Server(1, <<Server1>>), CA(2, <<"ca2">>), Server(2, <<Server2>>)>>,
          <<Server(1, <<Server1>>), CA(2, <<"ca2">>), Server(2, <<Server2>>)>>,
          <<CA(1, <<>>), Server(1, <<>>), CA(2, <<"ca2">>), Server(2, <<Server2>>)>>,
          <<Server(1, <<Plain>>)>>, <<Server(1, <<Broken>>)>>, <<>>}

Valid   == <<[notBefore |-> -1, notAfter |-> 1]>>
Expired == <<[notBefore |-> -2, notAfter |-> -1]>>
Future  == <<[notBefore |-> 1, notAfter |-> 2]>>

Pem(cert) == [type |-> "CERTIFICATE", cert |-> cert]
Key       == [type |-> "PRIVATE KEY", cert |-> <<>>]

Crt(blocks, der) == [path |-> "a.crt", kind |-> "file", ext |-> ".crt", readable |-> TRUE,
                     blocks |-> blocks, der |-> der]

Contents ==
  {{Crt(b, <<>>)} : b \in Up(2, {Pem(Valid), Pem(Expired), Pem(<<>>), Key})}
    \cup {{Crt(<<>>, c)} : c \in {Valid, Future}}
    \cup {{[Crt(<<Pem(Expired)>>, <<>>) EXCEPT !.ext = ".key"]},
          {[Crt(<<>>, <<>>) EXCEPT !.readable = FALSE]},
          {[Crt(<<>>, <<>>) EXCEPT !.kind = "blocked"]},
          {Crt(<<Pem(Valid)>>, <<>>), [Crt(<<Pem(Future)>>, <<>>) EXCEPT !.path = "b.pem"]}}

KubeLines == {<<Word("kube"), Gate>>, <<Word("k8s")>>, <<Word("kube"), Healthy[1], Gate>>,
              <<Word("kube"), Word("--format=json"), Gate>>, <<Word("kube"), Word("--format=xml"), Gate>>,
              <<Word("kube"), Word("-h")>>, <<Word("kube"), Word("--bogus")>>}

Kube(l, out, o, n) == [line |-> l, stdout |-> out, copt |-> Fine, kopt |-> o, node |-> n]

User == [NoKube EXCEPT !.kubeconfig = "user.yaml", !.certDirs = <<"tls">>]

K3sNode == Node(<<"k3s.yaml", [kind |-> "file", lines |-> <<Server(1, <<Server1>>), CA(1, <<"ca1">>)>>]>>,
                [d \in K3sDirs |-> "dir"], {Crt(<<Pem(Valid)>>, <<>>)})
Rke2Node == Node(<<"", Missing("missing")>>, [d \in {"rke2/agent"} |-> "dir"], {Crt(<<Pem(Valid)>>, <<>>)})

KubeScenarios ==
  {Kube(<<Word("kube"), Gate>>, "open", User,
        Node(<<"user.yaml", [kind |-> "file", lines |-> ls]>>, [d \in {"tls"} |-> k], fs)) :
     ls \in Kubeconfigs, k \in {"dir"}, fs \in Contents}
    \cup {Kube(<<Word("kube"), Gate>>, "open", User,
               Node(<<"user.yaml", Missing("unreadable")>>, [d \in {"tls"} |-> k], fs)) :
            k \in {"dir", "file", "link"}, fs \in {{Crt(<<Pem(Expired)>>, <<>>)}}}
    \cup {Kube(l, out, o, n) :
            l \in KubeLines, out \in {"open", "full"}, n \in {Empty, K3sNode, Rke2Node},
            o \in {NoKube} \cup {[NoKube EXCEPT !.distro = d] : d \in {"k3s", "rke2", "custom", "eks"}}
                    \cup {[NoKube EXCEPT !.skipLive = TRUE], [NoKube EXCEPT !.skipCertScan = TRUE],
                          [NoKube EXCEPT !.certDirs = <<"tls", "k3s/agent">>]}}

MCScenarios == CheckScenarios \cup KubeScenarios
=============================================================================
