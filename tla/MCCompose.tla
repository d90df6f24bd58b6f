------------------------------- MODULE MCCompose -------------------------------
(***************************************************************************)
(* Three extensions whose contracts depend on one another in chains,       *)
(* diamonds and circles, claim one pattern or nested namespaces, or are    *)
(* missing, misfiled or unpinned; compositions of one or two of them.      *)
(***************************************************************************)
EXTENDS Compose, TLC

CONSTANTS A, B, C, h1, h2, snap

ContractOf(name, depends, handler, owned, snapshot) ==
    [declared |-> name, depends |-> depends, handler |-> handler,
     owned |-> owned, snapshot |-> snapshot]

Plain(n, depends) == ContractOf(n, depends, Missing, <<>>, snap)

MCExtensions == {A, B, C}

OfA == {Plain(A, <<>>), Plain(A, <<B, C>>),
        ContractOf(A, <<B>>, h1, << <<1>> >>, snap)}
OfB == {Plain(B, <<>>), Plain(B, <<C>>), Plain(B, <<A, B>>), Plain(C, <<>>), Missing,
        ContractOf(B, <<>>, h1, << <<2>> >>, snap), ContractOf(B, <<A>>, h2, << <<1, 2>>, <<3>> >>, snap)}
OfC == {Plain(C, <<>>), ContractOf(C, <<>>, Missing, << <<>> >>, snap),
        ContractOf(C, <<>>, h2, << <<4>>, <<4, 1>> >>, snap), ContractOf(C, <<>>, h2, << <<1, 1>> >>, Missing)}

MCBooks == {[n \in MCExtensions |-> IF n = A THEN a ELSE IF n = B THEN b ELSE c] :
              a \in OfA, b \in OfB, c \in OfC}

MCTargets ==
    {[name |-> "python", profile |-> [declared |-> "its directory", complete |-> TRUE]],
     [name |-> "rust", profile |-> [declared |-> "its directory", complete |-> FALSE]],
     [name |-> "zig", profile |-> [declared |-> "another", complete |-> TRUE]]}
MCCells == {"python"} \X {A, B, C}

System(exts, flat, faces) ==
    [extensions |-> exts, target |-> "python", contradicted |-> FALSE,
     flat |-> flat, faces |-> faces]
NoFaces == [n \in MCExtensions |-> Missing]

MCSystems ==
    {System(e, f, NoFaces) : e \in {<<A>>, <<B, A>>, <<A, C>>}, f \in {Missing, "not-installable"}}
    \cup {System(<<B>>, f, NoFaces) : f \in {"empty", "misspelt"}}
    \cup {System(<<A, B>>, Missing, [NoFaces EXCEPT ![B] = s]) :
            s \in {"not-installable", "misspelt", "installed"}}
    \cup {System(<<A>>, "installed", [NoFaces EXCEPT ![A] = "not-installable"]),
          System(<<>>, Missing, NoFaces),
          [System(<<A>>, Missing, NoFaces) EXCEPT !.contradicted = TRUE],
          [System(<<A>>, Missing, NoFaces) EXCEPT !.target = "rust"],
          [System(<<A>>, Missing, NoFaces) EXCEPT !.target = "zig"]}

\* One extension more, which the peer cannot host, or one less.
MCRedesigns == {System(<<A, B>>, Missing, [NoFaces EXCEPT ![B] = "not-installable"])}

MCComposeSpec == ComposeInit /\ [][ComposeNext]_composeVars /\ ComposeFairness
================================================================================
