------------------------------ MODULE MCSettings ------------------------------
(* A project p with the subprojects a and b, and c in a.                     *)
EXTENDS Cells, TLC

P == <<"p">>
A == <<"p", "a">>
B == <<"p", "b">>
C == <<"p", "a", "c">>
Targets == [m |-> P \o <<"m">>, x |-> A \o <<"x">>, y |-> B \o <<"y">>, z |-> C \o <<"z">>]

Conf(dir, name, key, value) == (<<dir, name>> :> (key :> value))
Tests(dir) == IF dir = B THEN <<Targets.x>> ELSE <<Targets.y>>

\* What a subproject's directory may have.
Plain(dir) == {Conf(dir, Ct, "CXX", "g"), Conf(dir, Ct, "CXX", "h"),
               Conf(dir, Ct, "append-CXXFLAGS", <<<<"f">>>>), Conf(dir, Ct, "append-CXXFLAGS", <<<<"g">>>>)}
Rich(dir) == {<< >>, Conf(dir, Ct, "CXX", "g") @@ Conf(dir, <<"gcc">>, "CXX", "h"),
              Conf(dir \o ConfD, Ct, "CXX", "h") @@ Conf(dir, Ct, "CXX", "g"),
              Conf(dir, Ct, "tests", Tests(dir)),
              Conf(dir, Ct, "disable-tests", "1"), Conf(dir, Ct, "disable-tests", "true"),
              Conf(dir, Ct, "auto-exclude", <<"c">>), Conf(dir, Ct, "auto-exclude", <<"a", "c">>),
              Conf(dir, Ct, "variant", <<"gcc">>)}

Base == Conf(<<"bundled">>, <<"gcc">>, "CXX", "g") @@ Conf(<<"bundled">>, <<"debug">>, "append-CXXFLAGS", <<<<"O">>>>)

World(files, git, cwd) ==
  [files |-> files, root |-> P, git |-> git, cwd |-> cwd, env |-> [variant |-> << >>, canon |-> << >>],
   sorted |-> << << >>, P, A, C, B>>, mains |-> <<Targets.m, Targets.x, Targets.z>>, tests |-> <<Targets.y>>,
   pool |-> << >>, peers |-> {}, told |-> << >>, packages |-> << >>, path |-> << >>, externals |-> << >>, dirs |-> {}]

Command(filename, tests, auto, variant) ==
  [filename |-> filename, tests |-> tests, auto |-> auto, variant |-> variant, canon |-> << >>,
   config |-> << >>, git_root |-> TRUE]

Trees == {a @@ b @@ c @@ Base : a \in Plain(A) \cup Rich(A), b \in Plain(B) \cup Rich(B),
                                c \in {<< >>} \cup Plain(C)}

Commands == {Command(<<Targets.x, Targets.y>>, << >>, FALSE, <<"debug", "gcc">>),
             Command(<<Targets.x, Targets.m>>, <<Targets.y>>, FALSE, << >>),
             Command(<<Targets.z, Targets.x>>, << >>, FALSE, << >>),
             Command(<<Targets.y>>, << >>, FALSE, << >>),
             Command(<< >>, << >>, TRUE, << >>)}

MCHashed == {<<"hash">>}
MCOutputs == {File("aa", "f"), File("aa", "g")}
MCOrder == <<"gcc", "debug">>

Projects == {<<World(f, TRUE, d), c>> : f \in Trees, d \in {P, A}, c \in Commands}

\* A pool with cells of a variant that is gone, misspelt, of a peer and of an old layout.
OldPool == (<<"gcc", "debug">> :> {File("aa", "f")}) @@ (<<"gcc", "gcc", "debug">> :> {File("aa", "f"), File(Top, "f")})
           @@ (<<"debug", "gcc">> :> {File("aa", "f"), File("bb", "f")})
           @@ (<<"peer">> :> {File("aa", "f"), Lock(File("aa", "f"))}) @@ (<<"hash">> :> {File(Top, "f")})
           @@ (<<"docs">> :> {File("cc", "f")})

Pool(env, conf, variant) ==
  <<[World(conf @@ Base, TRUE, P) EXCEPT !.pool = OldPool, !.peers = {<<"peer">>}, !.env.canon = env],
    Command(<<Targets.m>>, << >>, FALSE, variant)>>

Turned == <<"debug", "gcc">>

\* A build told an order on its command line, and a purge that is.
Told(canon, told) ==
  <<[World(Base, TRUE, P) EXCEPT !.pool = Restrict(OldPool, {Turned, <<"gcc", "debug">>}), !.told = told],
    [Command(<<Targets.m>>, << >>, FALSE, Turned) EXCEPT !.canon = canon]>>

\* A build with a --config that lies outside of the hierarchy.
Own == <<"own">>
Configured ==
  <<[World(Conf(<<"away">>, Own, "CXX", "g") @@ Base, TRUE, P) EXCEPT !.pool = Own :> {File("aa", "f")}],
    [Command(<<Targets.m>>, << >>, FALSE, << >>) EXCEPT !.config = <<<<"away">>, Own>>]>>

Pools == {Pool(<< >>, << >>, Turned), Pool(Turned, << >>, <<"gcc", "debug", "gcc">>),
          Pool(<< >>, Conf(P, Ct, "variant", <<"debug">>), << >>),
          Pool(<< >>, Conf(P, Ct, "canon", Turned), <<"gcc", "debug">>)}
         \cup {Told(canon, told) : canon, told \in {<< >>, Turned}} \cup {Configured}

\* Two directories with packages, flags and caches that are configured in different ways.
D1 == <<"usr", "pc">>
D2 == A \o <<"pc">>
Package(word) == [cflags |-> <<<<"-I", "inc", word>>, <<"-I", "usr", "include">>>>, libs |-> <<<<"-l", word>>>>]
MCPackages == (D1 :> ("z" :> Package("z"))) @@ (D2 :> (("z" :> Package("z2")) @@ ("y" :> Package("y"))))

Asks == {<< >>, "pkg-config" :> <<"z">>, "pkg-config" :> <<"z", "y">>}
Ways == {<< >>,
         "CXXFLAGS" :> <<<<"-I">>, <<"p", "inc">>, <<"-O2">>, <<"-O2">>>> @@ "project-version" :> <<"1">> @@ "LD" :> "clang"
            @@ "LDFLAGS" :> <<<<"-fuse-ld=wild">>>>,
         "INCLUDE" :> <<<<"p", "inc">>>> @@ "append-INCLUDE" :> <<<<"include">>, <<"p", "inc">>>>
            @@ "cas-objdir" :> [path |-> <<"s">>, under |-> <<<<"gcc", "debug">>>>]}
AsksToo == {<< >>, "append-pkg-config" :> <<"y">>, "append-pkg-config" :> <<"z">>}
WaysToo == {<< >>, "prepend-PKG_CONFIG_PATH" :> <<D2>>, "append-PKG_CONFIG_PATH" :> <<D1>>}
Strict == {<< >>, "pkg-config-errors" :> "error"}

Build(own, sub, path, externals, command) ==
  <<[World((<<P, Ct>> :> own) @@ (<<A, Ct>> :> sub) @@ Base, TRUE, P) EXCEPT
       !.packages = MCPackages, !.path = path, !.externals = externals, !.dirs = {<<"ext", "lib", "include">>}],
    command>>

Builds == {Build(asks @@ ways @@ strict, too @@ more @@ ("append-CXXFLAGS" :> <<<<"-O2">>>>), path, externals, command) :
             asks \in Asks, ways \in Ways, strict \in Strict, too \in AsksToo, more \in WaysToo,
             path \in {<< >>, <<D1>>, <<D1, D2>>}, externals \in {<< >>, <<<<"ext", "lib">>>>},
             command \in {Command(<< >>, << >>, TRUE, <<"debug", "gcc">>), Command(<<Targets.x>>, << >>, FALSE, << >>)}}

MCInvocations == Projects \cup Pools \cup Builds
==============================================================================
