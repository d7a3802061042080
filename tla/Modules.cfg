SPECIFICATION Spec
CONSTANT Programs <- Small
INVARIANTS OncePerFile LoadStackIsReal CircularOnlyInCycles OwnNamesKept BothLoadersAgree
