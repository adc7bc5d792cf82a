-------------------------- MODULE MCSourceDelivery --------------------------
(* An instance of SourceDelivery for TLC. *)
EXTENDS SourceDelivery

CONSTANTS
    readme,     \* README.md
    local,      \* an IDE's .classpath: ignored, and known to nobody else
    key,        \* a *.pem: ignored, left out of the manifest, refused
    cache,      \* a __pycache__ file: left out, refused, not copied, not ignored
    v1, v2,     \* contents
    link,       \* a symbolic link to a file that holds v1
    dead        \* a symbolic link to nothing

LinkTarget == [l \in Links |-> IF l = link THEN v1 ELSE None]

Sorted == [p \in Paths |-> CASE p = local -> 1
                              [] p = readme -> 2
                              [] p = cache -> 3
                              [] p = key -> 4]

Writes == [p \in Paths |-> CASE p = readme -> {v1, v2, link}
                              [] p = local -> {v1, dead}
                              [] OTHER -> {v1}]
=============================================================================
