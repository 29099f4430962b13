--------------------------- MODULE MCClipboardSync ---------------------------
(***************************************************************************)
(* ClipboardSync with a handful of copies of each kind.                    *)
(***************************************************************************)
EXTENDS ClipboardSync

CONSTANTS a, b

AllValues == {a, b}

Text(v) == Only("text", v)
Image(v) == Only("image", v)
\* A file manager's copy: the file, and its path as text.
FileAndPath(v) == [Only("file", v) EXCEPT !["text"] = v]

Both        == {"linux", "macos"}
EveryKind   == {Text(a), Image(b), FileAndPath(b)}
TextImage   == {Text(a), Image(b)}
FromWindows == {<<"text", a>>, <<"image", b>>}
NoItems     == {}

=============================================================================
