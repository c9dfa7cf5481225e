---------------------------- MODULE CopyPrograms ----------------------------
(***************************************************************************)
(* The programs that copy a file:                                          *)
(*   cp_holes        4/11   in blocks, zeros are skipped with lseek        *)
(*   getc_putc       5/1    byte by byte    fgets_fputs  5/2  line by line *)
(*   write_nonblock  14/1   into a pipe that does not block                *)
(*   copy_mmap       14/10  memory to memory                               *)
(* A behaviour runs one of them, on a sequence of source files of which    *)
(* only 4/11 takes more than one.  Every call that can fail may.           *)
(***************************************************************************)
EXTENDS Integers, Sequences, FiniteSets, SequencesExt

CONSTANTS Sources,     \* the arguments: sequences of files, sequences of bytes
          BUFF_SIZE,   \* of 4/11; of the vector of 14/1
          COPYINCR,    \* of 14/10, and the unit of its files is a page
          MAXLINE,     \* of 5/2
          BUFSIZ,      \* bytes that a stream, or the pipe behind 14/1, holds
          MaxChanges   \* times that another process changes the source of 14/10

Hole == -1             \* a place of a file that was never written, and reads as 0
NL == 10

VARIABLES program, src, dst,
          c   \* pc, number of the file, offsets in both, bytes in hand, bytes in
              \* the stream or the pipe, size; cut: an error went unnoticed

Min2(a, b) == IF a < b THEN a ELSE b
File == src[c.i]
Block(n) == SubSeq(File, c.off + 1, Min2(c.off + n, Len(File)))
At(prog, pc) == program = prog /\ c.pc = pc
Ended == {"done", "failed", "killed", "undefined"}

Init ==
  /\ program \in {"cp_holes", "getc_putc", "fgets_fputs", "write_nonblock", "copy_mmap"}
  /\ src \in Sources
  /\ program # "cp_holes" => Len(src) = 1
  /\ dst = [k \in DOMAIN src |-> <<>>]
  /\ c = [pc |-> "open", i |-> 1, off |-> 0, pos |-> 0, buf |-> <<>>, held |-> <<>>, size |-> 0,
          cut |-> {}, missing |-> {}, fds |-> 0, changes |-> 0, nonblock |-> FALSE]

(* The file f after data is written, or the size set, at place n.          *)
Sized(f, n) == [k \in 1..n |-> IF k <= Len(f) THEN f[k] ELSE Hole]
Put(f, n, data) ==
  [k \in 1..(IF n + Len(data) > Len(f) THEN n + Len(data) ELSE Len(f)) |->
     IF k \in (n + 1)..(n + Len(data)) THEN data[k - n]
     ELSE IF k <= Len(f) THEN f[k] ELSE Hole]

To(pc) == c' = [c EXCEPT !.pc = pc]
Same == UNCHANGED <<program, src>>

-----------------------------------------------------------------------------
(* 4/11.  A file that cannot be opened is skipped; when it is the copy,    *)
(* the descriptor of the source stays open.                                *)
cp_open ==
  /\ At("cp_holes", "open")
  /\ \/ c.i > Len(src) /\ To("done")
     \/ /\ c.i <= Len(src)
        /\ \/ c' = [c EXCEPT !.pc = "read", !.off = 0, !.pos = 0, !.size = 0, !.fds = @ + 2]
           \/ \E leaked \in {0, 1} :
                c' = [c EXCEPT !.i = @ + 1, !.fds = @ + leaked, !.missing = @ \cup {c.i}]
  /\ Same /\ UNCHANGED dst

(* r is unsigned: an error is a block of SIZE_MAX bytes.                   *)
cp_read ==
  /\ At("cp_holes", "read")
  /\ \/ c' = IF Block(BUFF_SIZE) = <<>> THEN [c EXCEPT !.pc = "truncate"]
             ELSE [c EXCEPT !.pc = "write", !.buf = Block(BUFF_SIZE),
                            !.off = @ + Len(Block(BUFF_SIZE))]
     \/ To("undefined")
  /\ Same /\ UNCHANGED dst

(* The length of the longest beginning of s without, or with only, zeros.  *)
Run(s, zero) ==
  CHOOSE n \in 0..Len(s) :
    /\ \A k \in 1..n : (s[k] = 0) = zero
    /\ n < Len(s) => (s[n + 1] = 0) # zero

(* One pass of the inner loop.  writen is nullopt only if it has written   *)
(* nothing; after a part of the run it returns a count, which is not       *)
(* looked at.  A failed lseek is reported and skips nothing.               *)
cp_write ==
  /\ At("cp_holes", "write")
  /\ LET run == Run(c.buf, FALSE)
         zeros == Run(SubSeq(c.buf, run + 1, Len(c.buf)), TRUE)
         rest == SubSeq(c.buf, run + zeros + 1, Len(c.buf))
     IN \/ \E n \in 0..run, seek \in {0, zeros} :
             /\ n > 0 \/ run = 0
             /\ dst' = IF n = 0 THEN dst
                       ELSE [dst EXCEPT ![c.i] = Put(@, c.pos, SubSeq(c.buf, 1, n))]
             /\ c' = [c EXCEPT !.pos = @ + n + seek, !.buf = rest,
                               !.size = @ + run + zeros,
                               !.cut = IF n < run \/ seek < zeros THEN @ \cup {c.i} ELSE @,
                               !.pc = IF rest = <<>> THEN "read" ELSE "write"]
        \/ run > 0 /\ To("failed") /\ UNCHANGED dst
  /\ Same

cp_truncate_missing ==
  /\ At("cp_holes", "truncate")
  /\ c' = [c EXCEPT !.i = @ + 1, !.pc = "open", !.fds = @ - 2]
  /\ Same /\ UNCHANGED dst

cp_truncate ==
  /\ At("cp_holes", "truncate")
  /\ \E ok \in BOOLEAN :
       /\ dst' = IF ok THEN [dst EXCEPT ![c.i] = Sized(@, c.size)] ELSE dst
       /\ c' = [c EXCEPT !.i = @ + 1, !.pc = "open", !.fds = @ - 2,
                         !.cut = IF ok THEN @ ELSE @ \cup {c.i}]
  /\ Same

-----------------------------------------------------------------------------
(* 5/1 and 5/2: what one turn of the loop takes from the input, and what   *)
(* of it it gives to the output: fgets stops after a newline or with a     *)
(* full buffer, and fputs at the first NUL.                                *)
getc == Block(1)

fgets ==
  LET b == Block(MAXLINE - 1)
      ends == {k \in DOMAIN b : b[k] = NL}
  IN IF ends = {} THEN b ELSE SubSeq(b, 1, CHOOSE k \in ends : \A j \in ends : k <= j)

fputs(s) == SubSeq(s, 1, Run(s, FALSE))

Taken == IF program = "getc_putc" THEN getc ELSE fgets
Given == IF program = "getc_putc" THEN Taken ELSE fputs(Taken)

(* A full stream is written out and a failure seen; what is left is        *)
(* written out by exit, and a failure there is not.                        *)
stdio_copy ==
  /\ program \in {"getc_putc", "fgets_fputs"} /\ c.pc = "open"
  /\ \/ Taken # <<>> /\ Len(c.held) + Len(Given) <= BUFSIZ /\ UNCHANGED dst
        /\ c' = [c EXCEPT !.off = @ + Len(Taken), !.held = @ \o Given]
     \/ Taken # <<>> /\ Len(c.held) + Len(Given) > BUFSIZ
        /\ dst' = [dst EXCEPT ![1] = @ \o c.held]
        /\ c' = [c EXCEPT !.off = @ + Len(Taken), !.held = Given]
     \/ Taken = <<>> /\ dst' = [dst EXCEPT ![1] = @ \o c.held]
        /\ c' = [c EXCEPT !.pc = "done", !.held = <<>>]
     \/ Taken = <<>> /\ c.held # <<>> /\ UNCHANGED dst
        /\ c' = [c EXCEPT !.pc = "done", !.held = <<>>, !.cut = {1}]
     \/ To("failed") /\ UNCHANGED dst
  /\ Same

-----------------------------------------------------------------------------
(* 14/1 reads once, what there is or nothing, and sets O_NONBLOCK.         *)
nonblock_read ==
  /\ At("write_nonblock", "open")
  /\ \E n \in 0..Len(Block(BUFF_SIZE)) :
       c' = [c EXCEPT !.pc = "write", !.off = n, !.buf = SubSeq(File, 1, n), !.nonblock = TRUE]
  /\ Same /\ UNCHANGED dst

nonblock_write_rewinds ==
  /\ At("write_nonblock", "write")
  /\ \/ /\ c.buf # <<>> /\ Len(c.held) < BUFSIZ
        /\ \E n \in 1..Min2(Len(c.buf), BUFSIZ - Len(c.held)) :
             c' = [c EXCEPT !.held = @ \o SubSeq(c.buf, 1, n), !.buf = SubSeq(@, 1, Len(@) - n)]
     \/ c.buf = <<>> /\ c' = [c EXCEPT !.pc = "done", !.nonblock = FALSE]
  /\ Same /\ UNCHANGED dst

nonblock_write_at_zero ==
  /\ At("write_nonblock", "write")
  /\ c.buf # <<>> /\ Len(c.held) < BUFSIZ
  /\ \E n \in 1..Min2(Len(c.buf), BUFSIZ - Len(c.held)) :
       c' = [c EXCEPT !.held = @ \o SubSeq(c.buf, 1, n), !.buf = SubSeq(@, n + 1, Len(@))]
  /\ Same /\ UNCHANGED dst

(* write takes what fits; into a full pipe it fails with EAGAIN, and the   *)
(* loop tries again.  The end of the loop calls clr_fl and exit.           *)
nonblock_write ==
  /\ At("write_nonblock", "write")
  /\ \/ /\ c.buf # <<>> /\ Len(c.held) < BUFSIZ
        /\ \E n \in 1..Min2(Len(c.buf), BUFSIZ - Len(c.held)) :
             c' = [c EXCEPT !.held = @ \o SubSeq(c.buf, 1, n), !.buf = SubSeq(@, n + 1, Len(@))]
     \/ c.buf = <<>> /\ c' = [c EXCEPT !.pc = "done", !.nonblock = FALSE]
  /\ Same /\ UNCHANGED dst

(* The other end of the pipe takes some, or is closed: SIGPIPE.            *)
Drain ==
  /\ program = "write_nonblock" /\ c.held # <<>>
  /\ \E n \in 1..Len(c.held) :
       /\ dst' = [dst EXCEPT ![1] = @ \o SubSeq(c.held, 1, n)]
       /\ c' = [c EXCEPT !.held = SubSeq(@, n + 1, Len(@))]
  /\ Same

Hangup ==
  /\ At("write_nonblock", "write") /\ c.buf # <<>>
  /\ c' = [c EXCEPT !.pc = "killed", !.held = <<>>]
  /\ Same /\ UNCHANGED dst

-----------------------------------------------------------------------------
(* 14/10 sets the size that fstat gives, before it copies anything.        *)
mmap_open ==
  /\ At("copy_mmap", "open")
  /\ \/ c' = [c EXCEPT !.size = Len(File), !.pc = "ftruncate"]
     \/ To("failed")
  /\ Same /\ UNCHANGED dst

mmap_ftruncate ==
  /\ At("copy_mmap", "ftruncate")
  /\ \/ dst' = [dst EXCEPT ![1] = Sized(<<>>, c.size)] /\ To("copy")
     \/ To("failed") /\ UNCHANGED dst
  /\ Same

mmap_copy_past_size ==
  /\ At("copy_mmap", "copy")
  /\ IF c.off >= c.size THEN To("done") /\ UNCHANGED dst
     ELSE /\ dst' = [dst EXCEPT ![1] = Put(@, c.off, Block(COPYINCR))]
          /\ c' = [c EXCEPT !.off = @ + COPYINCR]
  /\ Same

(* A page that the source has lost since is a SIGBUS.                      *)
mmap_copy ==
  /\ At("copy_mmap", "copy")
  /\ LET copysz == Min2(COPYINCR, c.size - c.off)
     IN \/ c.off >= c.size /\ To("done") /\ UNCHANGED dst
        \/ /\ c.off < c.size /\ Len(Block(copysz)) = copysz
           /\ dst' = [dst EXCEPT ![1] = Put(@, c.off, Block(copysz))]
           /\ c' = [c EXCEPT !.off = @ + copysz]
        \/ c.off < c.size /\ Len(Block(copysz)) < copysz /\ To("killed") /\ UNCHANGED dst
        \/ c.off < c.size /\ To("failed") /\ UNCHANGED dst
  /\ Same

(* Another process appends to the source, or cuts its last page off.       *)
Change ==
  /\ program = "copy_mmap" /\ c.pc \notin Ended /\ c.changes < MaxChanges
  /\ \/ src' = [src EXCEPT ![1] = Append(@, NL)]
     \/ File # <<>> /\ src' = [src EXCEPT ![1] = Front(@)]
  /\ c' = [c EXCEPT !.changes = @ + 1]
  /\ UNCHANGED <<program, dst>>

CopyStep == \/ cp_open \/ cp_read \/ cp_write \/ cp_truncate \/ stdio_copy
            \/ nonblock_read \/ nonblock_write \/ mmap_open \/ mmap_ftruncate \/ mmap_copy

Next == CopyStep \/ Drain \/ Hangup \/ Change

-----------------------------------------------------------------------------
Reads(f) == [k \in DOMAIN f |-> IF f[k] = Hole THEN 0 ELSE f[k]]

(* 4/11, block for block: the copy reads as the source, and no zero of it  *)
(* was written.  While a file is copied, the offset of the copy is where   *)
(* the next byte belongs, also when a run of zeros ends a block.  Only the *)
(* sources whose copy could not be opened may still be open.               *)
HolesRight ==
  program = "cp_holes" =>
    /\ \A k \in DOMAIN src \ (c.cut \cup c.missing) :
         k < c.i => /\ Reads(dst[k]) = src[k]
                    /\ \A x \in DOMAIN src[k] : dst[k][x] = Hole <=> src[k][x] = 0
    /\ c.pc \in {"read", "write"} /\ c.i \notin c.cut =>
         /\ c.pos = c.off - Len(c.buf)
         /\ IsPrefix(Reads(dst[c.i]), File)
    /\ c.pc = "done" => c.fds <= Cardinality(c.missing)

(* The bytes of a file without those that a NUL hides in their line; and   *)
(* that each line fits the buffer of 5/2, or nothing is hidden.            *)
Shown(f) ==
  LET lost == {k \in DOMAIN f : \E j \in 1..k : f[j] = 0 /\ \A x \in j..(k - 1) : f[x] # NL}
  IN SelectSeq([k \in DOMAIN f |-> IF k \in lost THEN Hole ELSE f[k]], LAMBDA b : b # Hole)

Fits(f) ==
  \/ \A k \in DOMAIN f : f[k] # 0
  \/ \A k \in 1..(Len(f) - MAXLINE + 2) : \E j \in k..(k + MAXLINE - 2) : f[j] = NL

(* 5/1 copies every byte, and 5/2 those that no NUL hides, in the order of *)
(* the input, whatever the streams hold back, unless the last write fails, *)
(* which exit does not tell.  14/1 puts every byte it has read into the    *)
(* pipe once and in order, however little of it fits at a time, and leaves *)
(* O_NONBLOCK cleared.  14/10 copies the file as it was at the fstat, when *)
(* it only grows meanwhile, and never beyond that size.                    *)
CopiesRight ==
  /\ HolesRight
  /\ program = "getc_putc" => dst[1] \o c.held = SubSeq(File, 1, c.off) \/ c.cut # {}
  /\ program = "fgets_fputs" /\ c.pc = "done" /\ Fits(File) =>
       dst[1] = Shown(File) \/ c.cut # {}
  /\ program = "write_nonblock" =>
       /\ c.pc # "killed" => dst[1] \o c.held \o c.buf = SubSeq(File, 1, c.off)
       /\ c.pc = "done" => c.buf = <<>> /\ ~c.nonblock
       /\ c.pc = "killed" => IsPrefix(dst[1], File)
  /\ program = "copy_mmap" =>
       /\ Len(dst[1]) <= c.size
       /\ c.pc = "done" /\ Len(File) >= c.size /\ c.changes <= 1 =>
            dst[1] = SubSeq(File, 1, c.size)

(* Every copy ends, as long as whoever reads from the pipe of 14/1 goes on *)
(* reading or closes it.                                                   *)
CopyEnds == <>(c.pc \in Ended)
=============================================================================
