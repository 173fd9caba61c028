------------------------------ MODULE DemucsStream -----------------------------
(***************************************************************************)
(* DemucsStreamer: a network of convolutions, an LSTM and transposed       *)
(* convolutions that is fed any amount of audio at a time.  A value is the *)
(* number of its position in its layer if it is what Demucs.forward puts   *)
(* there for the whole recording, and Wrong if it is not.  The audio is    *)
(* not resampled (resample = 1) nor normalized, and a step is of one frame *)
(* (num_frames = 1); extra, which only pads the resampling, is left out.   *)
(***************************************************************************)
EXTENDS Integers, Sequences

CONSTANTS
  DemucsDepth,   \* depth, of the encoder and of the decoder
  DemucsStride,  \* stride of each layer; kernel_size is twice as much
  DemucsAhead,   \* resample_lookahead
  MaxFeeds,      \* bound on the calls of feed
  MaxFed         \* bound on the samples of a call

VARIABLES
  stream,   \* pending, conv_state (<<>> for None) and lstm_state (the next position)
  fedTo,    \* samples fed, those of flush left out
  denoised, \* what feed returned
  feeds,    \* calls of feed
  tail      \* what flush returned, <<-2>> before

demucsVars == <<stream, fedTo, denoised, feeds, tail>>

Wrong == -1
Kernel == 2 * DemucsStride
Drop(s, n) == SubSeq(s, n + 1, Len(s))

\* valid_length
ConvLength(n) == (n - Kernel + DemucsStride - 1) \div DemucsStride + 1
ValidLength(n) ==
  LET down[i \in 0 .. DemucsDepth] ==
        IF i = 0 THEN n ELSE IF ConvLength(down[i - 1]) > 1 THEN ConvLength(down[i - 1]) ELSE 1
      up[i \in 0 .. DemucsDepth] ==
        IF i = 0 THEN down[DemucsDepth] ELSE (up[i - 1] - 1) * DemucsStride + Kernel
  IN up[DemucsDepth]

TotalStride == DemucsStride ^ DemucsDepth
FrameLength == ValidLength(1)
TotalLength == FrameLength + DemucsAhead

\* encode[0]: the value at a position is made of the Kernel values from Stride times it.
Conv(x) ==
  [i \in 1 .. (Len(x) - Kernel) \div DemucsStride + 1 |->
     LET first == x[(i - 1) * DemucsStride + 1] IN
     IF first >= 0 /\ first % DemucsStride = 0
        /\ \A j \in 1 .. Kernel : x[(i - 1) * DemucsStride + j] = first + j - 1
     THEN first \div DemucsStride ELSE Wrong]

Offset(length, missing) == length - Kernel - DemucsStride * (missing - 1)

\* A layer of the encoder but the last: only what prev does not have is computed.
Continued(x, prev) ==
  LET missing == (Len(x) - Kernel) \div DemucsStride + 1 - Len(prev)
  IN prev \o Conv(Drop(x, Offset(Len(x), missing)))

Encoded(frame, conv) ==
  LET layer[i \in 0 .. DemucsDepth] ==
        IF i = 0 THEN frame
        ELSE IF i = DemucsDepth \/ conv = <<>> THEN Conv(layer[i - 1])
        ELSE Continued(layer[i - 1], Drop(conv[i], TotalStride \div DemucsStride ^ i))
  IN layer

\* lstm: a value is right if the values before it were given, too.
Lstm(x, next) == [i \in DOMAIN x |-> IF x[i] = next + i - 1 THEN x[i] ELSE Wrong]

\* x += skip, and decode[0] and decode[1]
Plus(x, skip) == [i \in DOMAIN x |-> IF x[i] = skip[i] THEN x[i] ELSE Wrong]

\* decode[2]: for each position, the values whose windows it is in.
Transposed(x) ==
  [p \in 1 .. (Len(x) - 1) * DemucsStride + Kernel |->
     {i \in DOMAIN x : p - (i - 1) * DemucsStride \in 1 .. Kernel}]

Windows(x) == [p \in DOMAIN Transposed(x) |-> {x[i] : i \in Transposed(x)[p]}]

Whole(at, parts) ==
  IF parts = {i \in {(at \div DemucsStride) - 1, at \div DemucsStride} : i >= 0} THEN at ELSE Wrong

\* What is not yet summed up with the window after it is kept for the next frame.
Kept(parts) == Drop(parts, Len(parts) - DemucsStride)

Summed(x, prev) ==
  LET parts == Windows(x)
  IN [p \in 1 .. Len(parts) - DemucsStride |->
        Whole(x[1] * DemucsStride + p - 1,
              IF prev # <<>> /\ p <= DemucsStride THEN parts[p] \union prev[p] ELSE parts[p])]

\* _separate_frame
Separated(st, frame) ==
  LET skips   == Encoded(frame, st.conv)
      prev(j) == IF st.conv = <<>> THEN <<>> ELSE st.conv[DemucsDepth - 1 + j]
      input(j, x) == Plus(x, skips[DemucsDepth - j + 1])
      layer[j \in 0 .. DemucsDepth] ==
        IF j = 0 THEN Lstm(skips[DemucsDepth], st.lstm) ELSE Summed(input(j, layer[j - 1]), prev(j))
  IN [out  |-> layer[DemucsDepth],
      lstm |-> st.lstm + Len(skips[DemucsDepth]),
      conv |-> [i \in 1 .. DemucsDepth - 1 |-> skips[i]]
               \o [j \in 1 .. DemucsDepth |-> Kept(Windows(input(j, layer[j - 1])))]]

\* The body of the loop of feed.
Framed(st) ==
  LET separated == Separated(st, SubSeq(st.pending, 1, FrameLength))
  IN [pending |-> Drop(st.pending, TotalStride), conv |-> separated.conv, lstm |-> separated.lstm,
      out |-> st.out \o SubSeq(separated.out, 1, TotalStride)]

\* feed of samples from a position on.
Fed(st, from, n) ==
  LET pending == st.pending \o [i \in 1 .. n |-> from + i - 1]
      count   == IF Len(pending) < TotalLength THEN 0
                 ELSE (Len(pending) - TotalLength) \div TotalStride + 1
      after[k \in 0 .. count] ==
        IF k = 0 THEN [pending |-> pending, conv |-> st.conv, lstm |-> st.lstm, out |-> <<>>]
        ELSE Framed(after[k - 1])
  IN after[count]

Stream(st) == [pending |-> st.pending, conv |-> st.conv, lstm |-> st.lstm]

DemucsInit ==
  /\ stream = [pending |-> <<>>, conv |-> <<>>, lstm |-> 0]
  /\ fedTo = 0 /\ denoised = <<>> /\ feeds = 0 /\ tail = <<-2>>

FeedDemucs(n) ==
  /\ feeds < MaxFeeds /\ tail = <<-2>>
  /\ LET st == Fed(stream, fedTo, n)
     IN stream' = Stream(st) /\ denoised' = denoised \o st.out
  /\ fedTo' = fedTo + n /\ feeds' = feeds + 1
  /\ UNCHANGED tail

\* flush, once there is no more input.
FlushDemucs ==
  /\ tail = <<-2>>
  /\ LET st == Fed([stream EXCEPT !.conv = <<>>, !.lstm = 0], fedTo, TotalLength)
     IN stream' = Stream(st) /\ tail' = SubSeq(st.out, 1, Len(stream.pending))
  /\ UNCHANGED <<fedTo, denoised, feeds>>

DemucsNext == (\E n \in 1 .. MaxFed : FeedDemucs(n)) \/ FlushDemucs

-------------------------------------------------------------------------------
\* However the audio is cut up, what feed returns is what forward returns for the
\* whole recording, from its start on and as far as it can be known; and with what
\* flush returns it is as long as what was fed.
DenoisedAsForward ==
  /\ denoised = [i \in 1 .. Len(denoised) |-> i - 1]
  /\ tail # <<-2>> => Len(denoised) + Len(tail) = fedTo
  /\ tail = <<-2>> => fedTo - Len(denoised) < TotalLength

-------------------------------------------------------------------------------
(* What the repository's text says and the code does not do *)

\* "get back the last chunk of audio" (voice.py:408): flush drops the states before it
\* denoises that chunk, which then is not what forward returns.
TailAsForward == tail # <<-2>> => tail = [i \in 1 .. Len(tail) |-> Len(denoised) + i - 1]

\* "initialize the previous status" (voice.py:407): after flush, padding is left over
\* in pending, and the states of that chunk.
FlushStartsAfresh == tail # <<-2>> => stream = [pending |-> <<>>, conv |-> <<>>, lstm |-> 0]

===============================================================================
