SPECIFICATION Spec
CONSTANTS
  MaxVideo = 4
  MaxAudio = 3
  VideoDeltas = {0, 1, 2}
  AudioDeltas = {0, 1, 3}
  Videos <- MCVideos
  Audios <- MCAudios
  Timescales <- MCTimescales
  Nominals <- MCNominals
  MaxTick = 7
CHECK_DEADLOCK FALSE
INVARIANTS TypeOK Partitions StartsAtSync BaseDtsExact CutInTime AudioAligned
