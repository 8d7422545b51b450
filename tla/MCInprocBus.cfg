SPECIFICATION FairSpec
CONSTANTS
  a = a
  b = b
  shard = shard
  topic = topic
  m1 = m1
  m2 = m2
  m3 = m3
  m4 = m4
  None = None
  Msgs = {m1, m2, m3, m4}
  Convs = {a, b}
  Shards = {shard}
  Topics = {topic}
  ConvOf <- MCConvOf
  ShardOf <- MCShardOf
  TopicOf <- MCTopicOf
  ParentOf <- MCParentOf
  Synchronous = {m1}
  MaxInFlight = 1
INVARIANTS CountsExact NoSendOnClosed SyncAnswers
PROPERTIES ImplementsExecutor PublishEnds CloseReturns
